------------------------------ MODULE Download ------------------------------
(***************************************************************************)
(* The download of one model on one node: the DownloadCoordinator          *)
(* (download/coordinator.py) and the SingletonShardDownloader under it     *)
(* (download/impl_shard_downloader.py).                                    *)
(*                                                                         *)
(* Four kinds of tasks share one event loop: the command processor, the    *)
(* scan that runs every minute, one download_wrapper per started download  *)
(* and the shard task that the wrappers of a shard share.  A step is what  *)
(* one of them does between two suspensions; whatever a handler read       *)
(* before an await may have changed after it.  Progress callbacks are      *)
(* tasks nobody waits for, so they outlive the download that made them.    *)
(* Every change of download_status is sent to the event log in the same    *)
(* step.  The coordinator treats models alike and the model here is in the *)
(* catalogue that the scan goes through.                                   *)
(***************************************************************************)
EXTENDS Integers, FiniteSets

CONSTANTS
    Wrappers,     \* bound: download_wrappers that are alive at the same time
    MaxCommands,  \* bound: commands sent
    MaxTroubles   \* bound: downloads that raise, scans and commands that raise

VARIABLES
    kind,      \* where the model lives: "readonly", or writable and "indexed" or "plain"
    offline,   \* whether the coordinator is in offline mode
    disk,      \* its files in the writable directories: "absent", "part" or "whole"
    status,    \* download_status of the model, "none" if there is no entry
    active,    \* active_downloads of the coordinator: a wrapper's scope or "none"
    wrapper,   \* wrapper[w]: where download_wrapper w is, and whether its scope is cancelled
    task,      \* task[t]: the shard tasks, "none" if there is no such task
    shard,     \* active_downloads of the SingletonShardDownloader: the shard's task or "none"
    progress,  \* a progress callback has been scheduled
    complete,  \* a callback that reports a complete download waits for its thread
    cmd,       \* what the command processor is doing
    scan,      \* what the scan is doing, and what it has read
    dead,      \* an exception has ended the coordinator
    commands,  \* number of commands so far
    troubles   \* number of failures so far

diskVars == <<kind, offline, disk>>
taskVars == <<active, wrapper, task, shard>>
callbackVars == <<progress, complete>>
counters == <<commands, troubles>>
vars == <<diskVars, status, taskVars, callbackVars, cmd, scan, dead, counters>>

None == "none"

ASSUME NoneIsNoWrapper == None \notin Wrappers

Busy == {"ongoing", "completed", "failed"}   \* StartDownload does nothing in these
Tasks == Wrappers                            \* no more shard tasks than wrappers
Asleep == [at |-> "sleep", whole |-> FALSE, found |-> FALSE]
Idle == [at |-> "off", cancelled |-> FALSE, task |-> None]

Whole == kind # "readonly" /\ disk = "whole"
\* resolve_existing_model asks for a read-only copy or for an index and all its weights.
Found == kind = "readonly" \/ (disk = "whole" /\ kind = "indexed")

Init ==
    /\ kind \in {"readonly", "indexed", "plain"}
    /\ disk \in IF kind = "readonly" THEN {"absent"} ELSE {"absent", "part", "whole"}
    /\ offline \in BOOLEAN
    /\ status = None
    /\ active = None
    /\ wrapper = [w \in Wrappers |-> Idle]
    /\ task = [t \in Tasks |-> None]
    /\ shard = None
    /\ progress = FALSE /\ complete = FALSE
    /\ cmd = "idle"
    /\ scan = Asleep
    /\ dead = FALSE
    /\ commands = 0 /\ troubles = 0

Trouble == troubles < MaxTroubles /\ troubles' = troubles + 1

-----------------------------------------------------------------------------
(***************************************************************************)
(* _command_processor: commands one at a time, each handler to its end.    *)
(***************************************************************************)
Receive(next) == cmd = "idle" /\ commands < MaxCommands /\ commands' = commands + 1 /\ cmd' = next

\* StartDownload: nothing to do, or on to the thread that looks for the files.
StartDownload ==
    /\ Receive(IF status \in Busy THEN "idle" ELSE "resolve")
    /\ UNCHANGED <<diskVars, status, taskVars, callbackVars, scan, dead, troubles>>

StartResolved ==
    /\ cmd = "resolve"
    /\ status' = IF Found THEN "completed" ELSE "pending"
    /\ cmd' = IF Found THEN "idle" ELSE "status"
    /\ UNCHANGED <<diskVars, taskVars, callbackVars, scan, dead, counters>>

\* The scope of the new wrapper replaces whatever is in active_downloads.
NewWrapper(w) ==
    /\ wrapper[w].at = "off"
    /\ wrapper' = [wrapper EXCEPT ![w] = [at |-> "new", cancelled |-> FALSE, task |-> None]]
    /\ active' = w

\* The downloader's view of the files decides, whatever became of the status meanwhile.
StartDecided ==
    /\ cmd = "status"
    /\ cmd' = "idle"
    /\ \/ Whole /\ status' = "completed" /\ UNCHANGED taskVars
       \/ ~Whole /\ offline /\ status' = "failed" /\ UNCHANGED taskVars
       \/ /\ ~Whole /\ ~offline
          /\ status' = "ongoing"
          /\ \E w \in Wrappers : NewWrapper(w)
          /\ UNCHANGED <<task, shard>>
    /\ UNCHANGED <<diskVars, callbackVars, scan, dead, counters>>

\* Nothing catches an exception of a handler: it ends the coordinator's task group.
HandlerRaises ==
    /\ cmd \in {"status", "delete"}
    /\ Trouble
    /\ dead' = TRUE
    /\ UNCHANGED <<diskVars, status, taskVars, callbackVars, cmd, scan, commands>>

Cancel(w) == wrapper' = [wrapper EXCEPT ![w].cancelled = TRUE]

CancelDownload ==
    /\ Receive("idle")
    /\ IF active # None /\ status # None
       THEN Cancel(active) /\ status' = "pending"
       ELSE UNCHANGED <<wrapper, status>>
    /\ UNCHANGED <<diskVars, active, task, shard, callbackVars, scan, dead, troubles>>

ReadOnlyCopy == kind = "readonly" /\ status = "completed"

DeleteDownload ==
    /\ Receive(IF ReadOnlyCopy THEN "idle" ELSE "delete")
    /\ IF active # None /\ ~ReadOnlyCopy THEN Cancel(active) ELSE UNCHANGED wrapper
    /\ UNCHANGED <<diskVars, status, active, task, shard, callbackVars, scan, dead, troubles>>

DeleteModel ==
    /\ cmd = "delete"
    /\ disk' = "absent"
    /\ cmd' = "deleted"
    /\ UNCHANGED <<kind, offline, status, taskVars, callbackVars, scan, dead, counters>>

\* A pending status is sent to reset the clients, then the entry is removed.
DeleteReported ==
    /\ cmd = "deleted"
    /\ status' = None
    /\ cmd' = "idle"
    /\ UNCHANGED <<diskVars, taskVars, callbackVars, scan, dead, counters>>

CommandProcessor ==
    \/ StartDownload \/ StartResolved \/ StartDecided \/ HandlerRaises
    \/ CancelDownload \/ DeleteDownload \/ DeleteModel \/ DeleteReported

-----------------------------------------------------------------------------
(***************************************************************************)
(* download_wrapper and the shard task it waits for.                       *)
(***************************************************************************)
Over == {"done", "failed", "cancelled"}

\* Mutant: every wrapper makes a task of its own.
EnsureShardAlways(w, t) ==
    /\ wrapper[w].at = "new"
    /\ task[t] = None
    /\ wrapper' = [wrapper EXCEPT ![w].at = "wait", ![w].task = t]
    /\ task' = [task EXCEPT ![t] = "running"]
    /\ shard' = t

\* ensure_shard: join the task of the shard, whatever state it is in.
EnsureShard(w, t) ==
    /\ wrapper[w].at = "new"
    /\ wrapper' = [wrapper EXCEPT ![w].at = "wait", ![w].task = t]
    /\ \/ shard = None /\ task[t] = None
          /\ task' = [task EXCEPT ![t] = "running"] /\ shard' = t
       \/ shard = t /\ UNCHANGED <<task, shard>>

WrapperBegins(w) ==
    /\ \E t \in Tasks : EnsureShard(w, t)
    /\ UNCHANGED <<diskVars, status, active, callbackVars, cmd, scan, dead, counters>>

\* The cancellation of a scope reaches the task that its wrapper waits for.
DeliverCancel(w) ==
    /\ wrapper[w].at = "wait" /\ wrapper[w].cancelled
    /\ task[wrapper[w].task] \in {"running", "reporting"}
    /\ task' = [task EXCEPT ![wrapper[w].task] = "cancelling"]
    /\ UNCHANGED <<diskVars, status, active, wrapper, shard, callbackVars, cmd, scan, dead, counters>>

\* The wrapper stops waiting; the last one to do so is followed by an unused task.
Leave(w, next) ==
    LET t == wrapper[w].task IN
    /\ wrapper' = [wrapper EXCEPT ![w] = next]
    /\ task' = IF \E v \in Wrappers \ {w} : wrapper[v].task = t THEN task ELSE [task EXCEPT ![t] = None]

\* The finally clause of ensure_shard.
ForgetShard ==
    shard' = IF shard # None /\ task[shard] \in Over THEN None ELSE shard

Failing == [at |-> "failing", cancelled |-> FALSE, task |-> None]

\* The end of ensure_shard, and unless it raised, of the wrapper: whichever scope is in
\* active_downloads is removed.  CancelledError is ignored, whoever was cancelled.
WrapperEnds(w) ==
    /\ wrapper[w].at = "wait"
    /\ task[wrapper[w].task] \in Over
    /\ ForgetShard
    /\ \/ /\ task[wrapper[w].task] # "failed" \/ wrapper[w].cancelled
          /\ Leave(w, Idle)
          /\ active' = None
          /\ UNCHANGED status
       \/ /\ task[wrapper[w].task] = "failed"
          /\ Leave(w, Failing)
          /\ status' = "failed"
          /\ UNCHANGED active
    /\ UNCHANGED <<diskVars, callbackVars, cmd, scan, dead, counters>>

WrapperFailed(w) ==
    /\ wrapper[w].at = "failing"
    /\ wrapper' = [wrapper EXCEPT ![w] = Idle]
    /\ active' = None
    /\ UNCHANGED <<diskVars, status, task, shard, callbackVars, cmd, scan, dead, counters>>

\* A chunk of a file arrives; its progress callback is scheduled.
TaskProgress(t) ==
    /\ task[t] = "running" /\ disk # "whole"
    /\ disk' = "part"
    /\ progress' = TRUE
    /\ UNCHANGED <<kind, offline, status, taskVars, complete, cmd, scan, dead, counters>>

\* The last file is there.  Its callback is scheduled, and the task makes a last report of its own.
TaskCompletes(t) ==
    /\ task[t] = "running" /\ ~progress
    /\ disk' = "whole"
    /\ complete' = TRUE
    /\ task' = [task EXCEPT ![t] = "reporting"]
    /\ UNCHANGED <<kind, offline, status, active, wrapper, shard, progress, cmd, scan, dead, counters>>

TaskReports(t) ==
    /\ task[t] = "reporting"
    /\ task' = [task EXCEPT ![t] = "done"]
    /\ status' = "completed"
    /\ UNCHANGED <<diskVars, active, wrapper, shard, callbackVars, cmd, scan, dead, counters>>

TaskRaises(t) ==
    /\ task[t] = "running"
    /\ Trouble
    /\ task' = [task EXCEPT ![t] = "failed"]
    /\ UNCHANGED <<diskVars, status, active, wrapper, shard, callbackVars, cmd, scan, dead, commands>>

TaskCancelled(t) ==
    /\ task[t] = "cancelling"
    /\ task' = [task EXCEPT ![t] = "cancelled"]
    /\ UNCHANGED <<diskVars, status, active, wrapper, shard, callbackVars, cmd, scan, dead, counters>>

-----------------------------------------------------------------------------
(***************************************************************************)
(* _download_progress_callback, run by tasks that nobody cancels.  What it *)
(* reports is what was so when it was scheduled.                           *)
(***************************************************************************)
\* At most one report a second is passed on.
ProgressCallback ==
    /\ progress
    /\ progress' = FALSE
    /\ status' \in {status, "ongoing"}
    /\ UNCHANGED <<diskVars, taskVars, complete, cmd, scan, dead, counters>>

CompleteCallback ==
    /\ complete
    /\ complete' = FALSE
    /\ status' = "completed"
    /\ UNCHANGED <<diskVars, taskVars, progress, cmd, scan, dead, counters>>

-----------------------------------------------------------------------------
(***************************************************************************)
(* _emit_existing_download_progress                                        *)
(***************************************************************************)
ScanStep(from, to) == scan.at = from /\ scan' = [scan EXCEPT !.at = to]
ScanOnly == UNCHANGED <<diskVars, taskVars, callbackVars, cmd, dead, commands>>

\* A pass begins with what the downloader sees of the files.
ScanReads ==
    /\ scan.at = "sleep"
    /\ scan' = [scan EXCEPT !.at = "read", !.whole = Whole]
    /\ UNCHANGED <<status, troubles>> /\ ScanOnly

\* Looking at complete files reports them through the callback as well.
ScanChecks ==
    /\ ScanStep("read", IF active = None THEN "resolve" ELSE "readonly")
    /\ status' = IF scan.whole THEN "completed" ELSE status
    /\ UNCHANGED troubles /\ ScanOnly

ScanRaises ==
    /\ ScanStep("read", "readonly")
    /\ Trouble
    /\ UNCHANGED status /\ ScanOnly

ScanResolves ==
    /\ scan.at = "resolve"
    /\ scan' = [scan EXCEPT !.at = "write", !.found = Found]
    /\ UNCHANGED <<status, troubles>> /\ ScanOnly

\* Mutant: the scan leaves a download alone that it believes to be under way.
ScanWritesUnlessOngoing ==
    /\ ScanStep("write", "readonly")
    /\ status' = IF status = "ongoing" THEN status
                 ELSE IF scan.found \/ scan.whole THEN "completed" ELSE "pending"
    /\ UNCHANGED troubles /\ ScanOnly

\* Nothing was downloaded by a look at the files, so what is not complete is pending.
ScanWrites ==
    /\ ScanStep("write", "readonly")
    /\ status' = IF scan.found \/ scan.whole THEN "completed" ELSE "pending"
    /\ UNCHANGED troubles /\ ScanOnly

\* The read-only directories come last.
ScanReadOnly ==
    /\ scan.at = "readonly"
    /\ scan' = IF active = None /\ status \notin Busy /\ Found /\ kind = "readonly"
               THEN [Asleep EXCEPT !.at = "copy"] ELSE Asleep
    /\ UNCHANGED <<status, troubles>> /\ ScanOnly

ScanReadOnlyWrites ==
    /\ scan.at = "copy"
    /\ scan' = Asleep
    /\ status' = "completed"
    /\ UNCHANGED troubles /\ ScanOnly

Scan ==
    \/ ScanReads \/ ScanChecks \/ ScanRaises \/ ScanResolves \/ ScanWrites
    \/ ScanReadOnly \/ ScanReadOnlyWrites

-----------------------------------------------------------------------------
Step(w) == WrapperBegins(w) \/ DeliverCancel(w) \/ WrapperEnds(w) \/ WrapperFailed(w)
Work(t) == TaskCompletes(t) \/ TaskReports(t) \/ TaskCancelled(t)

Next ==
    /\ ~dead
    /\ \/ CommandProcessor
       \/ Scan
       \/ \E w \in Wrappers : Step(w)
       \/ \E t \in Tasks : Work(t) \/ TaskProgress(t) \/ TaskRaises(t)
       \/ ProgressCallback \/ CompleteCallback

Spec == Init /\ [][Next]_vars

(***************************************************************************)
(* The event loop runs what is ready, threads return and servers answer or *)
(* fail: every task goes on.  Files are finite, so chunks do not put off   *)
(* the end of a shard task for ever.  Nobody has to send commands or fail. *)
(***************************************************************************)
Serve == StartResolved \/ StartDecided \/ DeleteModel \/ DeleteReported
ScanGoesOn ==
    ScanReads \/ ScanChecks \/ ScanResolves \/ ScanWrites \/ ScanReadOnly \/ ScanReadOnlyWrites

Fairness ==
    /\ WF_vars(~dead /\ Serve)
    /\ WF_vars(~dead /\ ScanGoesOn)
    /\ \A w \in Wrappers : WF_vars(~dead /\ Step(w))
    /\ \A t \in Tasks : SF_vars(~dead /\ Work(t))
    /\ WF_vars(~dead /\ ProgressCallback)
    /\ WF_vars(~dead /\ CompleteCallback)

FairSpec == Spec /\ Fairness

-----------------------------------------------------------------------------
(***************************************************************************)
(* Properties                                                              *)
(***************************************************************************)
Alive == {w \in Wrappers : wrapper[w].at # "off"}
Downloading == {t \in Tasks : task[t] \in {"running", "reporting", "cancelling"}}

\* What the variables hold; a wrapper that waits has a task to wait for.
TypeOK ==
    /\ kind \in {"readonly", "indexed", "plain"} /\ disk \in {"absent", "part", "whole"}
    /\ {offline, progress, complete, dead} \subseteq BOOLEAN
    /\ status \in Busy \union {None, "pending"}
    /\ {active, shard} \subseteq Wrappers \union {None}
    /\ wrapper \in [Wrappers -> [at : {"off", "new", "wait", "failing"}, cancelled : BOOLEAN,
                                 task : Tasks \union {None}]]
    /\ task \in [Tasks -> Over \union {None, "running", "reporting", "cancelling"}]
    /\ \A w \in Wrappers : wrapper[w].at = "wait" => task[wrapper[w].task] # None
    /\ cmd \in {"idle", "resolve", "status", "delete", "deleted"}
    /\ scan \in [at : {"sleep", "read", "resolve", "write", "readonly", "copy"},
                 whole : BOOLEAN, found : BOOLEAN]
    /\ commands \in 0 .. MaxCommands /\ troubles \in 0 .. MaxTroubles

\* Files are written by one shard task at a time, however downloads are started, cancelled,
\* demoted by the scan and started again.
OneShardTask == Cardinality(Downloading) <= 1

Settled == dead \/ (Alive = {} /\ status = (IF Found \/ Whole THEN "completed" ELSE "pending"))

\* Once no command arrives, the status that clients see settles at what is on the disk and
\* no download is left over.  A status that a late callback, a lost cancellation or an
\* overlapping start has left wrong is put right by the scan.
StatusSettles == <>[]Settled
=============================================================================
