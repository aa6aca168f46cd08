--------------------------- MODULE DownloadProofs ---------------------------
(***************************************************************************)
(* Proof that the files of a model are written by one shard task at a      *)
(* time, for any number of wrappers, commands and failures.                *)
(*                                                                         *)
(* The singleton downloader forgets its task only when it is over, and     *)
(* makes one only when it has forgotten the last one, so a task at work is *)
(* the task it knows (Known).  That it knows a task says nothing about     *)
(* what the task is doing, and a wrapper joins it whatever it is doing: it *)
(* still is a task, because the last wrapper to leave a task finds it over *)
(* and forgets it (Waited).                                                *)
(***************************************************************************)
EXTENDS Download, FiniteSetTheorems, TLAPS

AtWork == {"running", "reporting", "cancelling"}

WrapperState ==
    [at : {"off", "new", "wait", "failing"}, cancelled : BOOLEAN, task : Tasks \cup {None}]

Typed ==
    /\ wrapper \in [Wrappers -> WrapperState]
    /\ task \in [Tasks -> Over \cup AtWork \cup {None}]
    /\ shard \in Tasks \cup {None}
    /\ active \in Wrappers \cup {None}

Known == \A t \in Tasks : task[t] \in AtWork => shard = t

Waited ==
    /\ shard # None => task[shard] # None
    /\ \A w \in Wrappers : wrapper[w].at = "wait" =>
            wrapper[w].task \in Tasks /\ task[wrapper[w].task] # None

IInv == Typed /\ Known /\ Waited

LEMMA InitIInv == Init => IInv
  BY NoneIsNoWrapper DEF Init, IInv, Typed, Known, Waited, Idle, None, AtWork, Over, Tasks, WrapperState

\* The steps that leave the tasks and the wrappers' tasks alone.
LEMMA Untouched ==
  ASSUME IInv, UNCHANGED <<task, shard>>, wrapper' \in [Wrappers -> WrapperState],
         active' \in Wrappers \cup {None},
         \A w \in Wrappers : wrapper'[w].at = "wait" =>
            wrapper[w].at = "wait" /\ wrapper'[w].task = wrapper[w].task
  PROVE  IInv'
<1>1. Typed'
  BY DEF IInv, Typed
<1>2. Known'
  BY DEF IInv, Known
<1>3. Waited'
  BY DEF IInv, Waited
<1> QED
  BY <1>1, <1>2, <1>3 DEF IInv

LEMMA CommandKeeps ==
  ASSUME IInv, CommandProcessor
  PROVE  IInv'
<1>1. Typed
  BY DEF IInv
<1>2. CASE UNCHANGED taskVars
  BY <1>1, <1>2, Untouched DEF taskVars, Typed
<1>3. ASSUME NEW w \in Wrappers, Cancel(w), UNCHANGED <<active, task, shard>>
      PROVE  IInv'
  <2>1. wrapper' \in [Wrappers -> WrapperState]
    BY <1>1, <1>3, Zenon DEF Cancel, Typed, WrapperState
  <2>2. \A v \in Wrappers : wrapper'[v].at = wrapper[v].at /\ wrapper'[v].task = wrapper[v].task
    BY <1>1, <1>3 DEF Cancel, Typed, WrapperState
  <2> QED
    BY <1>1, <1>3, <2>1, <2>2, Untouched DEF Typed
<1>4. ASSUME NEW w \in Wrappers, NewWrapper(w), UNCHANGED <<task, shard>>
      PROVE  IInv'
  <2>1. wrapper' \in [Wrappers -> WrapperState]
    BY <1>1, <1>4 DEF NewWrapper, Typed, WrapperState
  <2>2. \A v \in Wrappers : wrapper'[v].at = "wait" => wrapper'[v] = wrapper[v]
    BY <1>1, <1>4 DEF NewWrapper, Typed
  <2>3. active' \in Wrappers
    BY <1>4 DEF NewWrapper
  <2> QED
    BY <1>1, <1>4, <2>1, <2>2, <2>3, Untouched
<1>5. CASE StartDownload \/ StartResolved \/ HandlerRaises \/ DeleteModel \/ DeleteReported
  BY <1>2, <1>5 DEF StartDownload, StartResolved, HandlerRaises, DeleteModel, DeleteReported
<1>6. CASE StartDecided
  BY <1>2, <1>4, <1>6 DEF StartDecided
<1>7. CASE CancelDownload \/ DeleteDownload
  <2>1. UNCHANGED <<active, task, shard>>
    BY <1>7 DEF CancelDownload, DeleteDownload
  <2>2. UNCHANGED wrapper \/ (active # None /\ Cancel(active))
    BY <1>7 DEF CancelDownload, DeleteDownload
  <2>3. active # None => active \in Wrappers
    BY <1>1 DEF Typed
  <2> QED
    BY <1>2, <1>3, <2>1, <2>2, <2>3 DEF taskVars
<1> QED
  BY <1>5, <1>6, <1>7 DEF CommandProcessor

\* A wrapper makes a task when there is none, or joins the one there is.
LEMMA WrapperBeginsKeeps ==
  ASSUME IInv, NEW w \in Wrappers, WrapperBegins(w)
  PROVE  IInv'
<1>1. Typed /\ Known /\ Waited
  BY DEF IInv
<1>2. PICK t \in Tasks : EnsureShard(w, t)
  BY DEF WrapperBegins
<1>3. /\ wrapper' = [wrapper EXCEPT ![w].at = "wait", ![w].task = t]
      /\ \/ shard = None /\ task[t] = None /\ task' = [task EXCEPT ![t] = "running"] /\ shard' = t
         \/ shard = t /\ UNCHANGED <<task, shard>>
      /\ active' = active
  BY <1>2, Zenon DEF EnsureShard, WrapperBegins
<1>4. /\ wrapper' \in [Wrappers -> WrapperState]
      /\ wrapper'[w].task = t /\ \A v \in Wrappers : v = w \/ wrapper'[v] = wrapper[v]
  BY <1>1, <1>3, ZenonT(30) DEF Typed, WrapperState
<1>5. t # None /\ t \in Tasks /\ None \notin Tasks
  BY NoneIsNoWrapper DEF Tasks
<1>6. /\ task' \in [Tasks -> Over \cup AtWork \cup {None}] /\ shard' = t /\ task'[t] # None
      /\ \A u \in Tasks : u = t \/ task'[u] = task[u]
  BY <1>1, <1>3, <1>5 DEF Typed, AtWork, None, Waited
<1>7. Typed'
  BY <1>1, <1>3, <1>4, <1>6 DEF Typed
<1>8. Known'
  <2>1. \A u \in Tasks : u # t => ~(task[u] \in AtWork)
    <3>1. shard \in {None, t}
      BY <1>3
    <3> QED
      BY <1>1, <1>5, <3>1 DEF Known
  <2> QED
    BY <1>6, <2>1 DEF Known
<1>9. Waited'
  BY <1>1, <1>4, <1>5, <1>6 DEF Waited
<1> QED
  BY <1>7, <1>8, <1>9 DEF IInv

\* A task goes from one state to another of the states that are not "none"; it is at work
\* afterwards only if it was before.
LEMMA TaskMoves ==
  ASSUME IInv, NEW t \in Tasks, NEW s \in Over \cup AtWork, task[t] \in AtWork,
         task' = [task EXCEPT ![t] = s], UNCHANGED <<active, wrapper, shard>>
  PROVE  IInv'
<1>1. Typed /\ Known /\ Waited
  BY DEF IInv
<1>2. /\ task' \in [Tasks -> Over \cup AtWork \cup {None}] /\ task'[t] = s
      /\ \A u \in Tasks : u = t \/ task'[u] = task[u]
  BY <1>1 DEF Typed
<1>3. s # None
  BY DEF Over, AtWork, None
<1>4. Typed'
  BY <1>1, <1>2 DEF Typed
<1>5. Known'
  BY <1>1, <1>2 DEF Known
<1>6. Waited'
  BY <1>1, <1>2, <1>3 DEF Waited, Typed
<1> QED
  BY <1>4, <1>5, <1>6 DEF IInv

\* A wrapper that has waited finds its task over.  If it is the task the downloader knows, it is
\* forgotten, and if nobody else waits for it, it is gone.
LEMMA WrapperEndsKeeps ==
  ASSUME IInv, NEW w \in Wrappers, WrapperEnds(w)
  PROVE  IInv'
<1> DEFINE t == wrapper[w].task
<1>1. Typed /\ Known /\ Waited
  BY DEF IInv
<1>2. wrapper[w].at = "wait" /\ task[t] \in Over /\ ForgetShard
  BY DEF WrapperEnds
<1>3. t \in Tasks
  BY <1>1, <1>2 DEF Waited
<1>4. PICK x \in {Idle, Failing} : Leave(w, x)
  BY DEF WrapperEnds
<1>5. x \in WrapperState /\ x.at # "wait"
  <2>1. Idle \in WrapperState /\ Idle.at # "wait"
    BY DEF Idle, WrapperState
  <2>2. Failing \in WrapperState /\ Failing.at # "wait"
    BY DEF Failing, WrapperState
  <2> QED
    BY <2>1, <2>2
<1>6. /\ wrapper' \in [Wrappers -> WrapperState] /\ wrapper'[w] = x
      /\ \A v \in Wrappers : v = w \/ wrapper'[v] = wrapper[v]
  BY <1>1, <1>4, <1>5 DEF Leave, Typed
<1>7. /\ task' \in [Tasks -> Over \cup AtWork \cup {None}]
      /\ \A u \in Tasks : u = t \/ task'[u] = task[u]
      /\ task'[t] \in {task[t], None}
      /\ (\E v \in Wrappers \ {w} : wrapper[v].task = t) => task'[t] = task[t]
  BY <1>1, <1>3, <1>4 DEF Leave, Typed
<1>8. shard' = IF shard # None /\ task[shard] \in Over THEN None ELSE shard
  BY <1>2 DEF ForgetShard
<1>9. \A s \in Over : s \notin AtWork /\ s # None
  BY DEF Over, AtWork, None
<1>10. None \notin AtWork
  BY DEF AtWork, None
<1> HIDE DEF t
<1>11. Typed'
  <2>1. active' \in {active, None}
    BY DEF WrapperEnds
  <2>2. shard' \in Tasks \cup {None}
    BY <1>1, <1>8 DEF Typed
  <2> QED
    BY <1>1, <1>6, <1>7, <2>1, <2>2 DEF Typed
<1>12. Known'
  <2> SUFFICES ASSUME NEW u \in Tasks, task'[u] \in AtWork PROVE shard' = u
    BY DEF Known
  <2>1. task[u] = task'[u]
    BY <1>2, <1>7, <1>9, <1>10
  <2>2. shard = u /\ task[u] \notin Over
    BY <1>1, <1>9, <2>1 DEF Known
  <2> QED
    BY <1>8, <2>2
<1>13. Waited'
  <2>1. ASSUME shard' # None PROVE task'[shard'] # None
    <3>1. shard' = shard /\ shard # None /\ task[shard] \notin Over /\ shard \in Tasks
      BY <1>1, <1>8, <2>1 DEF Typed
    <3>2. shard # t
      BY <1>2, <3>1
    <3> QED
      BY <1>1, <1>7, <3>1, <3>2 DEF Waited
  <2>2. ASSUME NEW v \in Wrappers, wrapper'[v].at = "wait"
        PROVE  wrapper'[v].task \in Tasks /\ task'[wrapper'[v].task] # None
    <3>1. v # w /\ wrapper'[v] = wrapper[v]
      BY <1>5, <1>6, <2>2
    <3>2. wrapper[v].task \in Tasks /\ task[wrapper[v].task] # None
      BY <1>1, <2>2, <3>1 DEF Waited
    <3>3. task'[wrapper[v].task] = task[wrapper[v].task]
      BY <1>7, <3>1, <3>2
    <3> QED
      BY <3>1, <3>2, <3>3
  <2> QED
    BY <2>1, <2>2 DEF Waited
<1> QED
  BY <1>11, <1>12, <1>13 DEF IInv

LEMMA NextIInv == IInv /\ [Next]_vars => IInv'
<1> SUFFICES ASSUME IInv, [Next]_vars PROVE IInv'
  OBVIOUS
<1>1. Typed /\ Waited
  BY DEF IInv
<1>2. CASE UNCHANGED taskVars
  BY <1>1, <1>2, Untouched DEF taskVars, Typed
<1>3. CASE UNCHANGED vars
  BY <1>2, <1>3 DEF vars
<1>4. CASE Scan
  BY <1>2, <1>4 DEF Scan, ScanReads, ScanChecks, ScanRaises, ScanResolves, ScanWrites,
         ScanReadOnly, ScanReadOnlyWrites, ScanOnly
<1>5. CASE ProgressCallback \/ CompleteCallback
  BY <1>2, <1>5 DEF ProgressCallback, CompleteCallback
<1>6. ASSUME NEW w \in Wrappers, DeliverCancel(w) PROVE IInv'
  <2>1. /\ wrapper[w].task \in Tasks /\ task[wrapper[w].task] \in AtWork
        /\ task' = [task EXCEPT ![wrapper[w].task] = "cancelling"]
        /\ UNCHANGED <<active, wrapper, shard>>
    BY <1>1, <1>6 DEF DeliverCancel, Waited, AtWork
  <2>2. "cancelling" \in Over \cup AtWork
    BY DEF AtWork
  <2> QED
    BY <2>1, <2>2, TaskMoves, Zenon
<1>7. ASSUME NEW w \in Wrappers, WrapperFailed(w) PROVE IInv'
  <2>1. wrapper' = [wrapper EXCEPT ![w] = Idle] /\ active' = None /\ UNCHANGED <<task, shard>>
    BY <1>7 DEF WrapperFailed
  <2>2. wrapper' \in [Wrappers -> WrapperState]
    BY <1>1, <2>1 DEF Typed, WrapperState, Idle, None
  <2>3. \A v \in Wrappers : wrapper'[v].at = "wait" => wrapper'[v] = wrapper[v]
    BY <1>1, <2>1 DEF Typed, Idle
  <2> QED
    BY <2>1, <2>2, <2>3, Untouched
<1>8. ASSUME NEW t \in Tasks, Work(t) \/ TaskRaises(t) PROVE IInv'
  <2>1. PICK s \in {"reporting", "done", "cancelled", "failed"} :
            task[t] \in AtWork /\ task' = [task EXCEPT ![t] = s]
    BY <1>8 DEF Work, TaskRaises, TaskCompletes, TaskReports, TaskCancelled, AtWork
  <2>2. UNCHANGED <<active, wrapper, shard>>
    BY <1>8 DEF Work, TaskRaises, TaskCompletes, TaskReports, TaskCancelled
  <2>3. s \in Over \cup AtWork
    BY DEF Over, AtWork
  <2> QED
    BY <2>1, <2>2, <2>3, TaskMoves, Zenon
<1>9. ASSUME NEW t \in Tasks, TaskProgress(t) PROVE IInv'
  BY <1>2, <1>9 DEF TaskProgress
<1> QED
  BY <1>3, <1>4, <1>5, <1>6, <1>7, <1>8, <1>9, CommandKeeps, WrapperBeginsKeeps, WrapperEndsKeeps
     DEF Next, Step

(***************************************************************************)
(* Files are written by one shard task at a time, however downloads are    *)
(* started, cancelled, demoted by the scan and started again               *)
(* (SingletonShardDownloader.ensure_shard).                                *)
(***************************************************************************)
THEOREM FilesHaveOneWriter == Spec => []OneShardTask
<1>1. IInv => OneShardTask
  <2> SUFFICES ASSUME IInv PROVE Cardinality(Downloading) <= 1
    BY DEF OneShardTask
  <2>1. Downloading \subseteq {shard}
    BY DEF IInv, Known, Downloading, AtWork
  <2>2. IsFiniteSet({shard}) /\ Cardinality({shard}) = 1
    BY FS_Singleton, Zenon
  <2>3. Cardinality(Downloading) <= Cardinality({shard})
    BY <2>1, <2>2, FS_Subset
  <2> QED
    BY <2>2, <2>3
<1> QED
  BY <1>1, InitIInv, NextIInv, PTL DEF Spec
=============================================================================
