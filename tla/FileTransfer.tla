---------------------------- MODULE FileTransfer ----------------------------
(***************************************************************************)
(* The files of a model on their way to the disk: download_shard,          *)
(* download_file_with_retry and _download_file (download/download_utils.py)*)
(* A shard task fetches the files of its list side by side and waits for   *)
(* all of them with asyncio.gather: a cancelled gather waits until every   *)
(* fetch has stopped, but one that raises leaves the other fetches to      *)
(* themselves.  The SingletonShardDownloader starts a shard task only when *)
(* the one before has ended (OneShardTask of module Download).             *)
(*                                                                         *)
(* The contents of a file are the numbers of its chunks.  A fetch keeps    *)
(* the file it has opened, also when that file is renamed or unlinked.     *)
(***************************************************************************)
EXTENDS Integers, Sequences

CONSTANTS
    Files,        \* the files of the model
    Length,       \* chunks of a file
    Attempts,     \* n_attempts of download_file_with_retry
    Strays,       \* whether a shard task may start while fetches of a failed one go on
    MaxTasks,     \* bound: shard tasks
    MaxTroubles   \* bound: lost connections, bad chunks and deletions

VARIABLES
    part,      \* part[f]: contents of the .partial file of f, or Absent
    final,     \* final[f]: contents of f, or Absent
    shard,     \* what the last shard task is doing
    fetch,     \* fetch[t][f]: what _download_file of shard task t is doing for file f
    tasks,     \* number of shard tasks so far
    troubles   \* number of failures so far

vars == <<part, final, shard, fetch, tasks, troubles>>

Absent == <<-1>>
Bad == 0                                   \* a chunk that is not what the remote has
Remote == [i \in 1 .. Length |-> i]
Size(c) == IF c = Absent THEN 0 ELSE Len(c)
Write(c, at, chunk) ==                     \* write one chunk at an offset; a gap reads as Bad
    [i \in 1 .. (IF Len(c) > at THEN Len(c) ELSE at + 1) |->
        IF i = at + 1 THEN chunk ELSE IF i <= Len(c) THEN c[i] ELSE Bad]

\* at: the next step; attempt; size: what stat said; off: n_read; append: mode "ab";
\* fd: the file the fetch has open.
NoFetch == [at |-> "off", attempt |-> 0, size |-> 0, off |-> 0, append |-> FALSE, fd |-> "closed"]
NewFetch == [NoFetch EXCEPT !.at = "check"]

\* What an earlier process may have left: of this version of the file, or of another one.
Leftovers == {Absent, <<1>>} \union {[i \in 1 .. n |-> Bad] : n \in {1, Length, Length + 1}}

Init ==
    /\ part \in [Files -> Leftovers]
    /\ final \in [Files -> {Absent, <<Bad>>}]
    /\ shard = "off"
    /\ fetch = [t \in 1 .. MaxTasks |-> [f \in Files |-> NoFetch]]
    /\ tasks = 0 /\ troubles = 0

Trouble == troubles < MaxTroubles /\ troubles' = troubles + 1
Set(t, f, r) == fetch' = [fetch EXCEPT ![t][f] = r]
At(t, f, a) == fetch[t][f].at = a

\* Every fetch that has file `old` of f open has file `new` of f open instead.
Moved(g, f, old, new) ==
    [t \in DOMAIN g |-> [g[t] EXCEPT ![f].fd = IF @ = old THEN new ELSE @]]

-----------------------------------------------------------------------------
(***************************************************************************)
(* The shard task                                                          *)
(***************************************************************************)
Alive(t, f) == fetch[t][f].at \notin {"off", "done", "raised"}

DownloadShard ==
    /\ shard # "running" /\ tasks < MaxTasks
    /\ Strays \/ \A t \in 1 .. MaxTasks, f \in Files : ~Alive(t, f)
    /\ tasks' = tasks + 1
    /\ shard' = "running"
    /\ fetch' = [fetch EXCEPT ![tasks + 1] = [f \in Files |-> NewFetch]]
    /\ UNCHANGED <<part, final, troubles>>

Current(t) == t = tasks /\ shard = "running"

ShardEnds ==
    /\ shard = "running"
    /\ \A f \in Files : At(tasks, f, "done")
    /\ shard' = "done"
    /\ UNCHANGED <<part, final, fetch, tasks, troubles>>

\* The cancelled gather stops all its fetches before the task ends.
CancelShard ==
    /\ shard = "running"
    /\ shard' = "cancelled"
    /\ fetch' = [fetch EXCEPT ![tasks] = [f \in Files |-> NoFetch]]
    /\ UNCHANGED <<part, final, tasks, troubles>>

\* DeleteDownload does not wait for the download it has cancelled.
DeleteModel ==
    /\ Trouble
    /\ part' = [f \in Files |-> Absent] /\ final' = [f \in Files |-> Absent]
    /\ fetch' = [t \in DOMAIN fetch |-> [f \in Files |->
                    [fetch[t][f] EXCEPT !.fd = IF @ = "closed" THEN @ ELSE "gone"]]]
    /\ UNCHANGED <<shard, tasks>>

-----------------------------------------------------------------------------
(***************************************************************************)
(* One fetch: download_file_with_retry around _download_file.              *)
(***************************************************************************)
\* An exception: another attempt, or the end of the fetch and of the gather that waits for it.
\* FileNotFoundError is not retried.
Raise(t, f, g, retry) ==
    LET again == retry /\ g[t][f].attempt + 1 < Attempts IN
    /\ fetch' = [g EXCEPT ![t][f] = IF again THEN [NewFetch EXCEPT !.attempt = g[t][f].attempt + 1]
                                    ELSE [NoFetch EXCEPT !.at = "raised"]]
    /\ shard' = IF ~again /\ Current(t) THEN "failed" ELSE shard

\* The size of a file that is there is compared with the remote one.
Check(t, f) ==
    /\ At(t, f, "check")
    /\ Set(t, f, [fetch[t][f] EXCEPT !.at = IF final[f] = Absent THEN "stat" ELSE "compare",
                                     !.size = Size(final[f])])
    /\ UNCHANGED <<part, final, shard, tasks, troubles>>

\* Equal, or the remote cannot be asked: the file is taken as it is.
Keep(t, f) ==
    /\ At(t, f, "compare")
    /\ \/ fetch[t][f].size = Length /\ UNCHANGED troubles
       \/ Trouble
    /\ Set(t, f, [NoFetch EXCEPT !.at = "done"])
    /\ UNCHANGED <<part, final, shard, tasks>>

Discard(t, f) ==
    /\ At(t, f, "compare") /\ fetch[t][f].size # Length
    /\ final' = [final EXCEPT ![f] = Absent]
    /\ fetch' = [Moved(fetch, f, "final", "gone") EXCEPT ![t][f].at = "stat"]
    /\ UNCHANGED <<part, shard, tasks, troubles>>

Stat(t, f) ==
    /\ At(t, f, "stat")
    /\ Set(t, f, [fetch[t][f] EXCEPT !.at = IF Size(part[f]) = Length THEN "hash" ELSE "open",
                                     !.size = Size(part[f])])
    /\ UNCHANGED <<part, final, shard, tasks, troubles>>

\* "ab" if there is something to resume, else "wb", which empties the file.
Open(t, f) ==
    LET r == fetch[t][f] IN
    /\ At(t, f, "open") /\ r.size <= Length
    /\ part' = [part EXCEPT ![f] = IF r.size > 0 /\ @ # Absent THEN @ ELSE <<>>]
    /\ Set(t, f, [r EXCEPT !.at = "write", !.off = r.size, !.append = r.size > 0, !.fd = "part"])
    /\ UNCHANGED <<final, shard, tasks, troubles>>

\* The remote refuses a range that begins after the end.
RangeRefused(t, f) ==
    /\ At(t, f, "open") /\ fetch[t][f].size > Length
    /\ Raise(t, f, fetch, TRUE)
    /\ UNCHANGED <<part, final, tasks, troubles>>

Written(c, r, chunk) == Write(c, IF r.append THEN Len(c) ELSE r.off, chunk)

\* One chunk.  It may be a bad one.
WriteChunk(t, f) ==
    LET r == fetch[t][f] IN
    /\ At(t, f, "write") /\ r.off < Length
    /\ \E chunk \in {r.off + 1, Bad} :
        /\ IF chunk = Bad THEN Trouble ELSE UNCHANGED troubles
        /\ part' = IF r.fd = "part" THEN [part EXCEPT ![f] = Written(@, r, chunk)] ELSE part
        /\ final' = IF r.fd = "final" THEN [final EXCEPT ![f] = Written(@, r, chunk)] ELSE final
    /\ Set(t, f, [r EXCEPT !.off = @ + 1])
    /\ UNCHANGED <<shard, tasks>>

WriteEnds(t, f) ==
    /\ At(t, f, "write") /\ fetch[t][f].off = Length
    /\ Set(t, f, [fetch[t][f] EXCEPT !.at = "hash", !.fd = "closed"])
    /\ UNCHANGED <<part, final, shard, tasks, troubles>>

ConnectionLost(t, f) ==
    /\ fetch[t][f].at \in {"stat", "open", "write"}
    /\ Trouble
    /\ Raise(t, f, [fetch EXCEPT ![t][f].fd = "closed"], TRUE)
    /\ UNCHANGED <<part, final, tasks>>

\* Mutant: the length stands for the contents.
IntegrityByLength(c) == Len(c) = Length

Integrity(c) == c = Remote

\* calc_hash reads the partial file; what it says is used a step later.
Hash(t, f) ==
    /\ At(t, f, "hash")
    /\ IF part[f] = Absent
       THEN Raise(t, f, fetch, FALSE)
       ELSE /\ Set(t, f, [fetch[t][f] EXCEPT !.at = IF Integrity(part[f]) THEN "rename" ELSE "remove"])
            /\ UNCHANGED shard
    /\ UNCHANGED <<part, final, tasks, troubles>>

\* Mutant: a partial file that failed the integrity test is left where it is.
RemovePartialForgotten(t, f) ==
    /\ At(t, f, "remove")
    /\ Raise(t, f, fetch, TRUE)
    /\ UNCHANGED <<part, final, tasks, troubles>>

RemovePartial(t, f) ==
    /\ At(t, f, "remove")
    /\ part' = [part EXCEPT ![f] = Absent]
    /\ Raise(t, f, Moved(fetch, f, "part", "gone"), TRUE)
    /\ UNCHANGED <<final, tasks, troubles>>

Rename(t, f) ==
    /\ At(t, f, "rename")
    /\ IF part[f] = Absent
       THEN Raise(t, f, fetch, FALSE) /\ UNCHANGED <<part, final>>
       ELSE /\ final' = [final EXCEPT ![f] = part[f]]
            /\ part' = [part EXCEPT ![f] = Absent]
            /\ fetch' = [Moved(Moved(fetch, f, "final", "gone"), f, "part", "final")
                           EXCEPT ![t][f] = [NoFetch EXCEPT !.at = "done"]]
            /\ UNCHANGED shard
    /\ UNCHANGED <<tasks, troubles>>

Fetch(t, f) ==
    \/ Check(t, f) \/ Keep(t, f) \/ Discard(t, f) \/ Stat(t, f) \/ Open(t, f)
    \/ RangeRefused(t, f) \/ WriteChunk(t, f) \/ WriteEnds(t, f) \/ ConnectionLost(t, f)
    \/ Hash(t, f) \/ RemovePartial(t, f) \/ Rename(t, f)

-----------------------------------------------------------------------------
Next ==
    \/ DownloadShard \/ ShardEnds \/ CancelShard \/ DeleteModel
    \/ \E t \in 1 .. MaxTasks, f \in Files : Fetch(t, f)

Spec == Init /\ [][Next]_vars

-----------------------------------------------------------------------------
(***************************************************************************)
(* Properties                                                              *)
(***************************************************************************)
\* What the variables hold; a fetch that writes is within the file and has it open, unless a
\* deletion took it away (without strays).
TypeOK ==
    /\ \A f \in Files : {part[f], final[f]} \subseteq {Absent} \union UNION {[1 .. n -> 0 .. Length] : n \in 0 .. Length + 1}
    /\ shard \in {"off", "running", "done", "cancelled", "failed"}
    /\ \A t \in 1 .. MaxTasks, f \in Files :
        /\ fetch[t][f].at \in {"off", "check", "compare", "stat", "open", "write", "hash", "remove",
                              "rename", "done", "raised"}
        /\ fetch[t][f].attempt \in 0 .. Attempts - 1 /\ fetch[t][f].off \in 0 .. Length
        /\ fetch[t][f].at = "write" => fetch[t][f].fd \in {"part", "gone"}
    /\ tasks \in 0 .. MaxTasks /\ troubles \in 0 .. MaxTroubles

FinalWritten == \A f \in Files : final'[f] # final[f] => final'[f] \in {Absent, Remote}

\* A file gets its final name only with the contents of the remote file, and keeps them:
\* through lost connections, retries, resumed and leftover partial files, cancelled shard
\* tasks and deletions under way.  This is without strays: a fetch that the gather of a failed
\* shard task left behind may go on writing into a file that the next task has renamed.
FinalWrites == [][FinalWritten]_vars

\* Leftovers alone do not make a download fail: what is wrong with them is found out and
\* fetched again, also next to strays.  The exception is a partial file longer than the remote
\* one, whose range the remote refuses on every attempt and which nothing removes.
FailureHasCause ==
    shard = "failed" => troubles > 0 \/ \E f \in Files : Size(part[f]) > Length
=============================================================================
