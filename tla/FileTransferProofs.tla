------------------------- MODULE FileTransferProofs -------------------------
(***************************************************************************)
(* Proofs about the files of a model on their way to the disk, for any     *)
(* files, lengths, attempts, shard tasks and failures.                     *)
(*                                                                         *)
(* What gets the final name was tested in an earlier step, so that the     *)
(* contents have to stay what they were: that needs a single fetch of each *)
(* file, which a shard task has as long as no failed one before it left a  *)
(* fetch behind.  That a download does not fail by itself follows how good *)
(* the partial file is at each step of a second attempt, and until a       *)
(* partial file is found too long.                                         *)
(***************************************************************************)
EXTENDS FileTransfer, TLAPS

Contents == Seq(Int)
Waiting == {"off", "check", "compare", "stat", "open", "done", "raised"}
Places == Waiting \cup {"write", "hash", "remove", "rename"}
Fetches == [at : Places, attempt : Nat, size : Nat, off : Nat, append : BOOLEAN,
            fd : {"closed", "part", "final", "gone"}]

Types ==
    /\ part \in [Files -> Contents] /\ final \in [Files -> Contents]
    /\ shard \in {"off", "running", "done", "cancelled", "failed"}
    /\ fetch \in [1 .. MaxTasks -> [Files -> Fetches]]
    /\ tasks \in 0 .. MaxTasks /\ troubles \in Nat

-----------------------------------------------------------------------------
\* What a fetch r may be doing to a partial file c when nobody else does.
Tested(c, r) ==
    /\ r.at = "write" => r.fd \in {"part", "gone"}
    /\ r.at # "write" => r.fd = "closed"
    /\ r.at = "rename" => c \in {Absent, Remote}

Undisturbed ==
    /\ \A t \in 1 .. MaxTasks, f \in Files : Alive(t, f) => t = tasks
    /\ \A t \in 1 .. MaxTasks, f \in Files : Tested(part[f], fetch[t][f])

-----------------------------------------------------------------------------
\* A partial file that is too long stays, and nobody gets further than to open it.
Stuck(f) ==
    /\ Size(part[f]) > Length
    /\ \A t \in 1 .. MaxTasks :
        fetch[t][f].at \in Waiting /\ (fetch[t][f].at = "open" => fetch[t][f].size > Length)

\* The beginning of the remote file.
Clean(c) == c = Absent \/ (Len(c) <= Length /\ \A i \in 1 .. Len(c) : c[i] = i)

\* How a fetch r that has had no trouble gets on with the partial file c.  A second attempt
\* began without a partial file.
Smooth(c, r) ==
    /\ r.attempt \in {0, 1}
    /\ r.at \in {"check", "compare", "stat", "open", "write", "hash"} /\ r.attempt = 1 => Clean(c)
    /\ r.at = "open" => r.size = Size(c) /\ r.size <= Length
    /\ r.at = "write" => r.fd = "part" /\ c # Absent /\ Len(c) = r.off /\ r.off <= Length
    /\ r.at = "hash" => c # Absent /\ Len(c) = Length
    /\ r.at = "remove" => c # Absent /\ r.attempt = 0
    /\ r.at = "rename" => c # Absent
    /\ r.at # "raised"

AllSmooth ==
    /\ shard # "failed"
    /\ \A t \in 1 .. MaxTasks, f \in Files : Alive(t, f) => t = tasks /\ shard = "running"
    /\ \A t \in 1 .. MaxTasks, f \in Files : Smooth(part[f], fetch[t][f])

Caused == troubles > 0 \/ (\E f \in Files : Stuck(f)) \/ AllSmooth

-----------------------------------------------------------------------------
(***************************************************************************)
(* What a step of one fetch leaves alone: other files, and of the other    *)
(* fetches of its file everything but which file they have open.           *)
(***************************************************************************)
Sizes == Length \in Nat \ {0} /\ Attempts \in Nat /\ MaxTasks \in Nat
Table == [1 .. MaxTasks -> [Files -> Fetches]]

Kin(s, r) == s.at = r.at /\ s.attempt = r.attempt /\ s.size = r.size /\ (r.fd = "closed" => s = r)

Local(t, f) ==
    /\ tasks' = tasks
    /\ \A h \in Files \ {f} :
        /\ part'[h] = part[h] /\ final'[h] = final[h]
        /\ \A u \in 1 .. MaxTasks : fetch'[u][h] = fetch[u][h]
    /\ \A u \in (1 .. MaxTasks) \ {t} : Kin(fetch'[u][f], fetch[u][f])

Updated(g, t, f, r) == [g EXCEPT ![t][f] = r]

LEMMA UpdatedFacts ==
  ASSUME NEW g \in Table, NEW t \in 1 .. MaxTasks, NEW f \in Files, NEW r \in Fetches
  PROVE  /\ Updated(g, t, f, r) \in Table /\ Updated(g, t, f, r)[t][f] = r
         /\ \A u \in 1 .. MaxTasks, h \in Files : u # t \/ h # f => Updated(g, t, f, r)[u][h] = g[u][h]
<1> DEFINE x == Updated(g, t, f, r)
<1>1. x = [g EXCEPT ![t] = [g[t] EXCEPT ![f] = r]]
  BY DEF Updated
<1> HIDE DEF x
<1>2. g[t] \in [Files -> Fetches]
  BY DEF Table
<1>3. [g[t] EXCEPT ![f] = r] \in [Files -> Fetches]
  BY <1>2
<1>4. x \in Table
  BY <1>1, <1>3 DEF Table
<1>5. x[t] = [g[t] EXCEPT ![f] = r]
  BY <1>1 DEF Table
<1>6. \A u \in 1 .. MaxTasks : u # t => x[u] = g[u]
  BY <1>1 DEF Table
<1> QED
  BY <1>2, <1>4, <1>5, <1>6 DEF x

LEMMA MovedFacts ==
  ASSUME NEW g \in Table, NEW f \in Files, NEW old \in {"part", "final"}, NEW new \in {"final", "gone"}
  PROVE  /\ Moved(g, f, old, new) \in Table
         /\ \A u \in 1 .. MaxTasks, h \in Files : h # f => Moved(g, f, old, new)[u][h] = g[u][h]
         /\ \A u \in 1 .. MaxTasks : Kin(Moved(g, f, old, new)[u][f], g[u][f])
<1>1. Moved(g, f, old, new) \in Table
  <2>1. ASSUME NEW u \in 1 .. MaxTasks
        PROVE  [g[u] EXCEPT ![f].fd = IF @ = old THEN new ELSE @] \in [Files -> Fetches]
    <3>1. g[u] \in [Files -> Fetches] /\ g[u][f] \in Fetches
      BY DEF Table
    <3>2. [g[u][f] EXCEPT !.fd = IF @ = old THEN new ELSE @] \in Fetches
      BY <3>1 DEF Fetches
    <3> QED
      BY <3>1, <3>2
  <2>2. DOMAIN g = 1 .. MaxTasks
    BY DEF Table
  <2> QED
    BY <2>1, <2>2 DEF Moved, Table
<1>2. \A u \in 1 .. MaxTasks, h \in Files : h # f => Moved(g, f, old, new)[u][h] = g[u][h]
  BY DEF Moved, Table
<1>3. ASSUME NEW u \in 1 .. MaxTasks PROVE Kin(Moved(g, f, old, new)[u][f], g[u][f])
  <2>1. Moved(g, f, old, new)[u][f] = [g[u][f] EXCEPT !.fd = IF @ = old THEN new ELSE @]
    BY DEF Moved, Table
  <2>2. g[u][f] \in Fetches
    BY DEF Table
  <2> QED
    BY <2>1, <2>2 DEF Kin, Fetches
<1> QED
  BY <1>1, <1>2, <1>3

\* A record that is like a record that is like another one.
LEMMA KinKin ==
  ASSUME NEW q, NEW r, NEW s, Kin(q, r), Kin(r, s)
  PROVE  Kin(q, s)
  BY DEF Kin

LEMMA FetchConstants ==
  /\ NoFetch \in Fetches /\ NewFetch \in Fetches /\ [NoFetch EXCEPT !.at = "done"] \in Fetches
  /\ [NoFetch EXCEPT !.at = "raised"] \in Fetches
  /\ NoFetch.at = "off" /\ NewFetch.at = "check" /\ NewFetch.attempt = 0 /\ NoFetch.attempt = 0
  /\ NoFetch.fd = "closed" /\ NewFetch.fd = "closed"
  BY Zenon DEF NoFetch, NewFetch, Fetches, Places, Waiting

\* Fetches that differ from the present ones in what they have open of f.
Near(g, f) ==
    /\ g \in Table
    /\ \A u \in 1 .. MaxTasks, h \in Files : h # f => g[u][h] = fetch[u][h]
    /\ \A u \in 1 .. MaxTasks : Kin(g[u][f], fetch[u][f])

\* No other file than f is written.
Beside(f) ==
    /\ part' \in [Files -> Contents] /\ final' \in [Files -> Contents]
    /\ \A h \in Files \ {f} : part'[h] = part[h] /\ final'[h] = final[h]
    /\ shard' \in {"off", "running", "done", "cancelled", "failed"} /\ tasks' = tasks /\ troubles' \in Nat

LEMMA NearSelf == ASSUME Types, NEW f \in Files PROVE Near(fetch, f)
  BY DEF Near, Kin, Types, Table

LEMMA BesideSame ==
  ASSUME Types, NEW f \in Files, UNCHANGED <<part, final, tasks>>, troubles' \in Nat,
         shard' \in {shard, "failed"}
  PROVE  Beside(f)
  BY DEF Beside, Types

\* One step of a fetch, given where it puts its own record and what it does to the file.
LEMMA LocalStep ==
  ASSUME Types, NEW t \in 1 .. MaxTasks, NEW f \in Files, NEW g, NEW r \in Fetches,
         fetch' = Updated(g, t, f, r), Near(g, f), Beside(f)
  PROVE  Types' /\ Local(t, f) /\ fetch'[t][f] = r
<1>1. /\ fetch' \in Table /\ fetch'[t][f] = r
      /\ \A u \in 1 .. MaxTasks, h \in Files : u # t \/ h # f => fetch'[u][h] = g[u][h]
  BY UpdatedFacts DEF Near
<1>2. Types'
  BY <1>1 DEF Types, Table, Beside
<1>3. Local(t, f)
  BY <1>1 DEF Local, Near, Beside
<1> QED
  BY <1>1, <1>2, <1>3

-----------------------------------------------------------------------------
(***************************************************************************)
(* The steps of a fetch, one by one.                                       *)
(***************************************************************************)
LEMMA SizeNat == ASSUME NEW c \in Contents PROVE Size(c) \in Nat /\ Len(c) \in Nat
  BY DEF Size, Contents

LEMMA AbsentContents == Absent \in Contents /\ <<>> \in Contents
  BY DEF Absent, Contents

LEMMA WrittenContents ==
  ASSUME NEW c \in Contents, NEW r \in Fetches, NEW chunk \in Int
  PROVE  Written(c, r, chunk) \in Contents
<1> DEFINE at == IF r.append THEN Len(c) ELSE r.off
           n == IF Len(c) > at THEN Len(c) ELSE at + 1
<1>1. at \in Nat /\ n \in Nat /\ Len(c) \in Nat
  BY SizeNat DEF Fetches
<1>2. \A i \in 1 .. n : (IF i = at + 1 THEN chunk ELSE IF i <= Len(c) THEN c[i] ELSE Bad) \in Int
  BY <1>1 DEF Contents, Bad
<1>3. Written(c, r, chunk) = [i \in 1 .. n |-> IF i = at + 1 THEN chunk ELSE IF i <= Len(c) THEN c[i] ELSE Bad]
  BY DEF Written, Write
<1> HIDE DEF at, n
<1> QED
  BY <1>1, <1>2, <1>3 DEF Contents

LEMMA Fields ==
  ASSUME Types, NEW t \in 1 .. MaxTasks, NEW f \in Files
  PROVE  fetch \in Table /\ fetch[t][f] \in Fetches /\ part[f] \in Contents /\ final[f] \in Contents
  BY DEF Types, Table

LEMMA CheckDoes ==
  ASSUME Types, NEW t \in 1 .. MaxTasks, NEW f \in Files, Check(t, f)
  PROVE  /\ Types' /\ Local(t, f)
         /\ fetch'[t][f].at \in {"stat", "compare"} /\ fetch'[t][f].fd = fetch[t][f].fd
         /\ fetch'[t][f].attempt = fetch[t][f].attempt
<1> DEFINE r == [fetch[t][f] EXCEPT !.at = IF final[f] = Absent THEN "stat" ELSE "compare",
                                    !.size = Size(final[f])]
<1>1. /\ r \in Fetches /\ r.at \in {"stat", "compare"} /\ r.fd = fetch[t][f].fd
      /\ r.attempt = fetch[t][f].attempt
  BY Fields, SizeNat, Zenon DEF Fetches, Places, Waiting
<1>2. fetch' = Updated(fetch, t, f, r) /\ UNCHANGED <<part, final, shard, tasks, troubles>>
  BY DEF Check, Set, Updated
<1> HIDE DEF r
<1>3. Types' /\ Local(t, f) /\ fetch'[t][f] = r
  BY <1>1, <1>2, NearSelf, BesideSame, LocalStep DEF Types
<1> QED
  BY <1>1, <1>3

LEMMA KeepDoes ==
  ASSUME Types, NEW t \in 1 .. MaxTasks, NEW f \in Files, Keep(t, f)
  PROVE  Types' /\ Local(t, f) /\ fetch'[t][f].at = "done" /\ fetch'[t][f].fd = "closed" /\ fetch'[t][f].attempt = 0
<1> DEFINE r == [NoFetch EXCEPT !.at = "done"]
<1>1. r \in Fetches /\ r.at = "done" /\ r.fd = "closed" /\ r.attempt = 0
  BY FetchConstants DEF NoFetch
<1>2. fetch' = Updated(fetch, t, f, r) /\ UNCHANGED <<part, final, shard, tasks>> /\ troubles' \in Nat
  BY DEF Keep, Set, Updated, Trouble, Types
<1> HIDE DEF r
<1>3. Types' /\ Local(t, f) /\ fetch'[t][f] = r
  BY <1>1, <1>2, NearSelf, BesideSame, LocalStep DEF Types
<1> QED
  BY <1>1, <1>3

LEMMA StatDoes ==
  ASSUME Types, NEW t \in 1 .. MaxTasks, NEW f \in Files, Stat(t, f)
  PROVE  /\ Types' /\ Local(t, f)
         /\ fetch'[t][f].at = (IF Size(part[f]) = Length THEN "hash" ELSE "open")
         /\ fetch'[t][f].size = Size(part[f]) /\ fetch'[t][f].fd = fetch[t][f].fd
         /\ fetch'[t][f].attempt = fetch[t][f].attempt
<1> DEFINE r == [fetch[t][f] EXCEPT !.at = IF Size(part[f]) = Length THEN "hash" ELSE "open",
                                    !.size = Size(part[f])]
<1>1. /\ r \in Fetches /\ r.at = (IF Size(part[f]) = Length THEN "hash" ELSE "open")
      /\ r.size = Size(part[f]) /\ r.fd = fetch[t][f].fd /\ r.attempt = fetch[t][f].attempt
  BY Fields, SizeNat, ZenonT(30) DEF Fetches, Places, Waiting
<1>2. fetch' = Updated(fetch, t, f, r) /\ UNCHANGED <<part, final, shard, tasks, troubles>>
  BY DEF Stat, Set, Updated
<1> HIDE DEF r
<1>3. Types' /\ Local(t, f) /\ fetch'[t][f] = r
  BY <1>1, <1>2, NearSelf, BesideSame, LocalStep DEF Types
<1> QED
  BY <1>1, <1>3

LEMMA WriteEndsDoes ==
  ASSUME Types, NEW t \in 1 .. MaxTasks, NEW f \in Files, WriteEnds(t, f)
  PROVE  /\ Types' /\ Local(t, f)
         /\ fetch'[t][f].at = "hash" /\ fetch'[t][f].fd = "closed"
         /\ fetch'[t][f].attempt = fetch[t][f].attempt
<1> DEFINE r == [fetch[t][f] EXCEPT !.at = "hash", !.fd = "closed"]
<1>1. r \in Fetches /\ r.at = "hash" /\ r.fd = "closed" /\ r.attempt = fetch[t][f].attempt
  BY Fields, Zenon DEF Fetches, Places, Waiting
<1>2. fetch' = Updated(fetch, t, f, r) /\ UNCHANGED <<part, final, shard, tasks, troubles>>
  BY DEF WriteEnds, Set, Updated
<1> HIDE DEF r
<1>3. Types' /\ Local(t, f) /\ fetch'[t][f] = r
  BY <1>1, <1>2, NearSelf, BesideSame, LocalStep DEF Types
<1> QED
  BY <1>1, <1>3

LEMMA OpenDoes ==
  ASSUME Types, NEW t \in 1 .. MaxTasks, NEW f \in Files, Open(t, f)
  PROVE  /\ Types' /\ Local(t, f)
         /\ fetch'[t][f].at = "write" /\ fetch'[t][f].off = fetch[t][f].size
         /\ fetch'[t][f].fd = "part" /\ fetch'[t][f].attempt = fetch[t][f].attempt
         /\ part'[f] = IF fetch[t][f].size > 0 /\ part[f] # Absent THEN part[f] ELSE <<>>
<1> DEFINE more == fetch[t][f].size > 0
           r == [fetch[t][f] EXCEPT !.at = "write", !.off = fetch[t][f].size, !.append = more, !.fd = "part"]
<1>1. /\ r \in Fetches /\ r.at = "write" /\ r.off = fetch[t][f].size /\ r.fd = "part"
      /\ r.attempt = fetch[t][f].attempt
  <2>1. more \in BOOLEAN /\ fetch[t][f] \in Fetches
    BY Fields
  <2> HIDE DEF more
  <2> QED
    BY <2>1, Zenon DEF Fetches, Places, Waiting
<1>2. fetch' = Updated(fetch, t, f, r) /\ UNCHANGED <<final, shard, tasks, troubles>>
  BY DEF Open, Set, Updated
<1>3. /\ part' \in [Files -> Contents]
      /\ part'[f] = IF fetch[t][f].size > 0 /\ part[f] # Absent THEN part[f] ELSE <<>>
      /\ \A h \in Files \ {f} : part'[h] = part[h]
  BY AbsentContents DEF Open, Types
<1>4. Beside(f)
  BY <1>2, <1>3 DEF Beside, Types
<1> HIDE DEF r
<1>5. Types' /\ Local(t, f) /\ fetch'[t][f] = r
  BY <1>1, <1>2, <1>4, NearSelf, LocalStep
<1> QED
  BY <1>1, <1>3, <1>5

LEMMA DiscardDoes ==
  ASSUME Types, NEW t \in 1 .. MaxTasks, NEW f \in Files, Discard(t, f)
  PROVE  /\ Types' /\ Local(t, f)
         /\ fetch'[t][f].at = "stat" /\ fetch'[t][f].attempt = fetch[t][f].attempt
         /\ fetch[t][f].fd = "closed" => fetch'[t][f].fd = "closed"
         /\ final'[f] = Absent
<1> DEFINE g == Moved(fetch, f, "final", "gone")
           r == [g[t][f] EXCEPT !.at = "stat"]
<1>1. /\ g \in Table
      /\ \A u \in 1 .. MaxTasks, h \in Files : h # f => g[u][h] = fetch[u][h]
      /\ \A u \in 1 .. MaxTasks : Kin(g[u][f], fetch[u][f])
  BY MovedFacts, Fields, Zenon
<1>2. fetch' = [g EXCEPT ![t][f].at = "stat"] /\ UNCHANGED <<part, shard, tasks, troubles>>
  BY DEF Discard
<1> HIDE DEF g
<1>3. g[t][f] \in Fetches /\ Kin(g[t][f], fetch[t][f]) /\ Near(g, f)
  BY <1>1 DEF Near, Table
<1>4. /\ r \in Fetches /\ r.at = "stat" /\ r.attempt = fetch[t][f].attempt
      /\ fetch[t][f].fd = "closed" => r.fd = "closed"
  BY <1>3 DEF Fetches, Places, Waiting, Kin
<1>5. fetch' = Updated(g, t, f, r)
  BY <1>1, <1>2 DEF Updated, Table
<1>6. final' \in [Files -> Contents] /\ final'[f] = Absent /\ \A h \in Files \ {f} : final'[h] = final[h]
  BY AbsentContents DEF Discard, Types
<1>7. Beside(f)
  BY <1>2, <1>6 DEF Beside, Types
<1> HIDE DEF r
<1>8. Types' /\ Local(t, f) /\ fetch'[t][f] = r
  BY <1>3, <1>4, <1>5, <1>7, LocalStep
<1> QED
  BY <1>4, <1>6, <1>8

\* An exception, in a fetch that differs from the present ones in what is open.
LEMMA RaiseDoes ==
  ASSUME Types, Sizes, NEW t \in 1 .. MaxTasks, NEW f \in Files, NEW g, NEW retry \in BOOLEAN,
         Raise(t, f, g, retry), Near(g, f), shard' \in {shard, "failed"} => Beside(f)
  PROVE  /\ Types' /\ Local(t, f)
         /\ fetch'[t][f].fd = "closed"
         /\ IF retry /\ fetch[t][f].attempt + 1 < Attempts
            THEN /\ fetch'[t][f].at = "check" /\ fetch'[t][f].attempt = fetch[t][f].attempt + 1
                 /\ shard' = shard
            ELSE fetch'[t][f].at = "raised"
<1> DEFINE again == retry /\ g[t][f].attempt + 1 < Attempts
           r == IF again THEN [NewFetch EXCEPT !.attempt = g[t][f].attempt + 1] ELSE [NoFetch EXCEPT !.at = "raised"]
<1>1. fetch' = Updated(g, t, f, r) /\ shard' = IF ~again /\ Current(t) THEN "failed" ELSE shard
  BY DEF Raise, Updated
<1>2. g[t][f] \in Fetches /\ g[t][f].attempt = fetch[t][f].attempt /\ g[t][f].attempt \in Nat
  BY DEF Near, Kin, Table, Fetches
<1>3. /\ r \in Fetches /\ r.fd = "closed"
      /\ IF again THEN r.at = "check" /\ r.attempt = g[t][f].attempt + 1 ELSE r.at = "raised"
  <2>1. CASE again
    <3>1. [NewFetch EXCEPT !.attempt = g[t][f].attempt + 1] \in Fetches
      BY <1>2, FetchConstants DEF Fetches
    <3>2. /\ [NewFetch EXCEPT !.attempt = g[t][f].attempt + 1].attempt = g[t][f].attempt + 1
          /\ [NewFetch EXCEPT !.attempt = g[t][f].attempt + 1].at = "check"
          /\ [NewFetch EXCEPT !.attempt = g[t][f].attempt + 1].fd = "closed"
      BY FetchConstants DEF Fetches
    <3>3. r = [NewFetch EXCEPT !.attempt = g[t][f].attempt + 1]
      BY <2>1
    <3> HIDE DEF r, again
    <3> QED
      BY <2>1, <3>1, <3>2, <3>3
  <2>2. CASE ~again
    <3>1. r = [NoFetch EXCEPT !.at = "raised"]
      BY <2>2
    <3>2. [NoFetch EXCEPT !.at = "raised"].fd = "closed" /\ [NoFetch EXCEPT !.at = "raised"].at = "raised"
      BY DEF NoFetch
    <3> HIDE DEF r, again
    <3> QED
      BY <2>2, <3>1, <3>2, FetchConstants
  <2> QED
    BY <2>1, <2>2
<1> HIDE DEF r
<1>4. Beside(f)
  BY <1>1
<1>5. Types' /\ Local(t, f) /\ fetch'[t][f] = r
  BY <1>1, <1>3, <1>4, LocalStep
<1> QED
  BY <1>1, <1>2, <1>3, <1>5

LEMMA RangeRefusedDoes ==
  ASSUME Types, Sizes, NEW t \in 1 .. MaxTasks, NEW f \in Files, RangeRefused(t, f)
  PROVE  /\ Types' /\ Local(t, f)
         /\ fetch'[t][f].at \in {"check", "raised"} /\ fetch'[t][f].fd = "closed"
<1>1. Raise(t, f, fetch, TRUE) /\ UNCHANGED <<part, final, tasks, troubles>>
  BY Zenon DEF RangeRefused
<1>2. shard' \in {shard, "failed"} => Beside(f)
  BY <1>1, BesideSame DEF Types
<1> QED
  BY <1>1, <1>2, NearSelf, RaiseDoes, Zenon

LEMMA ConnectionLostDoes ==
  ASSUME Types, Sizes, NEW t \in 1 .. MaxTasks, NEW f \in Files, ConnectionLost(t, f)
  PROVE  /\ Types' /\ Local(t, f)
         /\ fetch'[t][f].at \in {"check", "raised"} /\ fetch'[t][f].fd = "closed"
<1> DEFINE q == [fetch[t][f] EXCEPT !.fd = "closed"]
           g == Updated(fetch, t, f, q)
<1>1. q \in Fetches /\ Kin(q, fetch[t][f]) /\ fetch \in Table
  BY Fields DEF Fetches, Kin
<1>2. [fetch EXCEPT ![t][f].fd = "closed"] = g
  BY <1>1 DEF Updated, Table
<1> HIDE DEF q
<1>3. Near(g, f)
  BY <1>1, UpdatedFacts DEF Near, Kin
<1> HIDE DEF g
<1>4. Raise(t, f, g, TRUE) /\ UNCHANGED <<part, final, tasks>> /\ troubles' \in Nat
  <2>1. /\ Raise(t, f, [fetch EXCEPT ![t][f].fd = "closed"], TRUE)
        /\ UNCHANGED <<part, final, tasks>> /\ Trouble
    BY Zenon DEF ConnectionLost
  <2>2. troubles' \in Nat
    BY <2>1 DEF Trouble, Types
  <2> QED
    BY <1>2, <2>1, <2>2, Zenon
<1>5. shard' \in {shard, "failed"} => Beside(f)
  BY <1>4, BesideSame DEF Types
<1> QED
  BY <1>3, <1>4, <1>5, RaiseDoes, Zenon

LEMMA WriteChunkDoes ==
  ASSUME Types, NEW t \in 1 .. MaxTasks, NEW f \in Files, WriteChunk(t, f)
  PROVE  /\ Types' /\ Local(t, f)
         /\ fetch'[t][f].at = "write" /\ fetch'[t][f].off = fetch[t][f].off + 1
         /\ fetch'[t][f].fd = fetch[t][f].fd /\ fetch'[t][f].attempt = fetch[t][f].attempt
         /\ fetch[t][f].fd # "final" => final'[f] = final[f]
         /\ fetch[t][f].fd = "part" /\ troubles' = 0
              => part'[f] = Written(part[f], fetch[t][f], fetch[t][f].off + 1)
         /\ shard' = shard
<1> DEFINE r == [fetch[t][f] EXCEPT !.off = @ + 1]
<1>1. fetch[t][f] \in Fetches /\ fetch[t][f].off \in Nat /\ part[f] \in Contents /\ final[f] \in Contents
  BY Fields DEF Fetches
<1>2. /\ r \in Fetches /\ r.at = "write" /\ r.off = fetch[t][f].off + 1
      /\ r.fd = fetch[t][f].fd /\ r.attempt = fetch[t][f].attempt
  BY <1>1 DEF Fetches, WriteChunk, At
<1>3. fetch' = Updated(fetch, t, f, r) /\ UNCHANGED <<shard, tasks>>
  BY DEF WriteChunk, Set, Updated
<1>4. PICK chunk \in {fetch[t][f].off + 1, Bad} :
        /\ IF chunk = Bad THEN Trouble ELSE UNCHANGED troubles
        /\ part' = IF fetch[t][f].fd = "part" THEN [part EXCEPT ![f] = Written(@, fetch[t][f], chunk)] ELSE part
        /\ final' = IF fetch[t][f].fd = "final" THEN [final EXCEPT ![f] = Written(@, fetch[t][f], chunk)] ELSE final
  BY Zenon DEF WriteChunk
<1>5. chunk \in Int /\ troubles' \in Nat /\ (chunk = Bad => troubles' # 0)
  BY <1>1, <1>4 DEF Bad, Trouble, Types
<1>6. Written(part[f], fetch[t][f], chunk) \in Contents /\ Written(final[f], fetch[t][f], chunk) \in Contents
  BY <1>1, <1>5, WrittenContents
<1>7. /\ part' \in [Files -> Contents] /\ \A h \in Files \ {f} : part'[h] = part[h]
      /\ part'[f] = IF fetch[t][f].fd = "part" THEN Written(part[f], fetch[t][f], chunk) ELSE part[f]
  BY <1>4, <1>6 DEF Types
<1>8. /\ final' \in [Files -> Contents] /\ \A h \in Files \ {f} : final'[h] = final[h]
      /\ fetch[t][f].fd # "final" => final'[f] = final[f]
  BY <1>4, <1>6 DEF Types
<1>9. Beside(f)
  BY <1>3, <1>5, <1>7, <1>8 DEF Beside, Types
<1> HIDE DEF r
<1>10. Types' /\ Local(t, f) /\ fetch'[t][f] = r
  BY <1>2, <1>3, <1>9, NearSelf, LocalStep
<1> QED
  BY <1>3, <1>4, <1>5, <1>7, <1>8, <1>10, <1>2

LEMMA HashDoes ==
  ASSUME Types, Sizes, NEW t \in 1 .. MaxTasks, NEW f \in Files, Hash(t, f)
  PROVE  /\ Types' /\ Local(t, f)
         /\ IF part[f] = Absent
            THEN fetch'[t][f].at = "raised" /\ fetch'[t][f].fd = "closed"
            ELSE /\ fetch'[t][f].at = (IF part[f] = Remote THEN "rename" ELSE "remove")
                 /\ fetch'[t][f].fd = fetch[t][f].fd /\ fetch'[t][f].attempt = fetch[t][f].attempt
                 /\ shard' = shard
<1>1. CASE part[f] = Absent
  <2>1. Raise(t, f, fetch, FALSE) /\ UNCHANGED <<part, final, tasks, troubles>>
    BY <1>1, Zenon DEF Hash
  <2>2. shard' \in {shard, "failed"} => Beside(f)
    BY <2>1, BesideSame DEF Types
  <2> QED
    BY <1>1, <2>1, <2>2, NearSelf, RaiseDoes, Zenon
<1>2. CASE part[f] # Absent
  <2> DEFINE r == [fetch[t][f] EXCEPT !.at = IF part[f] = Remote THEN "rename" ELSE "remove"]
  <2>1. /\ r \in Fetches /\ r.at = (IF part[f] = Remote THEN "rename" ELSE "remove")
        /\ r.fd = fetch[t][f].fd /\ r.attempt = fetch[t][f].attempt
    BY Fields DEF Fetches, Places, Waiting
  <2>2. fetch' = Updated(fetch, t, f, r) /\ UNCHANGED <<part, final, shard, tasks, troubles>>
    BY <1>2 DEF Hash, Set, Updated, Integrity
  <2> HIDE DEF r
  <2>3. Types' /\ Local(t, f) /\ fetch'[t][f] = r
    BY <2>1, <2>2, NearSelf, BesideSame, LocalStep DEF Types
  <2> QED
    BY <1>2, <2>1, <2>2, <2>3
<1> QED
  BY <1>1, <1>2

LEMMA RemovePartialDoes ==
  ASSUME Types, Sizes, NEW t \in 1 .. MaxTasks, NEW f \in Files, RemovePartial(t, f)
  PROVE  /\ Types' /\ Local(t, f)
         /\ part'[f] = Absent /\ fetch'[t][f].fd = "closed"
         /\ IF fetch[t][f].attempt + 1 < Attempts
            THEN /\ fetch'[t][f].at = "check" /\ fetch'[t][f].attempt = fetch[t][f].attempt + 1
                 /\ shard' = shard
            ELSE fetch'[t][f].at = "raised"
<1> DEFINE g == Moved(fetch, f, "part", "gone")
<1>1. /\ g \in Table
      /\ \A u \in 1 .. MaxTasks, h \in Files : h # f => g[u][h] = fetch[u][h]
      /\ \A u \in 1 .. MaxTasks : Kin(g[u][f], fetch[u][f])
  BY MovedFacts, Fields, Zenon
<1>2. Raise(t, f, g, TRUE) /\ UNCHANGED <<final, tasks, troubles>>
  BY Zenon DEF RemovePartial
<1> HIDE DEF g
<1>3. Near(g, f)
  BY <1>1 DEF Near
<1>4. part' \in [Files -> Contents] /\ part'[f] = Absent /\ \A h \in Files \ {f} : part'[h] = part[h]
  BY AbsentContents DEF RemovePartial, Types
<1>5. shard' \in {shard, "failed"} => Beside(f)
  BY <1>2, <1>4 DEF Beside, Types
<1> QED
  BY <1>2, <1>3, <1>4, <1>5, RaiseDoes, Zenon

LEMMA RenameDoes ==
  ASSUME Types, Sizes, NEW t \in 1 .. MaxTasks, NEW f \in Files, Rename(t, f)
  PROVE  /\ Types' /\ Local(t, f)
         /\ fetch'[t][f].fd = "closed"
         /\ IF part[f] = Absent
            THEN fetch'[t][f].at = "raised" /\ final'[f] = final[f]
            ELSE /\ fetch'[t][f].at = "done" /\ fetch'[t][f].attempt = 0 /\ shard' = shard
                 /\ final'[f] = part[f]
<1>1. CASE part[f] = Absent
  <2>1. Raise(t, f, fetch, FALSE) /\ UNCHANGED <<part, final, tasks, troubles>>
    BY <1>1, Zenon DEF Rename
  <2>2. shard' \in {shard, "failed"} => Beside(f)
    BY <2>1, BesideSame DEF Types
  <2> QED
    BY <1>1, <2>1, <2>2, NearSelf, RaiseDoes, Zenon
<1>2. CASE part[f] # Absent
  <2> DEFINE e == Moved(fetch, f, "final", "gone")
             g == Moved(e, f, "part", "final")
             r == [NoFetch EXCEPT !.at = "done"]
  <2>1. /\ e \in Table
        /\ \A u \in 1 .. MaxTasks, h \in Files : h # f => e[u][h] = fetch[u][h]
        /\ \A u \in 1 .. MaxTasks : Kin(e[u][f], fetch[u][f])
    BY MovedFacts, Fields, Zenon
  <2>2. fetch' = Updated(g, t, f, r) /\ UNCHANGED <<shard, tasks, troubles>>
    BY <1>2 DEF Rename, Updated
  <2> HIDE DEF e
  <2>3. /\ g \in Table
        /\ \A u \in 1 .. MaxTasks, h \in Files : h # f => g[u][h] = e[u][h]
        /\ \A u \in 1 .. MaxTasks : Kin(g[u][f], e[u][f])
    BY <2>1, MovedFacts, Zenon
  <2> HIDE DEF g
  <2>4. Near(g, f)
    BY <2>1, <2>3, KinKin DEF Near
  <2>5. part' \in [Files -> Contents] /\ \A h \in Files \ {f} : part'[h] = part[h]
    BY <1>2, AbsentContents DEF Rename, Types
  <2>6. final' \in [Files -> Contents] /\ final'[f] = part[f] /\ \A h \in Files \ {f} : final'[h] = final[h]
    BY <1>2 DEF Rename, Types
  <2>7. Beside(f)
    BY <2>2, <2>5, <2>6 DEF Beside, Types
  <2>8. r \in Fetches /\ r.at = "done" /\ r.fd = "closed" /\ r.attempt = 0
    BY FetchConstants DEF NoFetch
  <2> HIDE DEF r
  <2>9. Types' /\ Local(t, f) /\ fetch'[t][f] = r
    BY <2>2, <2>4, <2>7, <2>8, LocalStep
  <2> QED
    BY <1>2, <2>2, <2>6, <2>8, <2>9
<1> QED
  BY <1>1, <1>2

-----------------------------------------------------------------------------
(***************************************************************************)
(* The steps of the shard task, and of a deletion.                         *)
(***************************************************************************)
LEMMA DownloadShardDoes ==
  ASSUME Types, Sizes, DownloadShard
  PROVE  /\ Types' /\ tasks + 1 \in 1 .. MaxTasks
         /\ \A f \in Files : fetch'[tasks + 1][f] = NewFetch
         /\ \A u \in (1 .. MaxTasks) \ {tasks + 1} : fetch'[u] = fetch[u]
<1>1. tasks + 1 \in 1 .. MaxTasks
  BY DEF DownloadShard, Types, Sizes
<1>2. [f \in Files |-> NewFetch] \in [Files -> Fetches]
  BY FetchConstants
<1>3. /\ fetch' \in [1 .. MaxTasks -> [Files -> Fetches]]
      /\ fetch'[tasks + 1] = [f \in Files |-> NewFetch]
      /\ \A u \in (1 .. MaxTasks) \ {tasks + 1} : fetch'[u] = fetch[u]
  BY <1>1, <1>2 DEF DownloadShard, Types
<1>4. Types'
  BY <1>1, <1>3 DEF DownloadShard, Types, Sizes
<1> QED
  BY <1>1, <1>3, <1>4

LEMMA CancelShardDoes ==
  ASSUME Types, Sizes, CancelShard
  PROVE  /\ Types'
         /\ \A u \in 1 .. MaxTasks : fetch'[u] = IF u = tasks THEN [f \in Files |-> NoFetch] ELSE fetch[u]
<1>1. [f \in Files |-> NoFetch] \in [Files -> Fetches]
  BY FetchConstants
<1>2. /\ fetch' \in [1 .. MaxTasks -> [Files -> Fetches]]
      /\ \A u \in 1 .. MaxTasks : fetch'[u] = IF u = tasks THEN [f \in Files |-> NoFetch] ELSE fetch[u]
  BY <1>1, Zenon DEF CancelShard, Types
<1> QED
  BY <1>2 DEF CancelShard, Types

LEMMA DeleteModelDoes ==
  ASSUME Types, Sizes, DeleteModel
  PROVE  /\ Types'
         /\ \A f \in Files : part'[f] = Absent /\ final'[f] = Absent
         /\ \A u \in 1 .. MaxTasks, f \in Files :
              /\ fetch'[u][f].at = fetch[u][f].at
              /\ fetch'[u][f].fd = IF fetch[u][f].fd = "closed" THEN "closed" ELSE "gone"
<1> DEFINE new(u, f) == [fetch[u][f] EXCEPT !.fd = IF @ = "closed" THEN @ ELSE "gone"]
<1>1. ASSUME NEW u \in 1 .. MaxTasks, NEW f \in Files
      PROVE  /\ new(u, f) \in Fetches
             /\ new(u, f).at = fetch[u][f].at
             /\ new(u, f).fd = IF fetch[u][f].fd = "closed" THEN "closed" ELSE "gone"
  BY Fields DEF Fetches
<1>2. fetch' = [u \in 1 .. MaxTasks |-> [f \in Files |-> new(u, f)]]
  BY DEF DeleteModel, Types
<1> HIDE DEF new
<1>3. fetch' \in [1 .. MaxTasks -> [Files -> Fetches]]
  BY <1>1, <1>2
<1>4. \A u \in 1 .. MaxTasks, f \in Files : fetch'[u][f] = new(u, f)
  BY <1>2
<1>5. /\ part' \in [Files -> Contents] /\ final' \in [Files -> Contents]
      /\ \A f \in Files : part'[f] = Absent /\ final'[f] = Absent
  BY AbsentContents DEF DeleteModel
<1>6. Types'
  BY <1>3, <1>5 DEF DeleteModel, Trouble, Types
<1> QED
  BY <1>1, <1>4, <1>5, <1>6

LEMMA FetchDoes ==
  ASSUME Types, Sizes, NEW t \in 1 .. MaxTasks, NEW f \in Files, Fetch(t, f)
  PROVE  Types' /\ Local(t, f) /\ Alive(t, f)
<1>1. Types' /\ Local(t, f)
  <2>1. CASE Check(t, f)
    BY <2>1, CheckDoes, Zenon
  <2>2. CASE Keep(t, f)
    BY <2>2, KeepDoes, Zenon
  <2>3. CASE Discard(t, f)
    BY <2>3, DiscardDoes, Zenon
  <2>4. CASE Stat(t, f)
    BY <2>4, StatDoes, Zenon
  <2>5. CASE Open(t, f)
    BY <2>5, OpenDoes, Zenon
  <2>6. CASE RangeRefused(t, f)
    BY <2>6, RangeRefusedDoes, Zenon
  <2>7. CASE WriteChunk(t, f)
    BY <2>7, WriteChunkDoes, Zenon
  <2>8. CASE WriteEnds(t, f)
    BY <2>8, WriteEndsDoes, Zenon
  <2>9. CASE ConnectionLost(t, f)
    BY <2>9, ConnectionLostDoes, Zenon
  <2>10. CASE Hash(t, f)
    BY <2>10, HashDoes, Zenon
  <2>11. CASE RemovePartial(t, f)
    BY <2>11, RemovePartialDoes, Zenon
  <2>12. CASE Rename(t, f)
    BY <2>12, RenameDoes, Zenon
  <2> QED
    BY <2>1, <2>2, <2>3, <2>4, <2>5, <2>6, <2>7, <2>8, <2>9, <2>10, <2>11, <2>12, Zenon DEF Fetch
<1>2. Alive(t, f)
  BY Zenon DEF Fetch, Alive, At, Check, Keep, Discard, Stat, Open, RangeRefused, WriteChunk, WriteEnds,
         ConnectionLost, Hash, RemovePartial, Rename
<1> QED
  BY <1>1, <1>2

LEMMA TypesInit == ASSUME Sizes, Init PROVE Types
<1>1. Leftovers \subseteq Contents
  <2>1. ASSUME NEW n \in {1, Length, Length + 1} PROVE [i \in 1 .. n |-> Bad] \in Contents
    <3>1. n \in Nat /\ Bad \in Int
      BY DEF Sizes, Bad
    <3> QED
      BY <3>1 DEF Contents
  <2>2. <<1>> \in Contents
    BY DEF Contents
  <2> QED
    BY <2>1, <2>2, AbsentContents, Zenon DEF Leftovers
<1>2. {Absent, <<Bad>>} \subseteq Contents
  BY AbsentContents DEF Contents, Bad
<1> QED
  BY <1>1, <1>2, FetchConstants DEF Init, Types, Sizes

LEMMA TypesStep == ASSUME Types, Sizes, [Next]_vars PROVE Types'
<1>1. ASSUME ShardEnds PROVE Types'
  BY <1>1 DEF ShardEnds, Types
<1>2. ASSUME UNCHANGED vars PROVE Types'
  BY <1>2 DEF vars, Types
<1> QED
  BY <1>1, <1>2, DownloadShardDoes, CancelShardDoes, DeleteModelDoes, FetchDoes DEF Next

-----------------------------------------------------------------------------
(***************************************************************************)
(* Without strays nobody disturbs a fetch.                                 *)
(***************************************************************************)
LEMMA UndisturbedLocal ==
  ASSUME Types, Types', Undisturbed, NEW t \in 1 .. MaxTasks, NEW f \in Files,
         Local(t, f), Alive(t, f), Tested(part'[f], fetch'[t][f])
  PROVE  Undisturbed'
<1>1. t = tasks /\ tasks' = tasks
  BY DEF Undisturbed, Local
<1>2. ASSUME NEW u \in 1 .. MaxTasks, u # t
      PROVE  ~Alive(u, f)' /\ Tested(part'[f], fetch'[u][f])
  <2>1. ~Alive(u, f) /\ Tested(part[f], fetch[u][f])
    BY <1>1, <1>2 DEF Undisturbed
  <2>2. fetch'[u][f] = fetch[u][f]
    BY <1>2, <2>1, Zenon DEF Local, Kin, Tested, Alive
  <2> QED
    BY <2>1, <2>2 DEF Alive, Tested
<1>3. ASSUME NEW u \in 1 .. MaxTasks, NEW h \in Files, h # f
      PROVE  (Alive(u, h)' => u = tasks) /\ Tested(part'[h], fetch'[u][h])
  <2>1. (Alive(u, h) => u = tasks) /\ Tested(part[h], fetch[u][h])
    BY DEF Undisturbed
  <2>2. fetch'[u][h] = fetch[u][h] /\ part'[h] = part[h]
    BY <1>3 DEF Local
  <2> QED
    BY <2>1, <2>2 DEF Alive
<1>4. \A u \in 1 .. MaxTasks, h \in Files : Alive(u, h)' => u = tasks'
  BY <1>1, <1>2, <1>3
<1>5. \A u \in 1 .. MaxTasks, h \in Files : Tested(part'[h], fetch'[u][h])
  BY <1>2, <1>3
<1> QED
  BY <1>4, <1>5 DEF Undisturbed

\* A fetch that has nothing open and is not about to rename.
LEMMA TestedClosed ==
  ASSUME NEW c, NEW r, r.fd = "closed", r.at \notin {"write", "rename"}
  PROVE  Tested(c, r)
  BY SMTT(30) DEF Tested

LEMMA UndisturbedFetch ==
  ASSUME Types, Sizes, Undisturbed, NEW t \in 1 .. MaxTasks, NEW f \in Files, Fetch(t, f)
  PROVE  Undisturbed' /\ (final'[f] # final[f] => final'[f] \in {Absent, Remote})
<1> DEFINE r == fetch[t][f]
           s == fetch'[t][f]
<1>1. r \in Fetches /\ Tested(part[f], r) /\ Types' /\ Local(t, f) /\ Alive(t, f)
  BY Fields, FetchDoes, Zenon DEF Undisturbed
<1>2. SUFFICES Tested(part'[f], s) /\ (final'[f] # final[f] => final'[f] \in {Absent, Remote})
  BY <1>1, UndisturbedLocal
<1>3. CASE Check(t, f)
  <2>1. s.at \in {"stat", "compare"} /\ s.fd = r.fd /\ r.at = "check" /\ final' = final
    BY <1>1, <1>3, CheckDoes, Zenon DEF Check, At
  <2> HIDE DEF r, s
  <2> QED
    BY <1>1, <2>1, SMTT(30) DEF Tested
<1>4. CASE Keep(t, f)
  <2>1. s.at = "done" /\ s.fd = "closed" /\ final' = final
    BY <1>4, KeepDoes DEF Keep
  <2> HIDE DEF r, s
  <2> QED
    BY <2>1 DEF Tested
<1>5. CASE Discard(t, f)
  <2>1. r.at = "compare" /\ s.at = "stat" /\ (r.fd = "closed" => s.fd = "closed") /\ final'[f] = Absent
    BY <1>5, DiscardDoes, Zenon DEF Discard, At
  <2> HIDE DEF r, s
  <2> QED
    BY <1>1, <2>1 DEF Tested
<1>6. CASE Stat(t, f)
  <2>1. s.at \in {"hash", "open"} /\ s.fd = r.fd /\ r.at = "stat" /\ final' = final
    BY <1>1, <1>6, StatDoes, Zenon DEF Stat, At
  <2> HIDE DEF r, s
  <2> QED
    BY <1>1, <2>1 DEF Tested
<1>7. CASE Open(t, f)
  <2>1. s.at = "write" /\ s.fd = "part" /\ final' = final
    BY <1>1, <1>7, OpenDoes, Zenon DEF Open
  <2> HIDE DEF r, s
  <2> QED
    BY <2>1, SMTT(30) DEF Tested
<1>8. CASE RangeRefused(t, f)
  <2>1. s.at \in {"check", "raised"} /\ s.fd = "closed" /\ final' = final
    BY <1>8, RangeRefusedDoes, Zenon DEF RangeRefused
  <2> HIDE DEF r, s
  <2> QED
    BY <2>1 DEF Tested
<1>9. CASE WriteChunk(t, f)
  <2>1. s.at = r.at /\ r.at = "write" /\ s.fd = r.fd /\ (r.fd # "final" => final'[f] = final[f])
    BY <1>1, <1>9, WriteChunkDoes, Zenon DEF WriteChunk, At
  <2> HIDE DEF r, s
  <2> QED
    BY <1>1, <2>1 DEF Tested
<1>10. CASE WriteEnds(t, f)
  <2>1. s.at = "hash" /\ s.fd = "closed" /\ final' = final
    BY <1>1, <1>10, WriteEndsDoes, Zenon DEF WriteEnds
  <2> HIDE DEF r, s
  <2> QED
    BY <2>1, SMTT(30) DEF Tested
<1>11. CASE ConnectionLost(t, f)
  <2>1. s.at \in {"check", "raised"} /\ s.fd = "closed" /\ final' = final
    BY <1>11, ConnectionLostDoes, Zenon DEF ConnectionLost
  <2> HIDE DEF r, s
  <2> QED
    BY <2>1 DEF Tested
<1>12. CASE Hash(t, f)
  <2>1. r.at = "hash" /\ part' = part /\ final' = final
    BY <1>12 DEF Hash, At
  <2>2. CASE part[f] = Absent
    BY <1>12, <2>1, <2>2, HashDoes, TestedClosed
  <2>3. CASE part[f] # Absent
    <3>1. s.fd = r.fd /\ s.at \in {"rename", "remove"} /\ (s.at = "rename" => part[f] = Remote)
      BY <1>12, <2>3, HashDoes, SMTT(30)
    <3> HIDE DEF r, s
    <3> QED
      BY <1>1, <2>1, <3>1 DEF Tested
  <2> QED
    BY <2>2, <2>3
<1>13. CASE RemovePartial(t, f)
  <2>1. s.at \in {"check", "raised"} /\ s.fd = "closed" /\ final' = final
    BY <1>13, RemovePartialDoes, Zenon DEF RemovePartial
  <2> HIDE DEF r, s
  <2> QED
    BY <2>1 DEF Tested
<1>14. CASE Rename(t, f)
  <2>1. /\ r.at = "rename" /\ s.fd = "closed" /\ s.at \in {"done", "raised"}
        /\ final'[f] = part[f] \/ final'[f] = final[f]
    BY <1>14, RenameDoes, Zenon DEF Rename, At
  <2> HIDE DEF r, s
  <2> QED
    BY <1>1, <2>1 DEF Tested
<1> QED
  BY <1>3, <1>4, <1>5, <1>6, <1>7, <1>8, <1>9, <1>10, <1>11, <1>12, <1>13, <1>14, Zenon DEF Fetch

LEMMA UndisturbedInit == ASSUME Init, Sizes PROVE Undisturbed
<1>1. \A t \in 1 .. MaxTasks, f \in Files : fetch[t][f] = NoFetch
  BY DEF Init
<1>2. NoFetch.at = "off" /\ NoFetch.fd = "closed"
  BY FetchConstants
<1> QED
  BY <1>1, <1>2 DEF Undisturbed, Tested, Alive

LEMMA UndisturbedStep ==
  ASSUME Types, Sizes, Strays = FALSE, Undisturbed, [Next]_vars
  PROVE  Undisturbed' /\ (FinalWritten \/ UNCHANGED vars)
<1>1. ASSUME DownloadShard PROVE Undisturbed' /\ FinalWritten
  <2>1. tasks' = tasks + 1 /\ UNCHANGED <<part, final>> /\ \A t \in 1 .. MaxTasks, f \in Files : ~Alive(t, f)
    BY <1>1 DEF DownloadShard
  <2>2. ASSUME NEW u \in 1 .. MaxTasks, NEW h \in Files
        PROVE  (Alive(u, h)' => u = tasks + 1) /\ Tested(part'[h], fetch'[u][h])
    <3>1. CASE u = tasks + 1
      BY <1>1, <3>1, DownloadShardDoes, FetchConstants, TestedClosed
    <3>2. CASE u # tasks + 1
      <4>1. fetch'[u][h] = fetch[u][h]
        BY <1>1, <3>2, DownloadShardDoes
      <4> QED
        BY <2>1, <4>1 DEF Undisturbed, Alive
    <3> QED
      BY <3>1, <3>2
  <2> QED
    BY <2>1, <2>2 DEF Undisturbed, FinalWritten
<1>2. ASSUME ShardEnds PROVE Undisturbed' /\ FinalWritten
  BY <1>2 DEF ShardEnds, Undisturbed, FinalWritten, Alive
<1>3. ASSUME CancelShard PROVE Undisturbed' /\ FinalWritten
  <2>1. UNCHANGED <<part, final, tasks>>
    BY <1>3 DEF CancelShard
  <2>2. ASSUME NEW u \in 1 .. MaxTasks, NEW h \in Files
        PROVE  (Alive(u, h)' => u = tasks) /\ Tested(part'[h], fetch'[u][h])
    <3>1. CASE u = tasks
      <4>1. fetch'[u][h] = NoFetch
        BY <1>3, <3>1, CancelShardDoes
      <4> QED
        BY <3>1, <4>1, FetchConstants, TestedClosed
    <3>2. CASE u # tasks
      <4>1. fetch'[u][h] = fetch[u][h]
        BY <1>3, <3>2, CancelShardDoes
      <4> QED
        BY <2>1, <4>1 DEF Undisturbed, Alive
    <3> QED
      BY <3>1, <3>2
  <2> QED
    BY <2>1, <2>2 DEF Undisturbed, FinalWritten
<1>4. ASSUME DeleteModel PROVE Undisturbed' /\ FinalWritten
  <2>1. tasks' = tasks /\ \A f \in Files : final'[f] = Absent /\ part'[f] = Absent
    BY <1>4, DeleteModelDoes DEF DeleteModel
  <2>2. ASSUME NEW u \in 1 .. MaxTasks, NEW h \in Files
        PROVE  (Alive(u, h)' => u = tasks) /\ Tested(part'[h], fetch'[u][h])
    <3>1. (Alive(u, h) => u = tasks) /\ Tested(part[h], fetch[u][h])
      BY DEF Undisturbed
    <3>2. /\ fetch'[u][h].at = fetch[u][h].at
          /\ fetch'[u][h].fd = IF fetch[u][h].fd = "closed" THEN "closed" ELSE "gone"
      BY <1>4, DeleteModelDoes
    <3> QED
      BY <2>1, <3>1, <3>2 DEF Alive, Tested
  <2> QED
    BY <2>1, <2>2 DEF Undisturbed, FinalWritten
<1>5. ASSUME NEW t \in 1 .. MaxTasks, NEW f \in Files, Fetch(t, f) PROVE Undisturbed' /\ FinalWritten
  <2>1. Undisturbed' /\ (final'[f] # final[f] => final'[f] \in {Absent, Remote})
    BY <1>5, UndisturbedFetch
  <2>2. \A h \in Files \ {f} : final'[h] = final[h]
    BY <1>5, FetchDoes DEF Local
  <2> QED
    BY <2>1, <2>2 DEF FinalWritten
<1>6. ASSUME UNCHANGED vars PROVE Undisturbed'
  BY <1>6 DEF vars, Undisturbed, Alive
<1> QED
  BY <1>1, <1>2, <1>3, <1>4, <1>5, <1>6 DEF Next

\* Without strays a file gets its final name only with the contents of the remote file, and
\* keeps them until it is deleted: _download_file of download_utils.py, for any number of
\* files, chunks, attempts, shard tasks, cancellations and failures.
THEOREM FinalNameIsEarned == ASSUME Sizes, Strays = FALSE PROVE Spec => FinalWrites
<1>1. Init => Types /\ Undisturbed
  BY TypesInit, UndisturbedInit
<1>2. Types /\ Undisturbed /\ [Next]_vars => Types' /\ Undisturbed' /\ [FinalWritten]_vars
  BY TypesStep, UndisturbedStep, Zenon
<1> QED
  BY <1>1, <1>2, PTL DEF Spec, FinalWrites

-----------------------------------------------------------------------------
(***************************************************************************)
(* A download does not fail by itself.                                     *)
(***************************************************************************)
\* A file that was written without a gap is one chunk longer.
LEMMA WrittenAtEnd ==
  ASSUME NEW c \in Contents, NEW r \in Fetches, Len(c) = r.off
  PROVE  /\ Len(Written(c, r, r.off + 1)) = r.off + 1
         /\ \A i \in 1 .. r.off : Written(c, r, r.off + 1)[i] = c[i]
         /\ Written(c, r, r.off + 1)[r.off + 1] = r.off + 1
<1>1. r.off \in Nat
  BY DEF Fetches
<1>2. Written(c, r, r.off + 1) = [i \in 1 .. r.off + 1 |-> IF i = r.off + 1 THEN r.off + 1 ELSE IF i <= Len(c) THEN c[i] ELSE Bad]
  BY <1>1 DEF Written, Write
<1> QED
  BY <1>1, <1>2

LEMMA WrittenNotAbsent ==
  ASSUME NEW c \in Contents, NEW r \in Fetches, Len(c) = r.off
  PROVE  Written(c, r, r.off + 1) # Absent
<1>1. r.off \in Nat
  BY DEF Fetches
<1>2. Len(Absent) = 1 /\ Absent[1] = -1
  BY DEF Absent
<1>3. CASE r.off = 0
  BY <1>1, <1>2, <1>3, WrittenAtEnd
<1>4. CASE r.off # 0
  BY <1>1, <1>2, <1>4, WrittenAtEnd
<1> QED
  BY <1>3, <1>4

LEMMA WrittenClean ==
  ASSUME NEW c \in Contents, NEW r \in Fetches, Len(c) = r.off, c # Absent, Clean(c), Sizes, r.off < Length
  PROVE  Clean(Written(c, r, r.off + 1))
<1> DEFINE w == Written(c, r, r.off + 1)
<1>1. r.off \in Nat /\ Length \in Nat
  BY DEF Fetches, Sizes
<1>2. Len(w) = r.off + 1 /\ w[r.off + 1] = r.off + 1 /\ \A i \in 1 .. r.off : w[i] = c[i]
  BY WrittenAtEnd
<1> HIDE DEF w
<1>3. \A i \in 1 .. r.off : w[i] = i
  BY <1>1, <1>2 DEF Clean
<1>4. Len(w) <= Length /\ \A i \in 1 .. Len(w) : w[i] = i
  BY <1>1, <1>2, <1>3
<1>5. Clean(w)
  BY <1>4 DEF Clean
<1> QED
  BY <1>5 DEF w

LEMMA CleanAndWhole ==
  ASSUME NEW c \in Contents, Clean(c), c # Absent, Len(c) = Length, Sizes
  PROVE  c = Remote
<1>1. DOMAIN c = 1 .. Length /\ \A i \in 1 .. Length : c[i] = i
  BY DEF Clean, Contents, Sizes
<1>2. c = [i \in DOMAIN c |-> c[i]]
  BY DEF Contents
<1> QED
  BY <1>1, <1>2 DEF Remote

LEMMA SmoothLocal ==
  ASSUME Types, Types', AllSmooth, NEW t \in 1 .. MaxTasks, NEW f \in Files,
         Local(t, f), Alive(t, f), shard' = shard, Smooth(part'[f], fetch'[t][f])
  PROVE  AllSmooth'
<1>1. t = tasks /\ tasks' = tasks /\ shard = "running"
  BY Zenon DEF AllSmooth, Local
<1>2. ASSUME NEW u \in 1 .. MaxTasks, u # t
      PROVE  ~Alive(u, f)' /\ Smooth(part'[f], fetch'[u][f])
  <2>1. ~Alive(u, f) /\ Smooth(part[f], fetch[u][f])
    BY <1>1, <1>2, Zenon DEF AllSmooth
  <2>2. fetch'[u][f].at = fetch[u][f].at /\ fetch'[u][f].attempt = fetch[u][f].attempt
    BY <1>2, Zenon DEF Local, Kin
  <2> QED
    BY <2>1, <2>2, Zenon DEF Alive, Smooth
<1>3. ASSUME NEW u \in 1 .. MaxTasks, NEW h \in Files, h # f
      PROVE  (Alive(u, h)' => u = tasks) /\ Smooth(part'[h], fetch'[u][h])
  <2>1. (Alive(u, h) => u = tasks) /\ Smooth(part[h], fetch[u][h])
    BY DEF AllSmooth
  <2>2. fetch'[u][h] = fetch[u][h] /\ part'[h] = part[h]
    BY <1>3, Zenon DEF Local
  <2> QED
    BY <2>1, <2>2, Zenon DEF Alive
<1>4. \A u \in 1 .. MaxTasks, h \in Files : Alive(u, h)' => u = tasks' /\ shard' = "running"
  BY <1>1, <1>2, <1>3
<1>5. \A u \in 1 .. MaxTasks, h \in Files : Smooth(part'[h], fetch'[u][h])
  BY <1>2, <1>3
<1> QED
  BY <1>1, <1>4, <1>5 DEF AllSmooth

\* The step of a fetch that has had no trouble goes on without, or finds a file too long.
LEMMA SmoothFetch ==
  ASSUME Types, Sizes, Attempts >= 2, AllSmooth, NEW t \in 1 .. MaxTasks, NEW f \in Files, Fetch(t, f), troubles' = 0
  PROVE  AllSmooth' \/ Stuck(f)'
<1> DEFINE r == fetch[t][f]
           s == fetch'[t][f]
           c == part[f]
<1>1. /\ r \in Fetches /\ c \in Contents /\ Smooth(c, r) /\ Types' /\ Local(t, f) /\ Alive(t, f)
      /\ t = tasks /\ Length \in Nat \ {0} /\ Attempts \in Nat
  BY Fields, FetchDoes, Zenon DEF AllSmooth, Sizes
<1>2. ASSUME shard' = shard, Smooth(part'[f], s) PROVE AllSmooth'
  BY <1>1, <1>2, SmoothLocal, Zenon
<1>3. CASE Check(t, f)
  <2>1. s.at \in {"stat", "compare"} /\ s.attempt = r.attempt /\ r.at = "check" /\ UNCHANGED <<part, shard>>
    BY <1>3, CheckDoes, Zenon DEF Check, At
  <2> HIDE DEF r, s
  <2> QED
    BY <1>1, <1>2, <2>1, SMTT(30) DEF Smooth
<1>4. CASE Keep(t, f)
  <2>1. s.at = "done" /\ s.attempt = 0 /\ UNCHANGED shard
    BY <1>4, KeepDoes DEF Keep
  <2> HIDE DEF r, s
  <2> QED
    BY <1>2, <2>1 DEF Smooth
<1>5. CASE Discard(t, f)
  <2>1. r.at = "compare" /\ s.at = "stat" /\ s.attempt = r.attempt /\ UNCHANGED <<part, shard>>
    BY <1>5, DiscardDoes, Zenon DEF Discard, At
  <2> HIDE DEF r, s
  <2> QED
    BY <1>1, <1>2, <2>1 DEF Smooth
<1>6. CASE Stat(t, f)
  <2>1. /\ r.at = "stat" /\ s.at = (IF Size(c) = Length THEN "hash" ELSE "open") /\ s.size = Size(c)
        /\ s.attempt = r.attempt /\ UNCHANGED <<part, shard>>
    BY <1>6, StatDoes, Zenon DEF Stat, At
  <2>2. CASE Size(c) <= Length
    <3>1. Smooth(part'[f], s)
      <4> HIDE DEF r, s
      <4>1. Size(c) = Length => c # Absent /\ Len(c) = Length
        BY <1>1 DEF Size
      <4> QED
        BY <1>1, <2>1, <2>2, <4>1, Zenon DEF Smooth
    <3> QED
      BY <1>2, <2>1, <3>1, Zenon
  <2>3. CASE Size(c) > Length
    <3>1. s.at = "open" /\ s.size > Length
      BY <1>1, <2>1, <2>3, SizeNat
    <3>2. ASSUME NEW u \in 1 .. MaxTasks, u # t PROVE fetch'[u][f].at \in Waiting \ {"open"}
      <4>1. ~Alive(u, f)
        BY <1>1, <3>2, Zenon DEF AllSmooth
      <4>2. fetch'[u][f].at = fetch[u][f].at
        BY <1>1, <3>2, Zenon DEF Local, Kin
      <4> QED
        BY <4>1, <4>2 DEF Alive, Waiting
    <3>3. Size(part'[f]) > Length
      BY <2>1, <2>3, Zenon
    <3> QED
      BY <3>1, <3>2, <3>3, Zenon DEF Stuck, Waiting
  <2> QED
    BY <1>1, <2>2, <2>3, SizeNat
<1>7. CASE Open(t, f)
  <2>1. /\ r.at = "open" /\ s.at = "write" /\ s.off = r.size /\ s.fd = "part" /\ s.attempt = r.attempt
        /\ part'[f] = (IF r.size > 0 /\ c # Absent THEN c ELSE <<>>) /\ UNCHANGED shard
    BY <1>7, OpenDoes, ZenonT(30) DEF Open, At
  <2>2. r.size = Size(c) /\ r.size <= Length /\ r.size \in Nat /\ (r.attempt = 1 => Clean(c)) /\ r.attempt \in {0, 1}
    BY <1>1, <2>1, ZenonT(30) DEF Smooth, Fetches
  <2> HIDE DEF r, s
  <2>3. CASE r.size > 0
    <3>1. c # Absent /\ Len(c) = r.size /\ part'[f] = c
      BY <2>1, <2>2, <2>3, SMTT(30) DEF Size
    <3> QED
      BY <1>2, <2>1, <2>2, <3>1, Zenon DEF Smooth
  <2>4. CASE ~(r.size > 0)
    <3>1. part'[f] = <<>> /\ r.size = 0
      BY ONLY <2>1, <2>2, <2>4
    <3>2. <<>> # Absent /\ Len(<<>>) = 0 /\ Clean(<<>>)
      BY <1>1 DEF Absent, Clean
    <3> QED
      BY <1>1, <1>2, <2>1, <2>2, <3>1, <3>2, Zenon DEF Smooth
  <2> QED
    BY <2>3, <2>4, SMTT(30)
<1>8. CASE RangeRefused(t, f)
  <2>1. r.at = "open" /\ r.size > Length
    BY <1>8, Zenon DEF RangeRefused, At
  <2>2. r.size <= Length /\ r.size \in Nat
    BY <1>1, <2>1, Zenon DEF Smooth, Fetches
  <2>3. FALSE
    BY ONLY <1>1, <2>1, <2>2
  <2> QED
    BY <2>3
<1>9. CASE WriteChunk(t, f)
  <2>1. /\ r.at = "write" /\ r.off < Length /\ s.at = "write" /\ s.off = r.off + 1 /\ s.fd = r.fd
        /\ s.attempt = r.attempt /\ UNCHANGED shard
        /\ r.fd = "part" => part'[f] = Written(c, r, r.off + 1)
    BY <1>9, WriteChunkDoes, Zenon DEF WriteChunk, At
  <2>2. r.fd = "part" /\ c # Absent /\ Len(c) = r.off /\ r.off \in Nat /\ r.attempt \in {0, 1} /\ (r.attempt = 1 => Clean(c))
    BY <1>1, <2>1, Zenon DEF Smooth, Fetches
  <2>3. /\ part'[f] # Absent /\ Len(part'[f]) = r.off + 1
        /\ r.attempt = 1 => Clean(part'[f])
    <3>1. part'[f] = Written(c, r, r.off + 1)
      BY <2>1, <2>2, Zenon
    <3>2. Written(c, r, r.off + 1) # Absent
      BY <1>1, <2>2, WrittenNotAbsent, Zenon
    <3>3. Len(Written(c, r, r.off + 1)) = r.off + 1
      BY <1>1, <2>2, WrittenAtEnd, Zenon
    <3>4. r.attempt = 1 => Clean(Written(c, r, r.off + 1))
      BY <1>1, <2>1, <2>2, WrittenClean, Zenon
    <3> QED
      BY <3>1, <3>2, <3>3, <3>4, Zenon
  <2> HIDE DEF r, s
  <2>4. Smooth(part'[f], s)
    <3>1. r.off + 1 <= Length
      BY ONLY <1>1, <2>1, <2>2
    <3> QED
      BY <1>1, <2>1, <2>2, <2>3, <3>1, ZenonT(30) DEF Smooth
  <2> QED
    BY <1>2, <2>1, <2>4, Zenon
<1>10. CASE WriteEnds(t, f)
  <2>1. r.at = "write" /\ r.off = Length /\ s.at = "hash" /\ s.attempt = r.attempt /\ UNCHANGED <<part, shard>>
    BY <1>10, WriteEndsDoes, Zenon DEF WriteEnds, At
  <2> HIDE DEF r, s
  <2> QED
    BY <1>1, <1>2, <2>1, Zenon DEF Smooth
<1>11. CASE ConnectionLost(t, f)
  <2>1. FALSE
    BY <1>11 DEF ConnectionLost, Trouble, Types
  <2> QED
    BY <2>1
<1>12. CASE Hash(t, f)
  <2>1. r.at = "hash" /\ part' = part
    BY <1>12 DEF Hash, At
  <2>2. c # Absent /\ Len(c) = Length /\ r.attempt \in {0, 1} /\ (r.attempt = 1 => c = Remote)
    BY <1>1, <2>1, CleanAndWhole, Zenon DEF Smooth
  <2>3. s.at = (IF c = Remote THEN "rename" ELSE "remove") /\ s.attempt = r.attempt /\ shard' = shard
    BY <1>12, <2>2, HashDoes, Zenon
  <2> HIDE DEF r, s
  <2> QED
    BY <1>2, <2>1, <2>2, <2>3 DEF Smooth
<1>13. CASE RemovePartial(t, f)
  <2>1. r.at = "remove" /\ r.attempt = 0
    BY <1>1, <1>13, Zenon DEF RemovePartial, At, Smooth
  <2>2. s.at = "check" /\ s.attempt = 1 /\ part'[f] = Absent /\ shard' = shard
    <3>1. r.attempt + 1 = 1 /\ r.attempt + 1 < Attempts
      BY ONLY <1>1, <2>1, Attempts >= 2
    <3> QED
      BY <1>13, <3>1, RemovePartialDoes, Zenon
  <2> HIDE DEF r, s
  <2> QED
    BY <1>2, <2>2, Zenon DEF Smooth, Clean
<1>14. CASE Rename(t, f)
  <2>1. c # Absent
    BY <1>1, <1>14 DEF Rename, At, Smooth
  <2>2. s.at = "done" /\ s.attempt = 0 /\ shard' = shard
    BY <1>14, <2>1, RenameDoes
  <2> HIDE DEF r, s
  <2> QED
    BY <1>2, <2>2 DEF Smooth
<1> QED
  BY <1>3, <1>4, <1>5, <1>6, <1>7, <1>8, <1>9, <1>10, <1>11, <1>12, <1>13, <1>14, SMTT(30) DEF Fetch

LEMMA SmoothStep ==
  ASSUME Types, Sizes, Attempts >= 2, AllSmooth, Next, troubles' = 0
  PROVE  AllSmooth' \/ \E f \in Files : Stuck(f)'
<1>1. ASSUME NEW t \in 1 .. MaxTasks, NEW f \in Files, Fetch(t, f)
      PROVE  AllSmooth' \/ \E h \in Files : Stuck(h)'
  BY <1>1, SmoothFetch
<1>2. ASSUME DownloadShard PROVE AllSmooth'
  <2>1. tasks' = tasks + 1 /\ UNCHANGED part /\ shard' = "running" /\ shard # "running"
    BY <1>2 DEF DownloadShard
  <2>2. ASSUME NEW u \in 1 .. MaxTasks, NEW h \in Files
        PROVE  (Alive(u, h)' => u = tasks + 1) /\ Smooth(part'[h], fetch'[u][h])
    <3>1. CASE u = tasks + 1
      <4>1. fetch'[u][h].at = "check" /\ fetch'[u][h].attempt = 0
        BY <1>2, <3>1, DownloadShardDoes, FetchConstants
      <4> QED
        BY <3>1, <4>1 DEF Smooth
    <3>2. CASE u # tasks + 1
      <4>1. fetch'[u][h] = fetch[u][h]
        BY <1>2, <3>2, DownloadShardDoes, Zenon
      <4> QED
        BY <2>1, <4>1, Zenon DEF AllSmooth, Alive
    <3> QED
      BY <3>1, <3>2, Zenon
  <2> QED
    BY <2>1, <2>2, Zenon DEF AllSmooth
<1>3. ASSUME ShardEnds PROVE AllSmooth'
  <2>1. UNCHANGED <<part, fetch, tasks>> /\ shard' = "done" /\ \A f \in Files : fetch[tasks][f].at = "done"
    BY <1>3 DEF ShardEnds, At
  <2>2. \A u \in 1 .. MaxTasks, f \in Files : ~Alive(u, f)
    BY <2>1 DEF AllSmooth, Alive
  <2> QED
    BY <2>1, <2>2 DEF AllSmooth, Alive
<1>4. ASSUME CancelShard PROVE AllSmooth'
  <2>1. UNCHANGED <<part, tasks>> /\ shard' = "cancelled"
    BY <1>4 DEF CancelShard
  <2>2. ASSUME NEW u \in 1 .. MaxTasks, NEW h \in Files
        PROVE  ~Alive(u, h)' /\ Smooth(part'[h], fetch'[u][h])
    <3>1. CASE u = tasks
      <4>1. fetch'[u][h].at = "off" /\ fetch'[u][h].attempt = 0
        BY <1>4, <3>1, CancelShardDoes, FetchConstants
      <4> QED
        BY <4>1, Zenon DEF Smooth, Alive
    <3>2. CASE u # tasks
      <4>1. fetch'[u][h] = fetch[u][h]
        BY <1>4, <3>2, CancelShardDoes
      <4> QED
        BY <2>1, <3>2, <4>1, Zenon DEF AllSmooth, Alive
    <3> QED
      BY <3>1, <3>2, Zenon
  <2> QED
    BY <2>1, <2>2 DEF AllSmooth
<1>5. ASSUME DeleteModel PROVE FALSE
  BY <1>5 DEF DeleteModel, Trouble, Types
<1> QED
  BY <1>1, <1>2, <1>3, <1>4, <1>5 DEF Next

LEMMA StuckFetch ==
  ASSUME Types, Sizes, NEW f \in Files, Stuck(f), NEW t \in 1 .. MaxTasks, Fetch(t, f), troubles' = 0
  PROVE  Stuck(f)'
<1> DEFINE r == fetch[t][f]
           s == fetch'[t][f]
<1>1. r \in Fetches /\ part[f] \in Contents /\ Local(t, f) /\ Length \in Nat
  BY Fields, FetchDoes DEF Sizes
<1>2. Size(part[f]) > Length /\ r.at \in Waiting /\ (r.at = "open" => r.size > Length)
  BY DEF Stuck
<1>3. ASSUME part' = part, s.at \in Waiting, s.at = "open" => s.size > Length PROVE Stuck(f)'
  <2>1. \A u \in (1 .. MaxTasks) \ {t} : fetch'[u][f].at = fetch[u][f].at /\ fetch'[u][f].size = fetch[u][f].size
    BY <1>1, Zenon DEF Local, Kin
  <2> QED
    BY <1>3, <2>1, Zenon DEF Stuck
<1>4. CASE Check(t, f)
  <2>1. s.at \in {"stat", "compare"} /\ part' = part
    BY <1>4, CheckDoes, Zenon DEF Check
  <2> QED
    BY <1>3, <2>1, Zenon DEF Waiting
<1>5. CASE Keep(t, f)
  <2>1. s.at = "done" /\ part' = part
    BY <1>5, KeepDoes DEF Keep
  <2> QED
    BY <1>3, <2>1 DEF Waiting
<1>6. CASE Discard(t, f)
  <2>1. s.at = "stat" /\ part' = part
    BY <1>6, DiscardDoes, Zenon DEF Discard
  <2> QED
    BY <1>3, <2>1 DEF Waiting
<1>7. CASE Stat(t, f)
  <2>1. s.at = (IF Size(part[f]) = Length THEN "hash" ELSE "open") /\ s.size = Size(part[f]) /\ part' = part
    BY <1>7, StatDoes, Zenon DEF Stat
  <2>2. s.at = "open" /\ s.size > Length
    BY <1>1, <1>2, <2>1, SizeNat
  <2> QED
    BY <1>3, <2>1, <2>2, Zenon DEF Waiting
<1>8. CASE Open(t, f)
  <2>1. r.at = "open" /\ r.size <= Length
    BY <1>8 DEF Open, At
  <2>2. FALSE
    BY <1>1, <1>2, <2>1 DEF Fetches
  <2> QED
    BY <2>2
<1>9. CASE RangeRefused(t, f)
  <2>1. s.at \in {"check", "raised"} /\ part' = part
    BY <1>9, RangeRefusedDoes, Zenon DEF RangeRefused
  <2> QED
    BY <1>3, <2>1 DEF Waiting
<1>10. CASE ConnectionLost(t, f)
  <2>1. FALSE
    BY <1>10 DEF ConnectionLost, Trouble, Types
  <2> QED
    BY <2>1
<1>11. ASSUME WriteChunk(t, f) \/ WriteEnds(t, f) \/ Hash(t, f) \/ RemovePartial(t, f) \/ Rename(t, f)
       PROVE  FALSE
  BY <1>2, <1>11, Zenon DEF WriteChunk, WriteEnds, Hash, RemovePartial, Rename, At, Waiting
<1> QED
  BY <1>4, <1>5, <1>6, <1>7, <1>8, <1>9, <1>10, <1>11 DEF Fetch

LEMMA StuckStep ==
  ASSUME Types, Sizes, NEW f \in Files, Stuck(f), Next, troubles' = 0
  PROVE  Stuck(f)'
<1>1. ASSUME NEW t \in 1 .. MaxTasks, NEW h \in Files, Fetch(t, h) PROVE Stuck(f)'
  <2>1. CASE h = f
    BY <1>1, <2>1, StuckFetch
  <2>2. CASE h # f
    <3>1. part'[f] = part[f] /\ \A u \in 1 .. MaxTasks : fetch'[u][f] = fetch[u][f]
      BY <1>1, <2>2, FetchDoes, Zenon DEF Local
    <3> QED
      BY <3>1 DEF Stuck
  <2> QED
    BY <2>1, <2>2
<1>2. ASSUME DownloadShard PROVE Stuck(f)'
  <2>1. part' = part
    BY <1>2 DEF DownloadShard
  <2>2. \A u \in 1 .. MaxTasks : fetch'[u][f] = fetch[u][f] \/ fetch'[u][f].at = "check"
    BY <1>2, DownloadShardDoes, FetchConstants
  <2> QED
    BY <2>1, <2>2 DEF Stuck, Waiting
<1>3. ASSUME ShardEnds PROVE Stuck(f)'
  BY <1>3, Zenon DEF ShardEnds, Stuck
<1>4. ASSUME CancelShard PROVE Stuck(f)'
  <2>1. part' = part
    BY <1>4 DEF CancelShard
  <2>2. \A u \in 1 .. MaxTasks : fetch'[u][f] = fetch[u][f] \/ fetch'[u][f].at = "off"
    BY <1>4, CancelShardDoes, FetchConstants
  <2> QED
    BY <2>1, <2>2 DEF Stuck, Waiting
<1>5. ASSUME DeleteModel PROVE FALSE
  BY <1>5 DEF DeleteModel, Trouble, Types
<1> QED
  BY <1>1, <1>2, <1>3, <1>4, <1>5 DEF Next

LEMMA TroublesGrow == ASSUME Types, Next PROVE troubles' \in {troubles, troubles + 1}
<1>1. ASSUME DownloadShard \/ ShardEnds \/ CancelShard \/ DeleteModel PROVE troubles' \in {troubles, troubles + 1}
  BY <1>1 DEF DownloadShard, ShardEnds, CancelShard, DeleteModel, Trouble
<1>2. ASSUME NEW t \in 1 .. MaxTasks, NEW f \in Files, Fetch(t, f) PROVE troubles' \in {troubles, troubles + 1}
  <2>1. ASSUME Check(t, f) \/ Discard(t, f) \/ Stat(t, f) \/ Open(t, f) \/ RangeRefused(t, f) \/ WriteEnds(t, f)
        PROVE  troubles' = troubles
    BY <2>1, Zenon DEF Check, Discard, Stat, Open, RangeRefused, WriteEnds
  <2>2. ASSUME Hash(t, f) \/ RemovePartial(t, f) \/ Rename(t, f) PROVE troubles' = troubles
    BY <2>2, Zenon DEF Hash, RemovePartial, Rename
  <2>3. ASSUME Keep(t, f) \/ ConnectionLost(t, f) PROVE troubles' \in {troubles, troubles + 1}
    BY <2>3, Zenon DEF Keep, ConnectionLost, Trouble
  <2>4. ASSUME WriteChunk(t, f) PROVE troubles' \in {troubles, troubles + 1}
    BY <2>4 DEF WriteChunk, Trouble
  <2> QED
    BY <1>2, <2>1, <2>2, <2>3, <2>4 DEF Fetch
<1> QED
  BY <1>1, <1>2 DEF Next

LEMMA CausedStep == ASSUME Types, Types', Sizes, Attempts >= 2, Caused, [Next]_vars PROVE Caused'
<1>1. CASE UNCHANGED vars
  BY <1>1, Zenon DEF vars, Caused, Stuck, AllSmooth, Alive
<1>2. CASE Next
  <2>1. CASE troubles' > 0
    BY <2>1 DEF Caused
  <2>2. CASE troubles' = 0 /\ AllSmooth
    BY <1>2, <2>2, SmoothStep DEF Caused
  <2>3. ASSUME troubles' = 0, NEW f \in Files, Stuck(f) PROVE Caused'
    BY <1>2, <2>3, StuckStep DEF Caused
  <2>4. troubles > 0 => troubles' > 0
    BY <1>2, TroublesGrow DEF Types
  <2>5. troubles' > 0 \/ troubles' = 0
    BY DEF Types
  <2> QED
    BY <2>1, <2>2, <2>3, <2>4, <2>5 DEF Caused
<1> QED
  BY <1>1, <1>2

LEMMA CausedInit == ASSUME Init PROVE Caused
<1>1. \A t \in 1 .. MaxTasks, f \in Files : fetch[t][f].at = "off" /\ fetch[t][f].attempt = 0
  BY FetchConstants DEF Init
<1>2. AllSmooth
  BY <1>1, Zenon DEF Init, AllSmooth, Smooth, Alive
<1> QED
  BY <1>2 DEF Caused

\* A download of a model fails only after a lost connection, a bad chunk or a deletion, or
\* because of a partial file that is too long, also next to strays: download_shard and
\* download_file_with_retry find out what is wrong with a leftover and fetch it again, for any
\* number of files, chunks and shard tasks and two attempts or more.
THEOREM FailureCaused == ASSUME Sizes, Attempts >= 2 PROVE Spec => []FailureHasCause
<1>1. Init => Types /\ Caused
  BY TypesInit, CausedInit
<1>2. Types /\ Caused /\ [Next]_vars => Types' /\ Caused'
  BY TypesStep, CausedStep, SMTT(30)
<1>3. Caused => FailureHasCause
  BY Zenon DEF Caused, Stuck, AllSmooth, FailureHasCause
<1> QED
  BY <1>1, <1>2, <1>3, PTL DEF Spec
=============================================================================
