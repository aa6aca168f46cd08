-------------------------- MODULE SettlementProofs --------------------------
(***************************************************************************)
(* Proof that money moves only with a quorum, for any nodes and bonds, any *)
(* number of threads and any losses, refusals, lost forks and crashes.     *)
(*                                                                         *)
(* What PaidWithQuorum rests on is spread over files, memory and messages. *)
(* A validator's "yes" at another node is one it has in its own file,      *)
(* because an answer reaches only the thread that waits for that           *)
(* validator; a "yes" in a validator's own file stays there; and whatever  *)
(* a thread carries from one step to the next -- a settlement it has read, *)
(* a chain that came with an answer, its place in an application -- was    *)
(* only come by with a quorum.                                             *)
(***************************************************************************)
EXTENDS Settlement, TLAPS

Envelopes == {"none", "signed", "stale", "unsigned"}
Statuses == {"none", "pending", "finalized", "rejected", "applied"}
Votes == {"none", "yes", "no", "retry"}
Payouts == {"none", "pending", "credited", "external"}
Operations == {"none", "job", "repair", "handle"}
Settlements == [status : Statuses, applied : BOOLEAN, committee : BOOLEAN, audited : BOOLEAN, envelope : Envelopes]

\* Steps that are only reached with a quorum, steps a call returns to, steps of a handler.
PaidSteps == {"mark", "credit", "paid", "entries"}
Returns == {"idle", "reset", "local", "request", "jail", "reply", "merge", "settle", "reconcile"}
HandlerSteps == PaidSteps \cup {"import", "attest", "refresh", "save", "apply", "reply"}
Steps == Returns \cup HandlerSteps \cup
         {"payouts", "audit", "sign", "ensure", "resetsave", "prepare", "decide", "next", "wait", "tail", "reconciled", "record"}

Callers == {<<>>} \cup (Nodes \X Threads)
Frames == [op : Operations, pc : Steps, ret : Returns, snap : Settlements, pay : Payouts, who : Nodes,
           dec : Votes, todo : SUBSET Committee, proposal : Envelopes, from : Callers, carry : BOOLEAN]
Calls == [from : Callers, to : Committee, envelope : Envelopes]

Files ==
    /\ st \in [Nodes -> Settlements]
    /\ att \in [Nodes -> [Committee -> Votes]]
    /\ ledger \in [Nodes -> Nat] /\ credits \in Nat
    /\ chain \in [Nodes -> BOOLEAN]
    /\ able \in [Nodes -> {"off", "yes", "no", "jailed"}]
    /\ \A n \in Nodes : Enabled(n) => n \in Committee

Types ==
    /\ Files
    /\ th \in [Nodes -> [Threads -> Frames]]
    /\ calls \subseteq Calls

\* A settlement that a quorum has decided.
Passed(r) == r.status \in {"finalized", "applied"} \/ r.applied

Paid == credits > 0 \/ \E n \in Nodes : ledger[n] > 0 \/ chain[n] \/ Passed(st[n])

\* The validators that have accepted the settlement in their own file.
Own == {v \in Committee : att[v][v] = "yes"}

\* Others have a validator's acceptance only if it has it itself.
Echoes == \A n \in Nodes, v \in Committee : att[n][v] = "yes" => v \in Own

\* What thread r of n may be doing.
Serves(n, r) ==
    IF r.op = "handle"
    THEN /\ n \in Committee /\ r.pc \in HandlerSteps
         /\ r.pc \notin {"reply", "import"} => r.ret = "reply" /\ r.who = n
    ELSE r.from = <<>> /\ r.pc # "import"
Believes(n, r, own) ==
    /\ r.pc = "attest" => r.who \in Committee
    /\ r.pc = "attest" /\ r.dec = "yes" /\ r.who # n => r.who \in own
    /\ r.op = "handle" /\ r.pc # "attest" /\ r.dec = "yes" => n \in own
Carries(r) == Passed(r.snap) \/ r.carry \/ r.pc \in PaidSteps
Frame(n, r, own, quorum) == Serves(n, r) /\ Believes(n, r, own) /\ (Carries(r) => quorum)

\* Whoever is served waits for the node that serves it, and is served once.
Waits(f, v, g) == f \in Nodes \X Threads /\ g[f[1]][f[2]].pc = "wait" /\ g[f[1]][f[2]].who = v
Linked(K, g) ==
    /\ \A c \in K : c.from # <<>> => Waits(c.from, c.to, g)
    /\ \A m \in Nodes, u \in Threads : g[m][u].from # <<>> => Waits(g[m][u].from, m, g)
    /\ \A c, d \in K : c.from = d.from /\ c.from # <<>> => c = d
    /\ \A c \in K, m \in Nodes, u \in Threads : c.from = g[m][u].from => c.from = <<>>
    /\ \A m, k \in Nodes, u, w \in Threads :
        g[m][u].from = g[k][w].from /\ g[m][u].from # <<>> => m = k /\ u = w

IInv ==
    /\ Types
    /\ Echoes
    /\ Paid => Quorum
    /\ \A n \in Nodes, t \in Threads : Frame(n, th[n][t], Own, Quorum)
    /\ Linked(calls, th)

-----------------------------------------------------------------------------
LEMMA IdleFields ==
  /\ NoRecord \in Settlements /\ ~Passed(NoRecord)
  /\ Idle \in Frames
  /\ Idle.op = "none" /\ Idle.pc = "idle" /\ Idle.dec = "none"
  /\ Idle.snap = NoRecord /\ Idle.carry = FALSE /\ Idle.from = <<>>
<1>1. NoRecord \in Settlements /\ ~Passed(NoRecord)
  BY DEF NoRecord, Settlements, Statuses, Envelopes, Passed
<1>2. Idle \in Frames
  BY <1>1, SettlementAssumption DEF Idle, Frames, Operations, Payouts, Steps, Envelopes, Votes, Returns, Callers
<1>3. /\ Idle.op = "none" /\ Idle.pc = "idle" /\ Idle.dec = "none"
      /\ Idle.snap = NoRecord /\ Idle.carry = FALSE /\ Idle.from = <<>>
  BY DEF Idle
<1> QED
  BY <1>1, <1>2, <1>3

LEMMA IdleFrame ==
  ASSUME NEW n, NEW own, NEW quorum
  PROVE  Frame(n, Idle, own, quorum)
  BY IdleFields DEF Frame, Serves, Believes, Carries, PaidSteps

\* A frame that goes on to another step, alone, with a state of the payouts or with a vote.
LEMMA FrameGoes ==
  /\ \A g \in Frames, s \in Steps : [g EXCEPT !.pc = s] \in Frames
  /\ \A g \in Frames, s \in Steps, p \in Payouts : [g EXCEPT !.pc = s, !.pay = p] \in Frames
  /\ \A g \in Frames, s \in Steps, v \in Votes : [g EXCEPT !.pc = s, !.dec = v] \in Frames
<1>1. ASSUME NEW g \in Frames, NEW s \in Steps PROVE [g EXCEPT !.pc = s] \in Frames
  BY DEF Frames
<1>2. ASSUME NEW g \in Frames, NEW s \in Steps, NEW p \in Payouts
      PROVE  [g EXCEPT !.pc = s, !.pay = p] \in Frames
  BY Zenon DEF Frames
<1>3. ASSUME NEW g \in Frames, NEW s \in Steps, NEW v \in Votes
      PROVE  [g EXCEPT !.pc = s, !.dec = v] \in Frames
  BY Zenon DEF Frames
<1> QED
  BY <1>1, <1>2, <1>3, Zenon

LEMMA InitIInv == Init => IInv
<1> SUFFICES ASSUME Init PROVE IInv
  OBVIOUS
<1> USE DEF Init
<1>1. Types
  BY IdleFields, SettlementAssumption DEF Types, Files, Enabled, Votes, Committee
<1>2. Echoes
  BY SettlementAssumption DEF Echoes, Committee
<1>3. ~Paid
  BY IdleFields DEF Paid
<1>4. \A n \in Nodes, t \in Threads : Frame(n, th[n][t], Own, Quorum)
  BY IdleFrame
<1>5. Linked(calls, th)
  BY IdleFields DEF Linked
<1> QED
  BY <1>1, <1>2, <1>3, <1>4, <1>5 DEF IInv

-----------------------------------------------------------------------------
(***************************************************************************)
(* Acceptances stay, and with them what rests on them.                     *)
(***************************************************************************)
LEMMA QuorumStays ==
  ASSUME Quorum, Own \subseteq Own'
  PROVE  Quorum'
  BY DEF Quorum, Own

LEMMA SameVotes ==
  ASSUME att' = att
  PROVE  Own' = Own /\ Quorum' = Quorum
  BY DEF Own, Quorum

\* A settlement is finalized where accepting attestations of enough bond are on file.
LEMMA FinalityNeedsQuorum ==
  ASSUME Types, Echoes, NEW n \in Nodes
  PROVE  /\ Finality(n) \in Statuses
         /\ Finality(n) \in {"finalized", "applied"} => Quorum
<1>1. Finality(n) \in Statuses
  BY DEF Finality, Statuses
<1>2. ASSUME Finality(n) \in {"finalized", "applied"} PROVE Quorum
  <2>1. BondOf(Accepting(n)) >= QuorumBond
    BY <1>2 DEF Finality
  <2>2. Accepting(n) \in SUBSET Committee /\ \A v \in Accepting(n) : att[v][v] = "yes"
    BY DEF Accepting, Echoes, Own
  <2> QED
    BY <2>1, <2>2 DEF Quorum
<1> QED
  BY <1>1, <1>2

LEMMA FrameStays ==
  ASSUME NEW n, NEW r, NEW own, NEW quorum, NEW own2, NEW quorum2,
         Frame(n, r, own, quorum), own \subseteq own2, quorum => quorum2
  PROVE  Frame(n, r, own2, quorum2)
  BY DEF Frame, Believes

\* A thread that is not waited for goes on.
LEMMA LinkedPut ==
  ASSUME NEW g \in [Nodes -> [Threads -> Frames]], NEW K \in SUBSET Calls, Linked(K, g),
         NEW n \in Nodes, NEW t \in Threads, NEW r \in Frames,
         g[n][t].pc # "wait", r.from = <<>> \/ r.from = g[n][t].from
  PROVE  Linked(K, [g EXCEPT ![n][t] = r])
<1> DEFINE h == [g EXCEPT ![n][t] = r]
<1>1. \A m \in Nodes, u \in Threads : h[m][u] = IF m = n /\ u = t THEN r ELSE g[m][u]
  OBVIOUS
<1>2. \A f, v : Waits(f, v, g) => Waits(f, v, h)
  BY <1>1 DEF Waits
<1>3. \A m \in Nodes, u \in Threads : h[m][u].from # <<>> => h[m][u].from = g[m][u].from
  BY <1>1
<1>4. Linked(K, h)
  <2> HIDE DEF h
  <2> QED
    BY <1>2, <1>3 DEF Linked
<1> QED
  BY <1>4

\* One thread goes on.
LEMMA ThreadStep ==
  ASSUME IInv, NEW n \in Nodes, NEW t \in Threads, NEW r \in Frames,
         th' = [th EXCEPT ![n][t] = r], calls' = calls,
         th[n][t].pc # "wait", r.from = <<>> \/ r.from = th[n][t].from,
         Own \subseteq Own', Frame(n, r, Own', Quorum'),
         Files', Echoes', Paid' => Quorum'
  PROVE  IInv'
<1>1. th \in [Nodes -> [Threads -> Frames]] /\ calls \in SUBSET Calls /\ Linked(calls, th)
  BY DEF IInv, Types
<1>2. th' \in [Nodes -> [Threads -> Frames]]
  BY <1>1
<1>3. Linked(calls', th')
  BY <1>1, LinkedPut, Zenon
<1>4. Quorum => Quorum'
  BY QuorumStays
<1>5. ASSUME NEW m \in Nodes, NEW u \in Threads PROVE Frame(m, th'[m][u], Own', Quorum')
  <2>1. Frame(m, th[m][u], Own, Quorum)
    BY DEF IInv
  <2>2. Frame(m, th[m][u], Own', Quorum')
    BY <1>4, <2>1, FrameStays
  <2>3. th'[m][u] = IF m = n /\ u = t THEN r ELSE th[m][u]
    BY <1>1
  <2> QED
    BY <2>2, <2>3
<1> QED
  BY <1>1, <1>2, <1>3, <1>5 DEF IInv, Types

\* One thread goes on and writes nothing, or the payout record.
LEMMA QuietStep ==
  ASSUME IInv, NEW n \in Nodes, NEW t \in Threads, NEW r \in Frames,
         th' = [th EXCEPT ![n][t] = r], UNCHANGED <<st, att, ledger, credits, chain, able, calls>>,
         th[n][t].pc # "wait", r.from = <<>> \/ r.from = th[n][t].from,
         Frame(n, r, Own, Quorum)
  PROVE  IInv'
<1>1. Own' = Own /\ Quorum' = Quorum
  BY SameVotes
<1>2. Files' /\ Echoes' /\ (Paid' => Quorum')
  BY <1>1 DEF IInv, Types, Files, Enabled, Echoes, Paid
<1> QED
  BY <1>1, <1>2, ThreadStep, Zenon

\* One thread goes on and writes the settlement.
LEMMA RecordStep ==
  ASSUME IInv, NEW n \in Nodes, NEW t \in Threads, NEW r \in Frames, NEW x \in Settlements,
         th' = [th EXCEPT ![n][t] = r], st' = [st EXCEPT ![n] = x],
         UNCHANGED <<att, ledger, credits, chain, able, calls>>,
         th[n][t].pc # "wait", r.from = <<>> \/ r.from = th[n][t].from,
         Frame(n, r, Own, Quorum), Passed(x) => Quorum
  PROVE  IInv'
<1>1. Own' = Own /\ Quorum' = Quorum
  BY SameVotes
<1>2. Files'
  BY DEF IInv, Types, Files, Enabled
<1>3. Echoes'
  BY <1>1 DEF IInv, Echoes
<1>4. Paid' => Quorum'
  <2>1. st \in [Nodes -> Settlements]
    BY DEF IInv, Types, Files
  <2>2. \A m \in Nodes : Passed(st'[m]) => Quorum
    BY <2>1 DEF IInv, Paid
  <2> QED
    BY <1>1, <2>2 DEF IInv, Paid
<1> QED
  BY <1>1, <1>2, <1>3, <1>4, ThreadStep, Zenon

\* One thread goes on and moves money, with a quorum.
LEMMA PayStep ==
  ASSUME IInv, NEW n \in Nodes, NEW t \in Threads, NEW r \in Frames,
         th' = [th EXCEPT ![n][t] = r], UNCHANGED <<att, able, calls>>,
         st' \in [Nodes -> Settlements], ledger' \in [Nodes -> Nat], credits' \in Nat, chain' \in [Nodes -> BOOLEAN],
         th[n][t].pc # "wait", r.from = <<>> \/ r.from = th[n][t].from,
         Frame(n, r, Own, Quorum), Quorum
  PROVE  IInv'
<1>1. Own' = Own /\ Quorum' = Quorum
  BY SameVotes
<1>2. Files'
  BY Zenon DEF IInv, Types, Files, Enabled
<1>3. Echoes'
  BY <1>1 DEF IInv, Echoes
<1> QED
  BY <1>1, <1>2, <1>3, ThreadStep, Zenon

LEMMA FrameOf ==
  ASSUME IInv, NEW n \in Nodes, NEW t \in Threads
  PROVE  /\ th[n][t] \in Frames /\ Frame(n, th[n][t], Own, Quorum)
         /\ st[n] \in Settlements /\ (Passed(st[n]) => Quorum)
<1>1. st[n] \in Settlements /\ th[n][t] \in Frames
  BY DEF IInv, Types, Files
<1>2. Passed(st[n]) => Quorum
  BY DEF IInv, Paid
<1> QED
  BY <1>1, <1>2 DEF IInv

-----------------------------------------------------------------------------
(***************************************************************************)
(* Steps that write nothing: the frame of the thread stays sound.          *)
(***************************************************************************)
LEMMA PrepareKeeps ==
  ASSUME IInv, NEW n \in Nodes, NEW t \in Threads, Prepare(n, t)
  PROVE  IInv'
<1> DEFINE f == th[n][t]
           r == IF /\ st[n].status = "pending" /\ st[n].committee /\ ~Ready(n)
                 /\ st[n].audited /\ payout[n] # "none"
              THEN [f EXCEPT !.pc = "sign", !.ret = "local"] ELSE [f EXCEPT !.pc = "local"]
<1>1. f \in Frames /\ Frame(n, f, Own, Quorum)
  BY FrameOf
<1>2. th' = [th EXCEPT ![n][t] = r] /\ f.pc = "prepare" /\ UNCHANGED <<st, att, ledger, credits, chain, able, calls>>
  BY DEF Prepare, At, Put, Goto, files
<1>3. r \in Frames
  BY <1>1, ZenonT(30) DEF Frames, Steps, Returns, HandlerSteps, PaidSteps
<1>4. Frame(n, r, Own, Quorum) /\ r.from \in {<<>>, f.from}
  BY <1>1, <1>2 DEF Frame, Serves, Believes, Carries, HandlerSteps, PaidSteps
<1> QED
  BY <1>1, <1>2, <1>3, <1>4, QuietStep, Zenon

LEMMA RepairLocalKeeps ==
  ASSUME IInv, NEW n \in Nodes, NEW t \in Threads, RepairLocal(n, t)
  PROVE  IInv'
<1> DEFINE f == th[n][t]
           r == [f EXCEPT !.pc = IF Attestable(n) /\ able[n] = "yes" THEN "decide" ELSE "request"]
<1>1. f \in Frames /\ Frame(n, f, Own, Quorum)
  BY FrameOf
<1>2. th' = [th EXCEPT ![n][t] = r] /\ f.pc = "local" /\ UNCHANGED <<st, att, ledger, credits, chain, able, calls>>
  BY DEF RepairLocal, At, Put, Goto, files
<1>3. r \in Frames
  BY <1>1 DEF Frames, Steps, Returns, HandlerSteps, PaidSteps
<1>4. Frame(n, r, Own, Quorum) /\ r.from \in {<<>>, f.from}
  BY <1>1, <1>2 DEF Frame, Serves, Believes, Carries, HandlerSteps, PaidSteps
<1> QED
  BY <1>1, <1>2, <1>3, <1>4, QuietStep, Zenon

LEMMA StartRepairKeeps ==
  ASSUME IInv, NEW n \in Nodes, NEW t \in Threads, StartRepair(n, t)
  PROVE  IInv'
<1> DEFINE f == th[n][t]
           r == [Idle EXCEPT !.op = "repair", !.pc = "ensure"]
<1>1. f \in Frames /\ Frame(n, f, Own, Quorum)
  BY FrameOf
<1>2. th' = [th EXCEPT ![n][t] = r] /\ f.pc = "idle" /\ UNCHANGED <<st, att, ledger, credits, chain, able, calls>>
  BY DEF StartRepair, At, Put, Goto, files
<1>3. r \in Frames
  BY <1>1, IdleFields, IdleFrame, ZenonT(30) DEF Frames, Steps, Returns, HandlerSteps, PaidSteps, Operations
<1>4. Frame(n, r, Own, Quorum) /\ r.from \in {<<>>, f.from}
  BY <1>1, <1>2, IdleFields, IdleFrame DEF Frame, Serves, Believes, Carries, HandlerSteps, PaidSteps
<1> QED
  BY <1>1, <1>2, <1>3, <1>4, QuietStep, Zenon

LEMMA DecideLocallyKeeps ==
  ASSUME IInv, NEW n \in Nodes, NEW t \in Threads, DecideLocally(n, t)
  PROVE  IInv'
<1> DEFINE f == th[n][t]
           r == IF Enabled(n)
              THEN [f EXCEPT !.pc = "attest", !.who = n, !.dec = able[n],
                             !.ret = IF able[n] = "yes" THEN "request" ELSE "jail"]
              ELSE [f EXCEPT !.pc = "request"]
<1>1. f \in Frames /\ Frame(n, f, Own, Quorum)
  BY FrameOf
<1>2. th' = [th EXCEPT ![n][t] = r] /\ f.pc = "decide" /\ UNCHANGED <<st, att, ledger, credits, chain, able, calls>>
  BY DEF DecideLocally, At, Put, Goto, files
<1>n. Enabled(n) => n \in Committee /\ able[n] \in Votes
  BY DEF IInv, Types, Files, Enabled, Votes
<1>3. r \in Frames
  BY <1>1, <1>n, ZenonT(30) DEF Frames, Steps, Returns, HandlerSteps, PaidSteps, Votes
<1>4. Frame(n, r, Own, Quorum) /\ r.from \in {<<>>, f.from}
  BY <1>1, <1>2, <1>n DEF Frame, Serves, Believes, Carries, HandlerSteps, PaidSteps
<1> QED
  BY <1>1, <1>2, <1>3, <1>4, QuietStep, Zenon

LEMMA RefreshKeeps ==
  ASSUME IInv, NEW n \in Nodes, NEW t \in Threads, Refresh(n, t)
  PROVE  IInv'
<1> DEFINE f == th[n][t]
           r == [f EXCEPT !.pc = "save", !.snap = [st[n] EXCEPT !.status = Finality(n)]]
<1>1. f \in Frames /\ Frame(n, f, Own, Quorum)
  BY FrameOf
<1>2. th' = [th EXCEPT ![n][t] = r] /\ f.pc = "refresh" /\ UNCHANGED <<st, att, ledger, credits, chain, able, calls>>
  BY DEF Refresh, At, Put, Goto, files
<1>n. /\ [st[n] EXCEPT !.status = Finality(n)] \in Settlements
      /\ Passed([st[n] EXCEPT !.status = Finality(n)]) => Quorum
  <2>1. st[n] \in Settlements /\ (Passed(st[n]) => Quorum)
    BY DEF IInv, Types, Files, Paid
  <2>2. Finality(n) \in Statuses /\ (Finality(n) \in {"finalized", "applied"} => Quorum)
    BY FinalityNeedsQuorum DEF IInv
  <2> QED
    BY <2>1, <2>2 DEF Settlements, Passed
<1>3. r \in Frames
  BY <1>1, <1>n, Zenon DEF Frames, Steps, Returns, HandlerSteps, PaidSteps
<1>4. Frame(n, r, Own, Quorum) /\ r.from \in {<<>>, f.from}
  BY <1>1, <1>2, <1>n DEF Frame, Serves, Believes, Carries, HandlerSteps, PaidSteps
<1> QED
  BY <1>1, <1>2, <1>3, <1>4, QuietStep, Zenon

LEMMA TailKeeps ==
  ASSUME IInv, NEW n \in Nodes, NEW t \in Threads, Tail(n, t)
  PROVE  IInv'
<1> DEFINE f == th[n][t]
           r == IF st[n].status = "finalized" /\ (chain[n] \/ (f.op = "repair" /\ Enabled(n)))
              THEN [f EXCEPT !.pc = "apply", !.ret = Settling(f), !.who = n]
              ELSE [f EXCEPT !.pc = Settling(f)]
<1>1. f \in Frames /\ Frame(n, f, Own, Quorum)
  BY FrameOf
<1>2. th' = [th EXCEPT ![n][t] = r] /\ f.pc = "tail" /\ UNCHANGED <<st, att, ledger, credits, chain, able, calls>>
  BY DEF Tail, At, Put, Goto, files
<1>n. Settling(f) \in {"settle", "reconcile"}
  BY DEF Settling
<1>3. r \in Frames
  BY <1>1, <1>n, ZenonT(30) DEF Frames, Steps, Returns, HandlerSteps, PaidSteps
<1>4. Frame(n, r, Own, Quorum) /\ r.from \in {<<>>, f.from}
  BY <1>1, <1>2, <1>n DEF Frame, Serves, Believes, Carries, HandlerSteps, PaidSteps
<1> QED
  BY <1>1, <1>2, <1>3, <1>4, QuietStep, Zenon

LEMMA JobSettlesKeeps ==
  ASSUME IInv, NEW n \in Nodes, NEW t \in Threads, JobSettles(n, t)
  PROVE  IInv'
<1> DEFINE f == th[n][t]
           r == IF st[n].status = "applied" THEN [f EXCEPT !.pc = "reconcile"] ELSE Idle
<1>1. f \in Frames /\ Frame(n, f, Own, Quorum)
  BY FrameOf
<1>2. th' = [th EXCEPT ![n][t] = r] /\ f.pc = "settle" /\ UNCHANGED <<st, att, ledger, credits, chain, able, calls>>
  BY DEF JobSettles, At, Put, Goto, files
<1>3. r \in Frames
  BY <1>1, IdleFields, IdleFrame DEF Frames, Steps, Returns, HandlerSteps, PaidSteps
<1>4. Frame(n, r, Own, Quorum) /\ r.from \in {<<>>, f.from}
  BY <1>1, <1>2, IdleFields, IdleFrame DEF Frame, Serves, Believes, Carries, HandlerSteps, PaidSteps
<1> QED
  BY <1>1, <1>2, <1>3, <1>4, QuietStep, Zenon

LEMMA RequestKeeps ==
  ASSUME IInv, NEW n \in Nodes, NEW t \in Threads, Request(n, t)
  PROVE  IInv'
<1> DEFINE f == th[n][t]
           r == IF IF f.op = "job" THEN st[n].committee ELSE Attestable(n)
              THEN [f EXCEPT !.pc = "next", !.proposal = st[n].envelope, !.todo = Committee \ {n}]
              ELSE [f EXCEPT !.pc = "tail"]
<1>1. f \in Frames /\ Frame(n, f, Own, Quorum)
  BY FrameOf
<1>2. th' = [th EXCEPT ![n][t] = r] /\ f.pc = "request" /\ UNCHANGED <<st, att, ledger, credits, chain, able, calls>>
  BY DEF Request, At, Put, Goto, files
<1>n. st[n].envelope \in Envelopes
  BY DEF IInv, Types, Files, Settlements
<1>3. r \in Frames
  BY <1>1, <1>n, ZenonT(30) DEF Frames, Steps, Returns, HandlerSteps, PaidSteps
<1>4. Frame(n, r, Own, Quorum) /\ r.from \in {<<>>, f.from}
  BY <1>1, <1>2, <1>n DEF Frame, Serves, Believes, Carries, HandlerSteps, PaidSteps
<1> QED
  BY <1>1, <1>2, <1>3, <1>4, QuietStep, Zenon

-----------------------------------------------------------------------------
(***************************************************************************)
(* Steps that write the settlement or the payout record.                   *)
(***************************************************************************)
LEMMA RecordWorkerPayoutsKeeps ==
  ASSUME IInv, NEW n \in Nodes, NEW t \in Threads, RecordWorkerPayouts(n, t)
  PROVE  IInv'
<1> DEFINE f == th[n][t]
           r == [f EXCEPT !.pc = "audit"]
           x == [st[n] EXCEPT !.envelope = Outdated(@)]
<1>1. f \in Frames /\ Frame(n, f, Own, Quorum) /\ st[n] \in Settlements /\ (Passed(st[n]) => Quorum)
  BY FrameOf
<1>2. f.pc = "payouts"
  BY DEF RecordWorkerPayouts, At
<1>3. th' = [th EXCEPT ![n][t] = r] /\ st' = [st EXCEPT ![n] = x] /\ UNCHANGED <<att, ledger, credits, chain, able, calls>>
  BY DEF RecordWorkerPayouts, Put, Goto, Record
<1>4. r \in Frames
  BY <1>1 DEF Frames, Steps, Returns, HandlerSteps, PaidSteps
<1>5. Frame(n, r, Own, Quorum) /\ r.from \in {<<>>, f.from}
  BY <1>1, <1>2 DEF Frame, Serves, Believes, Carries, HandlerSteps, PaidSteps
<1>6. x \in Settlements /\ (Passed(x) => Quorum)
  BY <1>1 DEF Settlements, Passed, Statuses, Envelopes, Outdated
<1> QED
  BY <1>2, <1>3, <1>4, <1>5, <1>6, RecordStep, Zenon

LEMMA RecordExecutionAuditKeeps ==
  ASSUME IInv, NEW n \in Nodes, NEW t \in Threads, RecordExecutionAudit(n, t)
  PROVE  IInv'
<1> DEFINE f == th[n][t]
           r == [f EXCEPT !.pc = "sign"]
           x == [st[n] EXCEPT !.audited = TRUE, !.envelope = Outdated(@)]
<1>1. f \in Frames /\ Frame(n, f, Own, Quorum) /\ st[n] \in Settlements /\ (Passed(st[n]) => Quorum)
  BY FrameOf
<1>2. f.pc = "audit"
  BY DEF RecordExecutionAudit, At
<1>3. th' = [th EXCEPT ![n][t] = r] /\ st' = [st EXCEPT ![n] = x] /\ UNCHANGED <<att, ledger, credits, chain, able, calls>>
  BY DEF RecordExecutionAudit, Put, Goto, Record
<1>4. r \in Frames
  BY <1>1 DEF Frames, Steps, Returns, HandlerSteps, PaidSteps
<1>5. Frame(n, r, Own, Quorum) /\ r.from \in {<<>>, f.from}
  BY <1>1, <1>2 DEF Frame, Serves, Believes, Carries, HandlerSteps, PaidSteps
<1>6. x \in Settlements /\ (Passed(x) => Quorum)
  BY <1>1, Zenon DEF Settlements, Passed, Statuses, Envelopes, Outdated
<1> QED
  BY <1>2, <1>3, <1>4, <1>5, <1>6, RecordStep, Zenon

LEMMA ResetSaveKeeps ==
  ASSUME IInv, NEW n \in Nodes, NEW t \in Threads, ResetSave(n, t)
  PROVE  IInv'
<1> DEFINE f == th[n][t]
           r == [f EXCEPT !.pc = "prepare"]
           x == [st[n] EXCEPT !.status = "pending", !.applied = FALSE]
<1>1. f \in Frames /\ Frame(n, f, Own, Quorum) /\ st[n] \in Settlements /\ (Passed(st[n]) => Quorum)
  BY FrameOf
<1>2. f.pc = "resetsave"
  BY DEF ResetSave, At
<1>3. th' = [th EXCEPT ![n][t] = r] /\ st' = [st EXCEPT ![n] = x] /\ UNCHANGED <<att, ledger, credits, chain, able, calls>>
  BY DEF ResetSave, Put, Goto, Record
<1>4. r \in Frames
  BY <1>1 DEF Frames, Steps, Returns, HandlerSteps, PaidSteps
<1>5. Frame(n, r, Own, Quorum) /\ r.from \in {<<>>, f.from}
  BY <1>1, <1>2 DEF Frame, Serves, Believes, Carries, HandlerSteps, PaidSteps
<1>6. x \in Settlements /\ (Passed(x) => Quorum)
  BY <1>1, Zenon DEF Settlements, Passed, Statuses, Envelopes, Outdated
<1> QED
  BY <1>2, <1>3, <1>4, <1>5, <1>6, RecordStep, Zenon

LEMMA MarkAppliedKeeps ==
  ASSUME IInv, NEW n \in Nodes, NEW t \in Threads, MarkApplied(n, t)
  PROVE  IInv'
<1> DEFINE f == th[n][t]
           r == [f EXCEPT !.pc = "credit", !.snap = NoRecord]
           x == [f.snap EXCEPT !.status = "applied", !.applied = TRUE]
<1>1. f \in Frames /\ Frame(n, f, Own, Quorum) /\ st[n] \in Settlements /\ (Passed(st[n]) => Quorum)
  BY FrameOf
<1>2. f.pc = "mark"
  BY DEF MarkApplied, At
<1>3. th' = [th EXCEPT ![n][t] = r] /\ st' = [st EXCEPT ![n] = x] /\ UNCHANGED <<att, ledger, credits, chain, able, calls>>
  BY DEF MarkApplied, Put, Goto, Record
<1>q. f.snap \in Settlements /\ Quorum
  BY <1>1, <1>2 DEF Frames, Frame, Carries, PaidSteps
<1>4. r \in Frames
  BY <1>1, IdleFields, <1>q, ZenonT(30) DEF Frames, Steps, Returns, HandlerSteps, PaidSteps
<1>5. Frame(n, r, Own, Quorum) /\ r.from \in {<<>>, f.from}
  BY <1>1, <1>2, IdleFields, <1>q DEF Frame, Serves, Believes, Carries, HandlerSteps, PaidSteps
<1>6. x \in Settlements /\ (Passed(x) => Quorum)
  BY <1>1, IdleFields, <1>q, Zenon DEF Settlements, Passed, Statuses, Envelopes, Outdated
<1> QED
  BY <1>2, <1>3, <1>4, <1>5, <1>6, RecordStep, Zenon

LEMMA SaveFinalityKeeps ==
  ASSUME IInv, NEW n \in Nodes, NEW t \in Threads, SaveFinality(n, t)
  PROVE  IInv'
<1> DEFINE f == th[n][t]
           r == [f EXCEPT !.snap = NoRecord,
                        !.pc = IF f.who = n /\ f.snap.status = "finalized" THEN "apply" ELSE f.ret]
           x == f.snap
<1>1. f \in Frames /\ Frame(n, f, Own, Quorum) /\ st[n] \in Settlements /\ (Passed(st[n]) => Quorum)
  BY FrameOf
<1>2. f.pc = "save"
  BY DEF SaveFinality, At
<1>3. th' = [th EXCEPT ![n][t] = r] /\ st' = [st EXCEPT ![n] = x] /\ UNCHANGED <<att, ledger, credits, chain, able, calls>>
  BY DEF SaveFinality, Put, Goto, Record
<1>q. f.snap \in Settlements /\ f.ret \in Returns /\ (Passed(f.snap) => Quorum)
  BY <1>1 DEF Frames, Frame, Carries
<1>4. r \in Frames
  BY <1>1, IdleFields, <1>q, ZenonT(30) DEF Frames, Steps, Returns, HandlerSteps, PaidSteps
<1>5. Frame(n, r, Own, Quorum) /\ r.from \in {<<>>, f.from}
  BY <1>1, <1>2, IdleFields, <1>q DEF Returns, Frame, Serves, Believes, Carries, HandlerSteps, PaidSteps
<1>6. x \in Settlements /\ (Passed(x) => Quorum)
  BY <1>1, IdleFields, <1>q, Zenon DEF Settlements, Passed, Statuses, Envelopes, Outdated
<1> QED
  BY <1>2, <1>3, <1>4, <1>5, <1>6, RecordStep, Zenon

LEMMA SignEnvelopeKeeps ==
  ASSUME IInv, NEW n \in Nodes, NEW t \in Threads, SignEnvelope(n, t)
  PROVE  IInv'
<1> DEFINE f == th[n][t]
           r == [f EXCEPT !.pc = IF f.op = "job" THEN "decide" ELSE f.ret]
<1>1. f \in Frames /\ Frame(n, f, Own, Quorum) /\ st[n] \in Settlements /\ (Passed(st[n]) => Quorum)
  BY FrameOf
<1>2. f.pc = "sign"
  BY DEF SignEnvelope, At
<1>3. PICK e \in {"signed", "unsigned"} : st' = [st EXCEPT ![n] = [st[n] EXCEPT !.envelope = e]]
  BY DEF SignEnvelope, Record
<1> DEFINE x == [st[n] EXCEPT !.envelope = e]
<1>q. th' = [th EXCEPT ![n][t] = r] /\ UNCHANGED <<att, ledger, credits, chain, able, calls>>
  BY DEF SignEnvelope, Goto, Put
<1>4. r \in Frames
  BY <1>1, ZenonT(30) DEF Frames, Steps, Returns, HandlerSteps, PaidSteps
<1>5. Frame(n, r, Own, Quorum) /\ r.from \in {<<>>, f.from}
  BY <1>1, <1>2, Zenon DEF Frames, Returns, Frame, Serves, Believes, Carries, HandlerSteps, PaidSteps
<1>6. x \in Settlements /\ (Passed(x) => Quorum)
  BY <1>1 DEF Settlements, Passed, Envelopes
<1> QED
  BY <1>2, <1>3, <1>q, <1>4, <1>5, <1>6, RecordStep, Zenon

LEMMA EnsureCommitteeKeeps ==
  ASSUME IInv, NEW n \in Nodes, NEW t \in Threads, EnsureCommittee(n, t)
  PROVE  IInv'
<1> DEFINE f == th[n][t]
           r == IF st[n].committee THEN [f EXCEPT !.pc = "reset"] ELSE [f EXCEPT !.pc = "sign", !.ret = "reset"]
           x == [st[n] EXCEPT !.committee = TRUE, !.envelope = Outdated(@)]
<1>1. f \in Frames /\ Frame(n, f, Own, Quorum) /\ st[n] \in Settlements /\ (Passed(st[n]) => Quorum)
  BY FrameOf
<1>2. f.pc = "ensure"
  BY DEF EnsureCommittee, At
<1>3. th' = [th EXCEPT ![n][t] = r] /\ UNCHANGED <<att, ledger, credits, chain, able, calls>>
  BY DEF EnsureCommittee, Put, Goto
<1>q. st' = st \/ st' = [st EXCEPT ![n] = x]
  BY DEF EnsureCommittee, Record
<1>4. r \in Frames
  BY <1>1, ZenonT(30) DEF Frames, Steps, Returns, HandlerSteps, PaidSteps
<1>5. Frame(n, r, Own, Quorum) /\ r.from \in {<<>>, f.from}
  BY <1>1, <1>2 DEF Frame, Serves, Believes, Carries, HandlerSteps, PaidSteps
<1>6. x \in Settlements /\ (Passed(x) => Quorum)
  BY <1>1, Zenon DEF Settlements, Passed, Envelopes, Outdated
<1>7. CASE st' = st
  BY <1>2, <1>3, <1>4, <1>5, <1>7, QuietStep, Zenon
<1>8. CASE st' = [st EXCEPT ![n] = x]
  BY <1>2, <1>3, <1>4, <1>5, <1>6, <1>8, RecordStep, Zenon
<1> QED
  BY <1>q, <1>7, <1>8

LEMMA SavePayoutKeeps ==
  ASSUME IInv, NEW n \in Nodes, NEW t \in Threads, SavePayout(n, t)
  PROVE  IInv'
<1> DEFINE f == th[n][t]
           r == [f EXCEPT !.pc = "entries", !.pay = "none"]
<1>1. f \in Frames /\ Frame(n, f, Own, Quorum) /\ st[n] \in Settlements /\ (Passed(st[n]) => Quorum)
  BY FrameOf
<1>2. f.pc = "paid"
  BY DEF SavePayout, At
<1>3. th' = [th EXCEPT ![n][t] = r] /\ UNCHANGED <<st, att, ledger, credits, chain, able, calls>>
  BY DEF SavePayout, Put, Goto
<1>4. r \in Frames
  BY <1>1, ZenonT(30) DEF Frames, Steps, Returns, HandlerSteps, PaidSteps, Payouts
<1>5. Frame(n, r, Own, Quorum) /\ r.from \in {<<>>, f.from}
  BY <1>1, <1>2 DEF Frame, Serves, Believes, Carries, HandlerSteps, PaidSteps
<1> QED
  BY <1>2, <1>3, <1>4, <1>5, QuietStep, Zenon

LEMMA ReconciledKeeps ==
  ASSUME IInv, NEW n \in Nodes, NEW t \in Threads, Reconciled(n, t)
  PROVE  IInv'
<1> DEFINE f == th[n][t]
           r == [f EXCEPT !.pc = "record"]
<1>1. f \in Frames /\ Frame(n, f, Own, Quorum) /\ st[n] \in Settlements /\ (Passed(st[n]) => Quorum)
  BY FrameOf
<1>2. f.pc = "reconciled"
  BY DEF Reconciled, At
<1>3. th' = [th EXCEPT ![n][t] = r] /\ UNCHANGED <<st, att, ledger, credits, chain, able, calls>>
  BY DEF Reconciled, Put, Goto
<1>4. r \in Frames
  BY <1>1 DEF Frames, Steps, Returns, HandlerSteps, PaidSteps
<1>5. Frame(n, r, Own, Quorum) /\ r.from \in {<<>>, f.from}
  BY <1>1, <1>2 DEF Frame, Serves, Believes, Carries, HandlerSteps, PaidSteps
<1> QED
  BY <1>2, <1>3, <1>4, <1>5, QuietStep, Zenon

LEMMA ImportPayoutsKeeps ==
  ASSUME IInv, NEW n \in Nodes, NEW t \in Threads, ImportPayouts(n, t)
  PROVE  IInv'
<1> DEFINE f == th[n][t]
           r == [f EXCEPT !.pc = "attest", !.who = n, !.dec = "yes", !.ret = "reply"]
<1>1. f \in Frames /\ Frame(n, f, Own, Quorum) /\ st[n] \in Settlements /\ (Passed(st[n]) => Quorum)
  BY FrameOf
<1>2. f.pc = "import"
  BY DEF ImportPayouts, At
<1>3. th' = [th EXCEPT ![n][t] = r] /\ UNCHANGED <<st, att, ledger, credits, chain, able, calls>>
  BY DEF ImportPayouts, Put, Goto
<1>q. f.op = "handle" => n \in Committee
  BY <1>1, <1>2 DEF Frame, Serves
<1>4. r \in Frames
  BY <1>1, <1>q, ZenonT(30) DEF Frames, Steps, Returns, HandlerSteps, PaidSteps, Votes
<1>5. Frame(n, r, Own, Quorum) /\ r.from \in {<<>>, f.from}
  BY <1>1, <1>2, <1>q DEF Frame, Serves, Believes, Carries, HandlerSteps, PaidSteps
<1> QED
  BY <1>2, <1>3, <1>4, <1>5, QuietStep, Zenon

-----------------------------------------------------------------------------
(***************************************************************************)
(* Steps that move money: there is a quorum.                               *)
(***************************************************************************)
LEMMA CreditWorkerKeeps ==
  ASSUME IInv, NEW n \in Nodes, NEW t \in Threads, CreditWorker(n, t)
  PROVE  IInv'
<1> DEFINE f == th[n][t]
           r == IF payout[n] \in {"none", "credited"} THEN [f EXCEPT !.pc = "entries"]
                ELSE [f EXCEPT !.pc = "paid", !.pay = IF n = Home THEN "credited" ELSE "external"]
<1>1. f \in Frames /\ Frame(n, f, Own, Quorum) /\ st[n] \in Settlements /\ (Passed(st[n]) => Quorum)
  BY FrameOf
<1>2. f.pc = "credit"
  BY DEF CreditWorker, At
<1>3. th' = [th EXCEPT ![n][t] = r] /\ UNCHANGED <<att, able, calls>>
  BY DEF CreditWorker, Put, Goto, Return, Credit
<1>q. Quorum
  BY <1>1, <1>2 DEF Frame, Carries, PaidSteps
<1>4. r \in Frames
  <2>1. "entries" \in Steps /\ "paid" \in Steps /\ "credited" \in Payouts /\ "external" \in Payouts
    BY DEF Steps, HandlerSteps, PaidSteps, Payouts
  <2>2. [f EXCEPT !.pc = "entries"] \in Frames
    BY <1>1, <2>1, FrameGoes, Zenon
  <2>3. (IF n = Home THEN "credited" ELSE "external") \in Payouts
    BY <2>1
  <2>4. [f EXCEPT !.pc = "paid", !.pay = IF n = Home THEN "credited" ELSE "external"] \in Frames
    BY <1>1, <2>1, <2>3, FrameGoes, Zenon
  <2> QED
    BY <2>2, <2>4, Zenon
<1>5. Frame(n, r, Own, Quorum) /\ r.from \in {<<>>, f.from}
  BY <1>1, <1>2, <1>q DEF Frame, Serves, Believes, Carries, HandlerSteps, PaidSteps
<1>m. ledger \in [Nodes -> Nat] /\ credits \in Nat /\ chain \in [Nodes -> BOOLEAN] /\ st \in [Nodes -> Settlements]
  BY DEF IInv, Types, Files
<1>6. st' \in [Nodes -> Settlements] /\ ledger' \in [Nodes -> Nat] /\ credits' \in Nat /\ chain' \in [Nodes -> BOOLEAN]
  BY <1>m DEF CreditWorker, Credit, More
<1> QED
  BY <1>2, <1>3, <1>4, <1>5, <1>6, <1>q, PayStep, Zenon

LEMMA RecordEntriesKeeps ==
  ASSUME IInv, NEW n \in Nodes, NEW t \in Threads, RecordEntries(n, t)
  PROVE  IInv'
<1> DEFINE f == th[n][t]
           r == [f EXCEPT !.pc = f.ret]
<1>1. f \in Frames /\ Frame(n, f, Own, Quorum) /\ st[n] \in Settlements /\ (Passed(st[n]) => Quorum)
  BY FrameOf
<1>2. f.pc = "entries"
  BY DEF RecordEntries, At
<1>3. th' = [th EXCEPT ![n][t] = r] /\ UNCHANGED <<att, able, calls>>
  BY DEF RecordEntries, Put, Goto, Return
<1>q. Quorum
  BY <1>1, <1>2 DEF Frame, Carries, PaidSteps
<1>4. r \in Frames
  BY <1>1, <1>q DEF Frames, Steps, Returns, HandlerSteps, PaidSteps
<1>5. Frame(n, r, Own, Quorum) /\ r.from \in {<<>>, f.from}
  BY <1>1, <1>2, <1>q DEF Frames, Returns, Frame, Serves, Believes, Carries, HandlerSteps, PaidSteps
<1>m. ledger \in [Nodes -> Nat] /\ credits \in Nat /\ chain \in [Nodes -> BOOLEAN] /\ st \in [Nodes -> Settlements]
  BY DEF IInv, Types, Files
<1>6. st' \in [Nodes -> Settlements] /\ ledger' \in [Nodes -> Nat] /\ credits' \in Nat /\ chain' \in [Nodes -> BOOLEAN]
  BY <1>m DEF RecordEntries
<1> QED
  BY <1>2, <1>3, <1>4, <1>5, <1>6, <1>q, PayStep, Zenon

LEMMA MergeChainKeeps ==
  ASSUME IInv, NEW n \in Nodes, NEW t \in Threads, MergeChain(n, t)
  PROVE  IInv'
<1> DEFINE f == th[n][t]
           r == [f EXCEPT !.pc = "next", !.carry = FALSE]
<1>1. f \in Frames /\ Frame(n, f, Own, Quorum) /\ st[n] \in Settlements /\ (Passed(st[n]) => Quorum)
  BY FrameOf
<1>2. f.pc = "merge"
  BY DEF MergeChain, At
<1>3. th' = [th EXCEPT ![n][t] = r] /\ UNCHANGED <<st, att, ledger, credits, able, calls>>
  BY DEF MergeChain, Put, Goto
<1>4. r \in Frames
  BY <1>1, Zenon DEF Frames, Steps, Returns, HandlerSteps, PaidSteps
<1>5. Frame(n, r, Own, Quorum) /\ r.from \in {<<>>, f.from}
  BY <1>1, <1>2 DEF Frame, Serves, Believes, Carries, HandlerSteps, PaidSteps
<1>m. ledger \in [Nodes -> Nat] /\ credits \in Nat /\ chain \in [Nodes -> BOOLEAN] /\ st \in [Nodes -> Settlements]
  BY DEF IInv, Types, Files
<1>6. CASE f.carry
  <2>1. Quorum
    BY <1>1, <1>6 DEF Frame, Carries, Passed
  <2>2. st' \in [Nodes -> Settlements] /\ ledger' \in [Nodes -> Nat] /\ credits' \in Nat /\ chain' \in [Nodes -> BOOLEAN]
    BY <1>3, <1>m DEF MergeChain, More
  <2> QED
    BY <1>2, <1>3, <1>4, <1>5, <2>1, <2>2, PayStep, Zenon
<1>7. CASE ~(f.carry)
  <2>1. chain' = chain
    BY <1>7, <1>m DEF MergeChain
  <2> QED
    BY <1>2, <1>3, <1>4, <1>5, <2>1, QuietStep, Zenon
<1> QED
  BY <1>6, <1>7

LEMMA RecordFinalizedKeeps ==
  ASSUME IInv, NEW n \in Nodes, NEW t \in Threads, RecordFinalized(n, t)
  PROVE  IInv'
<1> DEFINE f == th[n][t]
           r == Idle
<1>1. f \in Frames /\ Frame(n, f, Own, Quorum) /\ st[n] \in Settlements /\ (Passed(st[n]) => Quorum)
  BY FrameOf
<1>2. f.pc = "record"
  BY DEF RecordFinalized, At
<1>3. th' = [th EXCEPT ![n][t] = r] /\ UNCHANGED <<st, att, ledger, credits, able, calls>>
  BY DEF RecordFinalized, Put, Goto
<1>4. r \in Frames
  BY <1>1, IdleFields, IdleFrame, Zenon DEF Frames, Steps, Returns, HandlerSteps, PaidSteps
<1>5. Frame(n, r, Own, Quorum) /\ r.from \in {<<>>, f.from}
  BY <1>1, <1>2, IdleFields, IdleFrame, Zenon DEF Frame, Serves, Believes, Carries, HandlerSteps, PaidSteps
<1>m. ledger \in [Nodes -> Nat] /\ credits \in Nat /\ chain \in [Nodes -> BOOLEAN] /\ st \in [Nodes -> Settlements]
  BY DEF IInv, Types, Files
<1>6. CASE st[n].status = "applied" \/ st[n].applied
  <2>1. Quorum
    BY <1>1, <1>6 DEF Frame, Carries, Passed
  <2>2. st' \in [Nodes -> Settlements] /\ ledger' \in [Nodes -> Nat] /\ credits' \in Nat /\ chain' \in [Nodes -> BOOLEAN]
    BY <1>3, <1>m DEF RecordFinalized, More
  <2> QED
    BY <1>2, <1>3, <1>4, <1>5, <2>1, <2>2, PayStep, Zenon
<1>7. CASE ~(st[n].status = "applied" \/ st[n].applied)
  <2>1. chain' = chain
    BY <1>7, <1>m, Zenon DEF RecordFinalized
  <2> QED
    BY <1>2, <1>3, <1>4, <1>5, <2>1, QuietStep, Zenon
<1> QED
  BY <1>6, <1>7

LEMMA ReconcileKeeps ==
  ASSUME IInv, NEW n \in Nodes, NEW t \in Threads, Reconcile(n, t)
  PROVE  IInv'
<1> DEFINE f == th[n][t]
           r == IF payout[n] \in {"none", "credited"} THEN [f EXCEPT !.pc = "record"]
                ELSE IF st[n].status = "applied" \/ st[n].applied
                THEN [f EXCEPT !.pc = "reconciled", !.pay = IF n = Home THEN "credited" ELSE "external"]
                ELSE [f EXCEPT !.pc = "reconciled", !.pay = "pending"]
<1>1. f \in Frames /\ Frame(n, f, Own, Quorum) /\ st[n] \in Settlements /\ (Passed(st[n]) => Quorum)
  BY FrameOf
<1>2. f.pc = "reconcile"
  BY DEF Reconcile, At
<1>3. th' = [th EXCEPT ![n][t] = r] /\ UNCHANGED <<st, att, ledger, chain, able, calls>>
  BY DEF Reconcile, Put, Goto, Credit
<1>4. r \in Frames
  <2>1. /\ "record" \in Steps /\ "reconciled" \in Steps
        /\ "credited" \in Payouts /\ "external" \in Payouts /\ "pending" \in Payouts
    BY DEF Steps, Payouts
  <2>2. [f EXCEPT !.pc = "record"] \in Frames /\ [f EXCEPT !.pc = "reconciled", !.pay = "pending"] \in Frames
    BY <1>1, <2>1, FrameGoes, Zenon
  <2>3. (IF n = Home THEN "credited" ELSE "external") \in Payouts
    BY <2>1
  <2>4. [f EXCEPT !.pc = "reconciled", !.pay = IF n = Home THEN "credited" ELSE "external"] \in Frames
    BY <1>1, <2>1, <2>3, FrameGoes, Zenon
  <2> QED
    BY <2>2, <2>4, Zenon
<1>5. Frame(n, r, Own, Quorum) /\ r.from \in {<<>>, f.from}
  BY <1>1, <1>2 DEF Frame, Serves, Believes, Carries, HandlerSteps, PaidSteps
<1>m. ledger \in [Nodes -> Nat] /\ credits \in Nat /\ chain \in [Nodes -> BOOLEAN] /\ st \in [Nodes -> Settlements]
  BY DEF IInv, Types, Files
<1>6. CASE st[n].status = "applied" \/ st[n].applied
  <2>1. Quorum
    BY <1>1, <1>6 DEF Frame, Carries, Passed
  <2>2. st' \in [Nodes -> Settlements] /\ ledger' \in [Nodes -> Nat] /\ credits' \in Nat /\ chain' \in [Nodes -> BOOLEAN]
    BY <1>3, <1>m DEF Reconcile, More, Credit
  <2> QED
    BY <1>2, <1>3, <1>4, <1>5, <2>1, <2>2, PayStep, Zenon
<1>7. CASE ~(st[n].status = "applied" \/ st[n].applied)
  <2>1. credits' = credits
    BY <1>7, <1>m DEF Reconcile, Credit
  <2> QED
    BY <1>2, <1>3, <1>4, <1>5, <2>1, QuietStep, Zenon
<1> QED
  BY <1>6, <1>7

\* apply_finalized_settlement returns, debits the ledger, raises, or goes on with what it has debited.
LEMMA ApplyKeeps ==
  ASSUME IInv, NEW n \in Nodes, NEW t \in Threads, Apply(n, t)
  PROVE  IInv'
<1> DEFINE f == th[n][t]
           returned == [f EXCEPT !.pc = f.ret]
           debited == [f EXCEPT !.pc = "mark", !.snap = st[n]]
           raised == IF f.op = "handle" THEN [f EXCEPT !.pc = "reply", !.dec = "no"]
                     ELSE IF f.op = "repair" /\ f.ret \in {"request", "jail"} THEN [f EXCEPT !.pc = "request"]
                     ELSE Idle
           going == [f EXCEPT !.pc = "credit"]
           x == [st[n] EXCEPT !.status = "applied"]
<1>1. f \in Frames /\ Frame(n, f, Own, Quorum) /\ st[n] \in Settlements /\ (Passed(st[n]) => Quorum)
  BY FrameOf
<1>2. f.pc = "apply" /\ UNCHANGED <<att, credits, chain, able, calls>>
  BY DEF Apply, At
<1>m. ledger \in [Nodes -> Nat] /\ credits \in Nat /\ chain \in [Nodes -> BOOLEAN] /\ st \in [Nodes -> Settlements]
  BY DEF IInv, Types, Files
<1>3. ASSUME st[n].status \in {"finalized", "applied"} PROVE Quorum
  BY <1>1, <1>3 DEF Passed
<1>4. CASE th' = [th EXCEPT ![n][t] = returned] /\ UNCHANGED <<st, ledger>>
  <2>1. returned \in Frames
    BY <1>1 DEF Frames, Steps, Returns
  <2>2. Frame(n, returned, Own, Quorum) /\ returned.from = f.from
    BY <1>1, <1>2, Zenon DEF Frames, Returns, Frame, Serves, Believes, Carries, HandlerSteps, PaidSteps
  <2> QED
    BY <1>2, <1>4, <2>1, <2>2, QuietStep, Zenon
<1>5. CASE /\ st[n].status \in {"finalized", "applied"}
           /\ ledger' = [ledger EXCEPT ![n] = More(@)] /\ th' = [th EXCEPT ![n][t] = debited] /\ st' = st
  <2>1. debited \in Frames
    BY <1>1, Zenon DEF Frames, Steps, HandlerSteps, PaidSteps
  <2>2. Frame(n, debited, Own, Quorum) /\ debited.from = f.from
    BY <1>1, <1>2, <1>3, <1>5 DEF Frame, Serves, Believes, Carries, HandlerSteps, PaidSteps
  <2>3. ledger' \in [Nodes -> Nat]
    BY <1>5, <1>m DEF More
  <2> QED
    BY <1>2, <1>3, <1>5, <1>m, <2>1, <2>2, <2>3, PayStep, Zenon
<1>6. CASE th' = [th EXCEPT ![n][t] = raised] /\ UNCHANGED <<st, ledger>>
  <2>1. raised \in Frames
    <3>1. "reply" \in Steps /\ "request" \in Steps /\ "no" \in Votes
      BY DEF Steps, Returns, Votes
    <3>2. [f EXCEPT !.pc = "reply", !.dec = "no"] \in Frames /\ [f EXCEPT !.pc = "request"] \in Frames
      BY <1>1, <3>1, FrameGoes, Zenon
    <3> QED
      BY <3>2, IdleFields, Zenon
  <2>2. Frame(n, raised, Own, Quorum) /\ raised.from \in {<<>>, f.from}
    BY <1>1, <1>2, IdleFields, IdleFrame DEF Frame, Serves, Believes, Carries, HandlerSteps, PaidSteps
  <2> QED
    BY <1>2, <1>6, <2>1, <2>2, QuietStep, Zenon
<1>7. CASE /\ st[n].status \in {"finalized", "applied"}
           /\ st' = [st EXCEPT ![n] = x] /\ th' = [th EXCEPT ![n][t] = going] /\ ledger' = ledger
  <2>1. going \in Frames
    BY <1>1 DEF Frames, Steps, HandlerSteps, PaidSteps
  <2>2. Frame(n, going, Own, Quorum) /\ going.from = f.from
    BY <1>1, <1>2, <1>3, <1>7 DEF Frame, Serves, Believes, Carries, HandlerSteps, PaidSteps
  <2>3. x \in Settlements
    BY <1>1 DEF Settlements, Statuses
  <2> QED
    BY <1>2, <1>3, <1>7, <2>1, <2>2, <2>3, RecordStep, Zenon
<1> QED
  BY <1>4, <1>5, <1>6, <1>7, Zenon DEF Apply, Return, Goto, Put, Raise, Record

\* record_funding_settlement: nothing has been decided yet.
LEMMA RecordFundingKeeps ==
  ASSUME IInv, NEW t \in Threads, RecordFunding(t)
  PROVE  IInv'
<1> DEFINE r == [Idle EXCEPT !.op = "job", !.pc = "payouts"]
<1>1. Requester \in Nodes
  BY SettlementAssumption
<1>2. PICK known \in BOOLEAN : st' = [st EXCEPT ![Requester] = [NoRecord EXCEPT !.status = "pending", !.committee = known]]
  BY Zenon DEF RecordFunding, Record
<1> DEFINE x == [NoRecord EXCEPT !.status = "pending", !.committee = known]
<1>3. /\ th' = [th EXCEPT ![Requester][t] = r] /\ th[Requester][t].pc = "idle"
      /\ UNCHANGED <<att, ledger, credits, chain, able, calls>>
  BY DEF RecordFunding, At, Put
<1>4. r \in Frames
  BY IdleFields, Zenon DEF Frames, Operations, Steps
<1>5. Frame(Requester, r, Own, Quorum) /\ r.from = <<>>
  BY IdleFields, IdleFrame DEF Frame, Serves, Believes, Carries, PaidSteps
<1>6. x \in Settlements /\ ~Passed(x)
  BY Zenon DEF NoRecord, Settlements, Statuses, Envelopes, Passed
<1> QED
  BY <1>1, <1>2, <1>3, <1>4, <1>5, <1>6, RecordStep, Zenon

-----------------------------------------------------------------------------
(***************************************************************************)
(* Attestations: a validator's own acceptance is written once and stays.   *)
(***************************************************************************)
LEMMA AttestKeeps ==
  ASSUME IInv, NEW n \in Nodes, NEW t \in Threads, Attest(n, t)
  PROVE  IInv'
<1> DEFINE f == th[n][t]
           old == att[n][f.who]
           conflict == old # "none" /\ (old = "yes") # (f.dec = "yes")
           r == [f EXCEPT !.pc = "refresh"]
           vote == IF old = "none" THEN f.dec ELSE old
<1>1. f \in Frames /\ Frame(n, f, Own, Quorum)
  BY FrameOf
<1>2. f.pc = "attest" /\ UNCHANGED <<st, ledger, credits, chain, able, calls>>
  BY Zenon DEF Attest, At
<1>3. f.who \in Committee /\ (f.dec = "yes" /\ f.who # n => f.who \in Own) /\ (f.op = "handle" => f.who = n)
  BY <1>1, <1>2, Zenon DEF Frame, Believes, Serves
<1>4. att \in [Nodes -> [Committee -> Votes]] /\ f.dec \in Votes
  BY <1>1 DEF IInv, Types, Files, Frames
<1>5. CASE conflict
  <2> DEFINE c == OnConflict(n, t)
  <2>1. th' = [th EXCEPT ![n][t] = c] /\ att' = att
    BY <1>5, Zenon DEF Attest, Put
  <2>2. c \in Frames
    BY <1>1, ZenonT(30) DEF OnConflict, Frames, Steps, Returns, Votes
  <2>3. Frame(n, c, Own, Quorum) /\ c.from = f.from
    BY <1>1, <1>2 DEF OnConflict, Frame, Serves, Believes, Carries, HandlerSteps, PaidSteps
  <2> QED
    BY <1>2, <2>1, <2>2, <2>3, QuietStep, Zenon
<1>6. CASE ~conflict
  <2>1. th' = [th EXCEPT ![n][t] = r] /\ att' = [att EXCEPT ![n][f.who] = vote]
    BY <1>6, Zenon DEF Attest, Put, Goto
  <2>2. \A m \in Nodes, v \in Committee : att'[m][v] = IF m = n /\ v = f.who THEN vote ELSE att[m][v]
    BY <1>3, <1>4, <2>1, Zenon
  <2>3. Committee \subseteq Nodes
    BY SettlementAssumption DEF Committee
  <2>4. Own \subseteq Own'
    BY <1>3, <2>2, <2>3, ZenonT(30) DEF Own
  <2>5. att' \in [Nodes -> [Committee -> Votes]]
    BY <1>3, <1>4, <2>1, Zenon
  <2>6. Files'
    BY <1>2, <2>5 DEF IInv, Types, Files, Enabled
  <2>7. vote = "yes" => f.who \in Own'
    <3>1. old = "yes" => f.who \in Own'
      BY <1>3, <2>4, Zenon DEF IInv, Echoes
    <3>2. f.dec = "yes" /\ f.who # n => f.who \in Own'
      BY <1>3, <2>4
    <3>3. vote = "yes" /\ f.who = n => f.who \in Own'
      BY <1>3, <2>2, <2>3, Zenon DEF Own
    <3> QED
      BY <3>1, <3>2, <3>3, Zenon
  <2>8. Echoes'
    <3> SUFFICES ASSUME NEW m \in Nodes, NEW v \in Committee, att'[m][v] = "yes" PROVE v \in Own'
      BY DEF Echoes
    <3>1. CASE m = n /\ v = f.who
      BY <2>2, <2>7, <3>1, Zenon
    <3>2. CASE ~(m = n /\ v = f.who)
      BY <2>2, <2>4, <3>2, Zenon DEF IInv, Echoes
    <3> QED
      BY <3>1, <3>2
  <2>9. Quorum => Quorum'
    BY <2>4, QuorumStays
  <2>10. Paid' => Quorum'
    BY <1>2, <2>9, Zenon DEF IInv, Paid
  <2>11. r \in Frames
    BY <1>1 DEF Frames, Steps, HandlerSteps
  <2>12. Frame(n, r, Own', Quorum')
    <3>1. f.op = "handle" /\ f.dec = "yes" => n \in Own'
      BY <1>3, <1>6, <2>7, Zenon
    <3>2. Serves(n, r) /\ (Carries(r) => Quorum')
      BY <1>1, <1>2, <2>9 DEF Frame, Serves, Carries, HandlerSteps, PaidSteps
    <3> QED
      BY <3>1, <3>2 DEF Frame, Believes
  <2>13. r.from = f.from /\ calls' = calls /\ f.pc # "wait"
    BY <1>1, <1>2 DEF Frames
  <2> HIDE DEF r, f
  <2> QED
    BY <2>1, <2>4, <2>6, <2>8, <2>10, <2>11, <2>12, <2>13, ThreadStep, Zenon DEF f
<1> QED
  BY <1>5, <1>6, Zenon

\* Only rejections are forgotten.
LEMMA ResetRejectionKeeps ==
  ASSUME IInv, NEW n \in Nodes, NEW t \in Threads, ResetRejection(n, t)
  PROVE  IInv'
<1> DEFINE f == th[n][t]
           r(pc) == [f EXCEPT !.pc = pc]
           x(e) == [st[n] EXCEPT !.envelope = e]
<1>1. f \in Frames /\ Frame(n, f, Own, Quorum) /\ st[n] \in Settlements /\ (Passed(st[n]) => Quorum)
  BY FrameOf
<1>2. f.pc = "reset" /\ UNCHANGED <<ledger, credits, chain, able, calls>>
  BY DEF ResetRejection, At
<1>3. \A pc \in {"resetsave", "prepare"} : r(pc) \in Frames
  BY <1>1 DEF Frames, Steps
<1>4. \A pc \in {"resetsave", "prepare"} : Frame(n, r(pc), Own, Quorum) /\ r(pc).from = f.from
  BY <1>1, <1>2 DEF Frame, Serves, Believes, Carries, HandlerSteps, PaidSteps
<1>5. \A e \in Envelopes : x(e) \in Settlements /\ (Passed(x(e)) => Quorum)
  BY <1>1 DEF Settlements, Passed
<1>6. CASE th' = [th EXCEPT ![n][t] = r("prepare")] /\ UNCHANGED <<st, att>>
  BY <1>2, <1>3, <1>4, <1>6, QuietStep, Zenon
<1>7. CASE th' = [th EXCEPT ![n][t] = r("prepare")] /\ st' = [st EXCEPT ![n] = x("unsigned")] /\ att' = att
  <2>1. "unsigned" \in Envelopes
    BY DEF Envelopes
  <2>2. x("unsigned") \in Settlements /\ (Passed(x("unsigned")) => Quorum)
    BY <1>5, <2>1
  <2>3. r("prepare") \in Frames /\ Frame(n, r("prepare"), Own, Quorum) /\ r("prepare").from = f.from
    BY <1>3, <1>4
  <2> HIDE DEF x, r
  <2> QED
    BY <1>2, <1>7, <2>2, <2>3, RecordStep, Zenon
<1>8. CASE /\ th' = [th EXCEPT ![n][t] = r("resetsave")] /\ st' = [st EXCEPT ![n] = x("signed")]
           /\ att' = [att EXCEPT ![n] = [v \in Committee |-> "none"]]
           /\ \A v \in Rejections(n) : att[n][v] = "retry"
  <2>1. "signed" \in Envelopes
    BY DEF Envelopes
  <2>2. x("signed") \in Settlements /\ (Passed(x("signed")) => Quorum)
    BY <1>5, <2>1
  <2>3. r("resetsave") \in Frames /\ Frame(n, r("resetsave"), Own, Quorum) /\ r("resetsave").from = f.from
    BY <1>3, <1>4
  <2>4. att \in [Nodes -> [Committee -> Votes]] /\ st \in [Nodes -> Settlements]
    BY DEF IInv, Types, Files
  <2>5. \A v \in Committee : att[n][v] # "yes"
    BY <1>8 DEF Rejections
  <2>6. \A m \in Nodes, v \in Committee : att'[m][v] = "yes" <=> att[m][v] = "yes"
    BY <1>8, <2>4, <2>5
  <2>7. Committee \subseteq Nodes
    BY SettlementAssumption DEF Committee
  <2>8. Own' = Own
    BY <2>6, <2>7 DEF Own
  <2>9. Quorum => Quorum'
    BY <2>8, QuorumStays
  <2>10. att' \in [Nodes -> [Committee -> Votes]]
    BY <1>8, <2>4 DEF Votes
  <2> HIDE DEF x, r
  <2>11. Files'
    BY <1>2, <1>8, <2>2, <2>4, <2>10, Zenon DEF IInv, Types, Files, Enabled
  <2>12. Echoes'
    BY <2>6, <2>8, Zenon DEF IInv, Echoes
  <2>13. \A m \in Nodes : Passed(st'[m]) => Quorum
    BY <1>8, <2>2, <2>4 DEF IInv, Paid
  <2>14. Paid' => Quorum'
    BY <1>2, <2>9, <2>13, Zenon DEF IInv, Paid
  <2>15. Frame(n, r("resetsave"), Own', Quorum')
    BY <2>3, <2>8, <2>9, FrameStays
  <2> QED
    BY <1>2, <1>8, <2>3, <2>8, <2>11, <2>12, <2>14, <2>15, ThreadStep, Zenon
<1> QED
  BY <1>6, <1>7, <1>8 DEF ResetRejection, Goto, Put, Record

LEMMA JailKeeps ==
  ASSUME IInv, NEW n \in Nodes, NEW t \in Threads, Jail(n, t)
  PROVE  IInv'
<1> DEFINE f == th[n][t]
           r == [f EXCEPT !.pc = "request"]
<1>1. f \in Frames /\ Frame(n, f, Own, Quorum)
  BY FrameOf
<1>2. f.pc = "jail" /\ able' = [able EXCEPT ![n] = "jailed"] /\ UNCHANGED <<st, att, ledger, credits, chain, calls>>
  BY Zenon DEF Jail, At, files
<1>3. th' = [th EXCEPT ![n][t] = r]
  BY DEF Jail, Goto, Put
<1>4. r \in Frames
  BY <1>1 DEF Frames, Steps, Returns
<1>5. Own' = Own /\ Quorum' = Quorum
  BY <1>2, SameVotes, Zenon
<1>6. Frame(n, r, Own', Quorum') /\ r.from = f.from
  BY <1>1, <1>2, <1>5 DEF Frame, Serves, Believes, Carries, HandlerSteps, PaidSteps
<1>7. Files'
  BY <1>2 DEF IInv, Types, Files, Enabled
<1>8. Echoes' /\ (Paid' => Quorum')
  BY <1>2, <1>5, Zenon DEF IInv, Echoes, Paid
<1> QED
  BY <1>2, <1>3, <1>4, <1>5, <1>6, <1>7, <1>8, ThreadStep, Zenon

-----------------------------------------------------------------------------
(***************************************************************************)
(* What happens around the threads.                                        *)
(***************************************************************************)
LEMMA StillStep ==
  ASSUME IInv, UNCHANGED <<att, th, calls>>, Files', Paid' => Quorum
  PROVE  IInv'
<1>1. Own' = Own /\ Quorum' = Quorum
  BY SameVotes
<1> QED
  BY <1>1, Zenon DEF IInv, Types, Echoes

LEMMA SyncChainKeeps ==
  ASSUME IInv, NEW n \in Nodes, NEW m \in Nodes, SyncChain(n, m)
  PROVE  IInv'
<1>1. chain' = [chain EXCEPT ![n] = chain[m]] /\ UNCHANGED <<st, att, ledger, credits, able, th, calls>>
  BY DEF SyncChain
<1>2. chain \in [Nodes -> BOOLEAN]
  BY DEF IInv, Types, Files
<1>3. Files'
  BY <1>1, <1>2 DEF IInv, Types, Files, Enabled
<1>4. \A k \in Nodes : chain'[k] => chain[k] \/ chain[m]
  BY <1>1, <1>2
<1>5. Paid' => Quorum
  BY <1>1, <1>4 DEF IInv, Paid
<1> QED
  BY <1>1, <1>3, <1>5, StillStep

LEMMA EligibilityKeeps ==
  ASSUME IInv, NEW n \in Nodes, LoseEligibility(n) \/ RegainEligibility(n)
  PROVE  IInv'
<1>1. /\ able[n] \in {"yes", "no"} /\ (able' = [able EXCEPT ![n] = "no"] \/ able' = [able EXCEPT ![n] = "yes"])
      /\ UNCHANGED <<st, att, ledger, credits, chain, th, calls>>
  BY DEF LoseEligibility, RegainEligibility, files
<1>2. Files'
  BY <1>1, Zenon DEF IInv, Types, Files, Enabled
<1>3. Paid' => Quorum
  BY <1>1 DEF IInv, Paid
<1> QED
  BY <1>1, <1>2, <1>3, StillStep

-----------------------------------------------------------------------------
(***************************************************************************)
(* Requests and answers: who is served waits for the node that serves it.  *)
(***************************************************************************)
\* Threads N stop waiting, and nobody serves them any more: from K and g to L and h.
Unserved(N, K, g, L, h) ==
    /\ \A c \in L : c.from = <<>> \/ (c \in K /\ c.from \notin N)
    /\ \A m \in Nodes, u \in Threads :
        /\ h[m][u].from = <<>> \/ (h[m][u].from = g[m][u].from /\ g[m][u].from \notin N)
        /\ <<m, u>> \notin N /\ g[m][u].pc = "wait" => h[m][u].pc = "wait" /\ h[m][u].who = g[m][u].who

LEMMA LinkedLess ==
  ASSUME NEW g \in [Nodes -> [Threads -> Frames]], NEW h \in [Nodes -> [Threads -> Frames]],
         NEW K \in SUBSET Calls, NEW L \in SUBSET Calls, NEW N, Linked(K, g), Unserved(N, K, g, L, h)
  PROVE  Linked(L, h)
<1>1. ASSUME NEW f, NEW v, Waits(f, v, g), f \notin N PROVE Waits(f, v, h)
  <2>1. f \in Nodes \X Threads /\ f = <<f[1], f[2]>> /\ f[1] \in Nodes /\ f[2] \in Threads
    BY <1>1, SMTT(30) DEF Waits
  <2> QED
    BY <1>1, <2>1, ZenonT(30) DEF Waits, Unserved
<1>2. \A c \in L : c.from # <<>> => Waits(c.from, c.to, h)
  BY <1>1, Zenon DEF Linked, Unserved
<1>3. \A m \in Nodes, u \in Threads : h[m][u].from # <<>> => Waits(h[m][u].from, m, h)
  BY <1>1, ZenonT(30) DEF Linked, Unserved
<1>4. \A c \in L : c.from # <<>> => c \in K
  BY Zenon DEF Unserved
<1>5. \A m \in Nodes, u \in Threads : h[m][u].from # <<>> => h[m][u].from = g[m][u].from
  BY Zenon DEF Unserved
<1>6. \A c, d \in L : c.from = d.from /\ c.from # <<>> => c = d
  BY <1>4, Zenon DEF Linked
<1>7. \A c \in L, m \in Nodes, u \in Threads : c.from = h[m][u].from => c.from = <<>>
  <2>1. \A c \in K, m \in Nodes, u \in Threads : c.from = g[m][u].from => c.from = <<>>
    BY Zenon DEF Linked
  <2> QED
    BY ONLY <1>4, <1>5, <2>1
<1>8. \A m, k \in Nodes, u, w \in Threads :
        h[m][u].from = h[k][w].from /\ h[m][u].from # <<>> => m = k /\ u = w
  <2>1. \A m, k \in Nodes, u, w \in Threads :
          g[m][u].from = g[k][w].from /\ g[m][u].from # <<>> => m = k /\ u = w
    BY Zenon DEF Linked
  <2> QED
    BY ONLY <1>5, <2>1
<1> QED
  BY <1>2, <1>3, <1>6, <1>7, <1>8, Zenon DEF Linked

\* A thread asks.
LEMMA LinkedAsk ==
  ASSUME NEW g \in [Nodes -> [Threads -> Frames]], NEW K \in SUBSET Calls, Linked(K, g),
         NEW n \in Nodes, NEW t \in Threads, NEW r \in Frames, NEW c \in Calls,
         g[n][t].pc # "wait", r.from = <<>>, r.pc = "wait", r.who = c.to, c.from = <<n, t>>
  PROVE  Linked(K \cup {c}, [g EXCEPT ![n][t] = r])
<1> DEFINE h == [g EXCEPT ![n][t] = r]
<1>1. \A m \in Nodes, u \in Threads : h[m][u] = IF m = n /\ u = t THEN r ELSE g[m][u]
  BY Zenon
<1>2. \A f, v : Waits(f, v, g) => Waits(f, v, h) /\ f # <<n, t>>
  <2> SUFFICES ASSUME NEW f, NEW v, Waits(f, v, g) PROVE Waits(f, v, h) /\ f # <<n, t>>
    BY Zenon
  <2>1. f \in Nodes \X Threads /\ g[f[1]][f[2]].pc = "wait" /\ g[f[1]][f[2]].who = v
    BY Zenon DEF Waits
  <2>2. f = <<f[1], f[2]>> /\ f[1] \in Nodes /\ f[2] \in Threads
    BY ONLY <2>1
  <2>3. ~(f[1] = n /\ f[2] = t)
    BY <2>1, Zenon
  <2>4. h[f[1]][f[2]] = g[f[1]][f[2]]
    BY <1>1, <2>2, <2>3, Zenon
  <2> HIDE DEF h
  <2>5. f # <<n, t>>
    BY ONLY <2>3
  <2> QED
    BY <2>1, <2>4, <2>5, Zenon DEF Waits
<1>3. Waits(c.from, c.to, h) /\ c.from # <<>>
  <2>1. h[n][t] = r
    BY <1>1, Zenon
  <2> HIDE DEF h
  <2>2. <<n, t>> \in Nodes \X Threads /\ <<n, t>>[1] = n /\ <<n, t>>[2] = t /\ <<n, t>> # <<>>
    BY ONLY n \in Nodes, t \in Threads
  <2> QED
    BY <2>1, <2>2, Zenon DEF Waits
<1>4. \A m \in Nodes, u \in Threads : h[m][u].from = <<>> \/ h[m][u].from = g[m][u].from
  BY <1>1, Zenon
<1>5. /\ \A d \in K : d.from # c.from
      /\ \A m \in Nodes, u \in Threads : g[m][u].from # c.from
  BY <1>2, <1>3, Zenon DEF Linked
<1>6. Linked(K \cup {c}, h)
  <2> HIDE DEF h
  <2>1. \A d \in K \cup {c} : d.from # <<>> => Waits(d.from, d.to, h)
    BY <1>2, <1>3, Zenon DEF Linked
  <2>2. \A m \in Nodes, u \in Threads : h[m][u].from # <<>> => Waits(h[m][u].from, m, h)
    BY <1>2, <1>4, ZenonT(30) DEF Linked
  <2>3. \A d, e \in K \cup {c} : d.from = e.from /\ d.from # <<>> => d = e
    BY <1>5, Zenon DEF Linked
  <2>4. \A d \in K \cup {c}, m \in Nodes, u \in Threads : d.from = h[m][u].from => d.from = <<>>
    <3>1. \A d \in K, m \in Nodes, u \in Threads : d.from = g[m][u].from => d.from = <<>>
      BY Zenon DEF Linked
    <3> QED
      BY ONLY <1>3, <1>4, <1>5, <3>1
  <2>5. \A m, k \in Nodes, u, w \in Threads :
          h[m][u].from = h[k][w].from /\ h[m][u].from # <<>> => m = k /\ u = w
    <3>1. \A m, k \in Nodes, u, w \in Threads :
            g[m][u].from = g[k][w].from /\ g[m][u].from # <<>> => m = k /\ u = w
      BY Zenon DEF Linked
    <3> QED
      BY ONLY <1>4, <3>1
  <2> QED
    BY <2>1, <2>2, <2>3, <2>4, <2>5, Zenon DEF Linked
<1> QED
  BY <1>6, Zenon

\* A handler takes a request.
LEMMA LinkedServe ==
  ASSUME NEW g \in [Nodes -> [Threads -> Frames]], NEW K \in SUBSET Calls, Linked(K, g),
         NEW n \in Nodes, NEW t \in Threads, NEW r \in Frames, NEW c \in K,
         g[n][t].pc # "wait", r.from = c.from, c.to = n
  PROVE  Linked(K \ {c}, [g EXCEPT ![n][t] = r])
<1> DEFINE h == [g EXCEPT ![n][t] = r]
<1>1. \A m \in Nodes, u \in Threads : h[m][u] = IF m = n /\ u = t THEN r ELSE g[m][u]
  BY Zenon
<1>2. \A f, v : Waits(f, v, g) => Waits(f, v, h)
  BY <1>1, ZenonT(30) DEF Waits
<1>3. h[n][t].from = c.from
  BY <1>1, Zenon
<1>4. \A m \in Nodes, u \in Threads : ~(m = n /\ u = t) => h[m][u].from = g[m][u].from
  BY <1>1, ZenonT(30)
<1>5. Linked(K \ {c}, h)
  <2> HIDE DEF h
  <2>1. \A d \in K \ {c} : d.from # <<>> => Waits(d.from, d.to, h)
    BY <1>2, Zenon DEF Linked
  <2>2. \A m \in Nodes, u \in Threads : h[m][u].from # <<>> => Waits(h[m][u].from, m, h)
    <3> SUFFICES ASSUME NEW m \in Nodes, NEW u \in Threads, h[m][u].from # <<>>
                 PROVE  Waits(h[m][u].from, m, h)
      BY Zenon
    <3>1. CASE m = n /\ u = t
      BY <1>2, <1>3, <3>1, Zenon DEF Linked
    <3>2. CASE ~(m = n /\ u = t)
      BY <1>2, <1>4, <3>2, Zenon DEF Linked
    <3> QED
      BY <3>1, <3>2, Zenon
  <2>3. \A d \in K \ {c} : \A e \in K : d.from = e.from /\ d.from # <<>> => d = e
    BY Zenon DEF Linked
  <2>4. \A d \in K, m \in Nodes, u \in Threads : d.from = g[m][u].from => d.from = <<>>
    BY Zenon DEF Linked
  <2>5. \A m, k \in Nodes, u, w \in Threads :
          g[m][u].from = g[k][w].from /\ g[m][u].from # <<>> => m = k /\ u = w
    BY Zenon DEF Linked
  <2>6. \A d \in K \ {c}, m \in Nodes, u \in Threads : d.from = h[m][u].from => d.from = <<>>
    BY ONLY <1>3, <1>4, <2>3, <2>4, c \in K
  <2>7. \A m, k \in Nodes, u, w \in Threads :
          h[m][u].from = h[k][w].from /\ h[m][u].from # <<>> => m = k /\ u = w
    BY ONLY <1>3, <1>4, <2>4, <2>5, c \in K
  <2>8. \A d, e \in K \ {c} : d.from = e.from /\ d.from # <<>> => d = e
    BY <2>3, Zenon
  <2> QED
    BY <2>1, <2>2, <2>6, <2>7, <2>8, Zenon DEF Linked
<1> QED
  BY <1>5, Zenon

\* A step of which the frames and the links are known.
LEMMA MessageStep ==
  ASSUME IInv, att' = att, Files', Paid' => Quorum,
         th' \in [Nodes -> [Threads -> Frames]], calls' \subseteq Calls, Linked(calls', th'),
         \A m \in Nodes, u \in Threads : Frame(m, th'[m][u], Own, Quorum)
  PROVE  IInv'
<1>1. Own' = Own /\ Quorum' = Quorum
  BY SameVotes
<1> QED
  BY <1>1, Zenon DEF IInv, Types, Echoes

LEMMA SameFiles ==
  ASSUME IInv, UNCHANGED <<files, able>>
  PROVE  Files' /\ att' = att /\ (Paid' => Quorum)
  BY Zenon DEF IInv, Types, Files, Enabled, Paid, files

LEMMA AskNextKeeps ==
  ASSUME IInv, NEW n \in Nodes, NEW t \in Threads, AskNext(n, t)
  PROVE  IInv'
<1> DEFINE f == th[n][t]
<1>1. f \in Frames /\ Frame(n, f, Own, Quorum)
  BY FrameOf
<1>2. f.pc = "next" /\ UNCHANGED <<files, able>>
  BY Zenon DEF AskNext, At
<1>3. f.from = <<>> /\ f.op # "handle"
  BY <1>1, <1>2, Zenon DEF Frame, Serves, HandlerSteps, PaidSteps
<1>4. CASE f.todo = {}
  <2> DEFINE r == [f EXCEPT !.pc = "tail", !.proposal = "none", !.dec = "none"]
  <2>1. th' = [th EXCEPT ![n][t] = r] /\ calls' = calls
    BY <1>4 DEF AskNext, Put
  <2>2. r \in Frames
    BY <1>1, ZenonT(30) DEF Frames, Steps, Envelopes, Votes
  <2>3. Frame(n, r, Own, Quorum) /\ r.from = f.from
    BY <1>1, <1>2, <1>3 DEF Frame, Serves, Believes, Carries, PaidSteps
  <2> QED
    BY <1>2, <2>1, <2>2, <2>3, QuietStep, Zenon DEF files
<1>5. CASE f.todo # {}
  <2>1. PICK v \in f.todo : /\ calls' = calls \union {[from |-> <<n, t>>, to |-> v, envelope |-> f.proposal]}
                            /\ th' = [th EXCEPT ![n][t] = [f EXCEPT !.pc = "wait", !.who = v, !.todo = @ \ {v}]]
    BY <1>5, ZenonT(30) DEF AskNext, Put
  <2> DEFINE c == [from |-> <<n, t>>, to |-> v, envelope |-> f.proposal]
             r == [f EXCEPT !.pc = "wait", !.who = v, !.todo = @ \ {v}]
  <2>2. v \in Committee /\ v \in Nodes
    BY <1>1, SettlementAssumption, Zenon DEF Frames, Committee
  <2>3. r \in Frames /\ c \in Calls
    BY <1>1, <2>2, ZenonT(30) DEF Frames, Steps, Calls, Callers
  <2>4. Frame(n, r, Own, Quorum) /\ r.from = <<>> /\ r.pc = "wait" /\ r.who = c.to /\ c.from = <<n, t>>
    BY <1>1, <1>2, <1>3 DEF Frames, Frame, Serves, Believes, Carries, PaidSteps
  <2>5. calls' = calls \cup {c} /\ th' = [th EXCEPT ![n][t] = r]
    BY <2>1
  <2> HIDE DEF c, r
  <2>6. th \in [Nodes -> [Threads -> Frames]] /\ calls \in SUBSET Calls /\ Linked(calls, th)
    BY Zenon DEF IInv, Types
  <2>7. Linked(calls', th')
    BY <1>2, <2>3, <2>4, <2>5, <2>6, LinkedAsk, ZenonT(30)
  <2>8. th' \in [Nodes -> [Threads -> Frames]] /\ calls' \subseteq Calls
    BY <2>3, <2>5, <2>6, Zenon
  <2>9. \A m \in Nodes, u \in Threads : th'[m][u] = IF m = n /\ u = t THEN r ELSE th[m][u]
    BY <2>5, <2>6, Zenon
  <2>10. \A m \in Nodes, u \in Threads : Frame(m, th'[m][u], Own, Quorum)
    BY <2>4, <2>9, Zenon DEF IInv
  <2> QED
    BY <1>2, <2>7, <2>8, <2>10, SameFiles, MessageStep, Zenon
<1> QED
  BY <1>4, <1>5, SMTT(30)

\* Whoever is served no longer.
LEMMA OrphanFrame ==
  ASSUME NEW n \in Nodes, NEW r \in Frames, NEW own, NEW quorum, Frame(n, r, own, quorum)
  PROVE  Orphaned(r) \in Frames /\ Frame(n, Orphaned(r), own, quorum) /\ Orphaned(r).from = <<>>
         /\ Orphaned(r).pc = r.pc /\ Orphaned(r).who = r.who
<1>1. Orphaned(r) \in Frames /\ Orphaned(r).from = <<>>
  BY DEF Orphaned, Frames, Callers
<1>2. Orphaned(r).pc = r.pc /\ Orphaned(r).who = r.who
  BY DEF Orphaned, Frames
<1>3. Frame(n, Orphaned(r), own, quorum)
  BY SMTT(30) DEF Orphaned, Frames, Frame, Serves, Believes, Carries
<1> QED
  BY <1>1, <1>2, <1>3, Zenon

\* Threads N are gone or do not wait any more: g is what they and the others do.
LEMMA OrphanStep ==
  ASSUME IInv, UNCHANGED <<files, able>>, NEW N, NEW g \in [Nodes -> [Threads -> Frames]],
         th' = OrphanThreads(N, g), calls' = OrphanCalls(N),
         \A m \in Nodes, u \in Threads : Frame(m, g[m][u], Own, Quorum),
         \A m \in Nodes, u \in Threads : g[m][u].from = <<>> \/ g[m][u].from = th[m][u].from,
         \A m \in Nodes, u \in Threads : <<m, u>> \notin N => g[m][u] = th[m][u]
  PROVE  IInv'
<1>1. th \in [Nodes -> [Threads -> Frames]] /\ calls \in SUBSET Calls /\ Linked(calls, th)
  BY Zenon DEF IInv, Types
<1>2. \A m \in Nodes, u \in Threads : th'[m][u] = IF g[m][u].from \in N THEN Orphaned(g[m][u]) ELSE g[m][u]
  BY Zenon DEF OrphanThreads
<1>3. \A m \in Nodes, u \in Threads : th'[m][u] \in Frames /\ Frame(m, th'[m][u], Own, Quorum)
  <2> SUFFICES ASSUME NEW m \in Nodes, NEW u \in Threads
               PROVE  th'[m][u] \in Frames /\ Frame(m, th'[m][u], Own, Quorum)
    BY Zenon
  <2>1. g[m][u] \in Frames /\ Frame(m, g[m][u], Own, Quorum)
    BY Zenon
  <2>2. Orphaned(g[m][u]) \in Frames /\ Frame(m, Orphaned(g[m][u]), Own, Quorum)
    BY ONLY m \in Nodes, <2>1, OrphanFrame, Zenon
  <2>3. th'[m][u] \in {g[m][u], Orphaned(g[m][u])}
    BY <1>2, Zenon
  <2> QED
    BY ONLY <2>1, <2>2, <2>3, Zenon
<1>4. th' \in [Nodes -> [Threads -> Frames]]
  BY <1>3, Zenon DEF OrphanThreads
<1>5. \A m \in Nodes, u \in Threads :
        /\ th'[m][u].from = <<>> \/ (th'[m][u].from = th[m][u].from /\ th[m][u].from \notin N)
        /\ <<m, u>> \notin N => th'[m][u].pc = th[m][u].pc /\ th'[m][u].who = th[m][u].who
  <2> SUFFICES ASSUME NEW m \in Nodes, NEW u \in Threads
               PROVE  /\ th'[m][u].from = <<>> \/ (th'[m][u].from = th[m][u].from /\ th[m][u].from \notin N)
                      /\ <<m, u>> \notin N => th'[m][u].pc = th[m][u].pc /\ th'[m][u].who = th[m][u].who
    BY Zenon
  <2>1. g[m][u] \in Frames /\ Frame(m, g[m][u], Own, Quorum)
    BY Zenon
  <2>2. /\ Orphaned(g[m][u]).from = <<>> /\ Orphaned(g[m][u]).pc = g[m][u].pc
        /\ Orphaned(g[m][u]).who = g[m][u].who
    BY <2>1, OrphanFrame, Zenon
  <2>3. /\ g[m][u].from = <<>> \/ g[m][u].from = th[m][u].from
        /\ <<m, u>> \notin N => g[m][u] = th[m][u]
    BY Zenon
  <2>4. th'[m][u] = IF g[m][u].from \in N THEN Orphaned(g[m][u]) ELSE g[m][u]
    BY <1>2, Zenon
  <2> QED
    BY ONLY <2>2, <2>3, <2>4, Zenon
<1>6. \A c \in calls' : c \in Calls /\ (c.from = <<>> \/ (c \in calls /\ c.from \notin N))
  <2> SUFFICES ASSUME NEW c \in calls' PROVE c \in Calls /\ (c.from = <<>> \/ (c \in calls /\ c.from \notin N))
    BY Zenon
  <2>1. PICK d \in calls : c = IF d.from \in N THEN Orphaned(d) ELSE d
    BY Zenon DEF OrphanCalls
  <2>2. d \in Calls
    BY <1>1, Zenon
  <2>3. Orphaned(d) \in Calls /\ Orphaned(d).from = <<>>
    BY ONLY <2>2 DEF Orphaned, Calls, Callers
  <2> QED
    BY <2>1, <2>2, <2>3, Zenon
<1>7. Linked(calls', th')
  <2>1. calls' \in SUBSET Calls
    BY <1>6, Zenon
  <2>2. Unserved(N, calls, th, calls', th')
    BY <1>5, <1>6, Zenon DEF Unserved
  <2> QED
    BY <1>1, <1>4, <2>1, <2>2, LinkedLess, Zenon
<1> QED
  BY <1>3, <1>4, <1>6, <1>7, SameFiles, MessageStep, Zenon

LEMMA GiveUpKeeps ==
  ASSUME IInv, NEW n \in Nodes, NEW t \in Threads, GiveUp(n, t)
  PROVE  IInv'
<1> DEFINE f == th[n][t]
           r == [f EXCEPT !.pc = "next"]
           g == [th EXCEPT ![n][t].pc = "next"]
<1>1. f \in Frames /\ Frame(n, f, Own, Quorum) /\ th \in [Nodes -> [Threads -> Frames]]
  BY FrameOf, Zenon DEF IInv, Types
<1>2. f.pc = "wait" /\ th' = OrphanThreads({<<n, t>>}, g) /\ calls' = OrphanCalls({<<n, t>>}) /\ UNCHANGED <<files, able>>
  BY DEF GiveUp, At
<1>3. r \in Frames /\ Frame(n, r, Own, Quorum) /\ r.from = f.from
  BY <1>1, <1>2, Zenon DEF Frames, Steps, Frame, Serves, Believes, Carries, HandlerSteps, PaidSteps
<1>4. \A m \in Nodes, u \in Threads : g[m][u] = IF m = n /\ u = t THEN r ELSE th[m][u]
  BY ONLY <1>1, n \in Nodes, t \in Threads
<1>5. g \in [Nodes -> [Threads -> Frames]]
  BY ONLY <1>1, <1>3, n \in Nodes, t \in Threads
<1>6. \A m \in Nodes, u \in Threads :
        /\ Frame(m, g[m][u], Own, Quorum)
        /\ g[m][u].from = th[m][u].from
        /\ <<m, u>> \notin {<<n, t>>} => g[m][u] = th[m][u]
  <2>1. \A m \in Nodes, u \in Threads : Frame(m, th[m][u], Own, Quorum)
    BY Zenon DEF IInv
  <2> HIDE DEF g, r
  <2> QED
    BY ONLY <1>3, <1>4, <2>1
<1> HIDE DEF g
<1> QED
  BY <1>2, <1>5, <1>6, OrphanStep

LEMMA CrashKeeps ==
  ASSUME IInv, NEW n \in Nodes, Crash(n)
  PROVE  IInv'
<1> DEFINE N == {n} \X Threads
           g == [th EXCEPT ![n] = [t \in Threads |-> Idle]]
<1>1. th \in [Nodes -> [Threads -> Frames]]
  BY DEF IInv, Types
<1>2. th' = OrphanThreads(N, g) /\ calls' = OrphanCalls(N) /\ UNCHANGED <<files, able>>
  BY DEF Crash
<1>3. \A m \in Nodes, u \in Threads : g[m][u] = IF m = n THEN Idle ELSE th[m][u]
  BY <1>1
<1>4. g \in [Nodes -> [Threads -> Frames]]
  BY <1>1, IdleFields, Zenon
<1>5. \A m \in Nodes, u \in Threads : Frame(m, g[m][u], Own, Quorum)
  BY <1>3, IdleFrame DEF IInv
<1>6. \A m \in Nodes, u \in Threads : g[m][u].from = <<>> \/ g[m][u].from = th[m][u].from
  BY <1>3, IdleFields, Zenon
<1>7. \A m \in Nodes, u \in Threads : <<m, u>> \notin N => g[m][u] = th[m][u]
  BY <1>3
<1> HIDE DEF g, N
<1> QED
  BY <1>2, <1>4, <1>5, <1>6, <1>7, OrphanStep, Zenon

\* A handler that takes request c, in its first step.
Taken(c, pc, dec) == [Idle EXCEPT !.op = "handle", !.pc = pc, !.from = c.from, !.dec = dec]

LEMMA TakenFrame ==
  ASSUME NEW n \in Committee, NEW c \in Calls, NEW own, NEW quorum,
         NEW pc \in {"reply", "import"}, NEW dec \in {"none", "no", "retry"}
  PROVE  Taken(c, pc, dec) \in Frames /\ Taken(c, pc, dec).from = c.from /\ Frame(n, Taken(c, pc, dec), own, quorum)
<1>1. Taken(c, pc, dec) \in Frames /\ Taken(c, pc, dec).from = c.from
  BY IdleFields, ZenonT(30) DEF Taken, Frames, Operations, Steps, Returns, HandlerSteps, Votes, Calls
<1>2. Frame(n, Taken(c, pc, dec), own, quorum)
  BY IdleFields DEF Taken, Frames, Frame, Serves, Believes, Carries, HandlerSteps, PaidSteps
<1> QED
  BY <1>1, <1>2, Zenon

LEMMA ImportKeeps ==
  ASSUME IInv, NEW n \in Nodes, NEW t \in Threads, NEW c \in calls, Import(n, t, c)
  PROVE  IInv'
<1> DEFINE x == [status |-> "pending", applied |-> FALSE, committee |-> TRUE, audited |-> TRUE, envelope |-> "signed"]
<1>1. /\ th \in [Nodes -> [Threads -> Frames]] /\ calls \in SUBSET Calls /\ Linked(calls, th)
      /\ st \in [Nodes -> Settlements] /\ n \in Committee /\ c \in Calls
  BY DEF IInv, Types, Files, Import, Calls
<1>2. /\ th[n][t].pc = "idle" /\ c.to = n /\ calls' = calls \ {c}
      /\ st' = st \/ st' = [st EXCEPT ![n] = x]
      /\ UNCHANGED <<att, ledger, credits, chain, able>>
  BY DEF Import, At, Record
<1>3. \E pc \in {"reply", "import"}, dec \in {"none", "no", "retry"} : th' = [th EXCEPT ![n][t] = Taken(c, pc, dec)]
  <2>1. [Idle EXCEPT !.op = "handle", !.pc = "import", !.from = c.from] = Taken(c, "import", "none")
    BY IdleFields, Zenon DEF Taken, Frames
  <2>2. \/ th' = [th EXCEPT ![n][t] = Taken(c, "reply", "no")]
        \/ th' = [th EXCEPT ![n][t] = Taken(c, "reply", "retry")]
        \/ th' = [th EXCEPT ![n][t] = Taken(c, "import", "none")]
    BY <2>1 DEF Import, Answer, Put, Taken
  <2> QED
    BY <2>2
<1>4. PICK pc \in {"reply", "import"}, dec \in {"none", "no", "retry"} : th' = [th EXCEPT ![n][t] = Taken(c, pc, dec)]
  BY <1>3, Zenon
<1> DEFINE r == Taken(c, pc, dec)
<1>5. r \in Frames /\ r.from = c.from /\ Frame(n, r, Own, Quorum)
  BY <1>1, TakenFrame, Zenon
<1> HIDE DEF r, x
<1>6. th' = [th EXCEPT ![n][t] = r]
  BY <1>4 DEF r
<1>7. Linked(calls', th')
  BY <1>1, <1>2, <1>5, <1>6, LinkedServe, Zenon
<1>8. th' \in [Nodes -> [Threads -> Frames]] /\ calls' \subseteq Calls
  BY <1>1, <1>2, <1>5, <1>6, Zenon
<1>9. \A m \in Nodes, u \in Threads : th'[m][u] = IF m = n /\ u = t THEN r ELSE th[m][u]
  BY <1>1, <1>6, SMTT(30)
<1>10. \A m \in Nodes, u \in Threads : Frame(m, th'[m][u], Own, Quorum)
  BY <1>5, <1>9, Zenon DEF IInv
<1>11. x \in Settlements /\ ~Passed(x)
  BY DEF x, Settlements, Statuses, Envelopes, Passed
<1>12. Files'
  BY <1>1, <1>2, <1>11, ZenonT(30) DEF IInv, Types, Files, Enabled
<1>13. \A m \in Nodes : Passed(st'[m]) => Passed(st[m])
  BY <1>1, <1>2, <1>11, Zenon
<1>14. Paid' => Quorum
  BY <1>2, <1>13, Zenon DEF IInv, Paid
<1> QED
  BY <1>2, <1>7, <1>8, <1>10, <1>12, <1>14, MessageStep, Zenon

\* The caller of a thread that serves a request.
LEMMA WaitsFor ==
  ASSUME NEW caller, NEW v, NEW h, Waits(caller, v, h)
  PROVE  /\ caller[1] \in Nodes /\ caller[2] \in Threads /\ caller = <<caller[1], caller[2]>>
         /\ h[caller[1]][caller[2]].pc = "wait" /\ h[caller[1]][caller[2]].who = v
  BY DEF Waits

\* An answer wakes the thread that waits for this validator, with what the validator has on file.
LEMMA ReplyKeeps ==
  ASSUME IInv, NEW n \in Nodes, NEW t \in Threads, Reply(n, t)
  PROVE  IInv'
<1> DEFINE f == th[n][t]
           g == [th EXCEPT ![n][t] = Idle]
<1>1. /\ f \in Frames /\ Frame(n, f, Own, Quorum)
      /\ th \in [Nodes -> [Threads -> Frames]] /\ calls \in SUBSET Calls /\ Linked(calls, th)
  BY FrameOf, Zenon DEF IInv, Types
<1>2. f.pc = "reply" /\ calls' = calls /\ UNCHANGED <<files, able>>
  BY Zenon DEF Reply, At
<1>3. CASE f.from = <<>>
  <2>1. th' = [th EXCEPT ![n][t] = Idle]
    BY <1>3 DEF Reply
  <2> QED
    BY <1>2, <2>1, IdleFields, IdleFrame, QuietStep, ZenonT(30) DEF files
<1>4. CASE f.from # <<>>
  <2> DEFINE a == f.from[1]
             b == f.from[2]
             w == th[a][b]
  <2>1. Waits(f.from, n, th)
    BY <1>1, <1>4, Zenon DEF Linked
  <2>2. a \in Nodes /\ b \in Threads /\ f.from = <<a, b>> /\ w.pc = "wait" /\ w.who = n
    <3> DEFINE caller == f.from
    <3>1. Waits(caller, n, th)
      BY <2>1
    <3> HIDE DEF caller
    <3>2. caller[1] \in Nodes /\ caller[2] \in Threads /\ caller = <<caller[1], caller[2]>>
      BY <3>1, WaitsFor
    <3>3. th[caller[1]][caller[2]].pc = "wait" /\ th[caller[1]][caller[2]].who = n
      BY <3>1, WaitsFor, Zenon
    <3> QED
      BY <3>2, <3>3, Zenon DEF caller
  <2> DEFINE r == [w EXCEPT !.pc = "attest", !.dec = f.dec, !.ret = "merge", !.carry = f.dec = "yes" /\ chain[n]]
  <2>3. w \in Frames /\ Frame(a, w, Own, Quorum)
    BY <2>2, FrameOf, Zenon
  <2>4. n \in Committee /\ (f.dec = "yes" => n \in Own) /\ f.dec \in Votes
    BY <1>1, <1>2, <1>4, Zenon DEF Frame, Serves, Believes, Frames
  <2>5. chain[n] => Quorum
    BY Zenon DEF IInv, Paid
  <2>6. chain[n] \in BOOLEAN
    BY SMTT(30) DEF IInv, Types, Files
  <2>7. w.op # "handle" /\ w.from = <<>>
    BY <2>2, <2>3, ZenonT(30) DEF Frame, Serves, HandlerSteps, PaidSteps
  <2>8. r \in Frames /\ r.from = <<>>
    BY <2>3, <2>4, <2>6, <2>7, ZenonT(30) DEF Frames, Steps, HandlerSteps, Returns
  <2>9. Frame(a, r, Own, Quorum)
    BY <2>2, <2>3, <2>4, <2>5, <2>7, ZenonT(30) DEF Frames, Frame, Serves, Believes, Carries, PaidSteps
  <2>10. <<a, b>> # <<n, t>>
    BY <1>2, <2>2, ZenonT(30)
  <2>11. th' = [g EXCEPT ![a][b] = r]
    <3>1. th' = [g EXCEPT ![a][b] = [@ EXCEPT !.pc = "attest", !.dec = f.dec, !.ret = "merge", !.carry = f.dec = "yes" /\ chain[n]]]
      BY <1>4, ZenonT(30) DEF Reply
    <3>2. g[a][b] = w
      BY <1>1, <2>2, <2>10, ZenonT(30)
    <3> QED
      BY <3>1, <3>2, ZenonT(30)
  <2> HIDE DEF r
  <2>12. \A m \in Nodes, u \in Threads :
            th'[m][u] = IF m = a /\ u = b THEN r ELSE IF m = n /\ u = t THEN Idle ELSE th[m][u]
    BY <1>1, <2>2, <2>11, ZenonT(30)
  <2>13. th' \in [Nodes -> [Threads -> Frames]]
    BY <1>1, <2>2, <2>8, <2>11, IdleFields, ZenonT(30)
  <2>14. \A m \in Nodes, u \in Threads : Frame(m, th'[m][u], Own, Quorum)
    <3> SUFFICES ASSUME NEW m \in Nodes, NEW u \in Threads PROVE Frame(m, th'[m][u], Own, Quorum)
      BY Zenon
    <3>1. Frame(m, th[m][u], Own, Quorum) /\ Frame(m, Idle, Own, Quorum)
      BY IdleFrame, Zenon DEF IInv
    <3>2. (m = a /\ th'[m][u] = r) \/ th'[m][u] \in {Idle, th[m][u]}
      BY <2>12, ZenonT(30)
    <3> QED
      BY <2>9, <3>1, <3>2, Zenon
  <2>15. Unserved({f.from}, calls, th, calls', th')
    <3>1. \A c \in calls' : c.from = <<>> \/ (c \in calls /\ c.from # f.from)
      BY <1>1, <1>2, ZenonT(30) DEF Linked
    <3>2. ASSUME NEW m \in Nodes, NEW u \in Threads
          PROVE  th'[m][u].from = <<>> \/ (th'[m][u].from = th[m][u].from /\ th[m][u].from # f.from)
      <4>1. th[m][u].from = f.from => m = n /\ u = t
        <5>1. \A p, k \in Nodes, x, y \in Threads :
                th[p][x].from = th[k][y].from /\ th[p][x].from # <<>> => p = k /\ x = y
          BY <1>1, Zenon DEF Linked
        <5> QED
          BY ONLY <1>4, <5>1, n \in Nodes, t \in Threads, m \in Nodes, u \in Threads
      <4>2. th'[m][u] \in {r, Idle} \/ (th'[m][u] = th[m][u] /\ ~(m = n /\ u = t))
        BY <2>12, Zenon
      <4> QED
        BY <2>8, <4>1, <4>2, IdleFields, Zenon
    <3>3. ASSUME NEW m \in Nodes, NEW u \in Threads, <<m, u>> # f.from, th[m][u].pc = "wait"
          PROVE  th'[m][u].pc = "wait" /\ th'[m][u].who = th[m][u].who
      BY <1>2, <2>2, <2>12, <3>3, ZenonT(30)
    <3> QED
      BY <3>1, <3>2, <3>3, Zenon DEF Unserved
  <2>16. Linked(calls', th')
    BY <1>1, <1>2, <2>13, <2>15, LinkedLess, ZenonT(30)
  <2> QED
    BY <1>1, <1>2, <2>13, <2>14, <2>16, SameFiles, MessageStep, Zenon
<1> QED
  BY <1>3, <1>4

-----------------------------------------------------------------------------
LEMMA StepIInv ==
  ASSUME IInv, NEW n \in Nodes, NEW t \in Threads, Step(n, t)
  PROVE  IInv'
  BY Zenon, RecordWorkerPayoutsKeeps, RecordExecutionAuditKeeps, SignEnvelopeKeeps, EnsureCommitteeKeeps,
     ResetRejectionKeeps, ResetSaveKeeps, PrepareKeeps, RepairLocalKeeps, DecideLocallyKeeps, JailKeeps,
     AttestKeeps, RefreshKeeps, SaveFinalityKeeps, ApplyKeeps, MarkAppliedKeeps, CreditWorkerKeeps,
     SavePayoutKeeps, RecordEntriesKeeps, RequestKeeps, AskNextKeeps, GiveUpKeeps, MergeChainKeeps,
     TailKeeps, JobSettlesKeeps, ReconcileKeeps, ReconciledKeeps, RecordFinalizedKeeps,
     ImportPayoutsKeeps, ReplyKeeps DEF Step

LEMMA NextIInv == IInv /\ [Next]_vars => IInv'
<1> SUFFICES ASSUME IInv, [Next]_vars PROVE IInv'
  OBVIOUS
<1>1. ASSUME NEW t \in Locals, RecordFunding(t) PROVE IInv'
  BY <1>1, RecordFundingKeeps DEF Threads
<1>2. ASSUME NEW n \in Nodes, NEW t \in Locals, StartRepair(n, t) PROVE IInv'
  BY <1>2, StartRepairKeeps DEF Threads
<1>3. ASSUME NEW n \in Nodes, NEW t \in Handlers, NEW c \in calls, Import(n, t, c) PROVE IInv'
  BY <1>3, ImportKeeps DEF Threads
<1>4. ASSUME NEW n \in Nodes, NEW t \in Threads, Step(n, t) PROVE IInv'
  BY <1>4, StepIInv
<1>5. ASSUME NEW n \in Nodes, NEW m \in Nodes, SyncChain(n, m) PROVE IInv'
  BY <1>5, SyncChainKeeps
<1>6. ASSUME NEW n \in Nodes, LoseEligibility(n) \/ RegainEligibility(n) \/ Crash(n) PROVE IInv'
  BY <1>6, EligibilityKeeps, CrashKeeps
<1>7. CASE UNCHANGED vars
  <2>1. UNCHANGED <<st, att, ledger, credits, chain, able, th, calls>>
    BY <1>7 DEF vars, files
  <2>2. Files' /\ (Paid' => Quorum)
    BY <2>1, Zenon DEF IInv, Types, Files, Enabled, Paid
  <2> QED
    BY <2>1, <2>2, StillStep
<1> QED
  BY <1>1, <1>2, <1>3, <1>4, <1>5, <1>6, <1>7, Zenon DEF Next

LEMMA Invariance == Spec => []IInv
  BY InitIInv, NextIInv, PTL DEF Spec

(***************************************************************************)
(* A ledger is debited, a worker credited, or entries recorded on a chain  *)
(* only when validators with two thirds of the committee's bond have       *)
(* accepted the settlement in their own files (refresh_settlement_finality *)
(* and apply_finalized_settlement): for any nodes, bonds and threads, and  *)
(* however requests are lost, repeated, late or served while nodes crash.  *)
(***************************************************************************)
THEOREM MoneyNeedsQuorum == Spec => []PaidWithQuorum
<1>1. IInv => PaidWithQuorum
  BY Zenon DEF IInv, Paid, PaidWithQuorum
<1> QED
  BY <1>1, Invariance, PTL
=============================================================================
