------------------------ MODULE SettlementTurnProofs ------------------------
(***************************************************************************)
(* Proof that no node debits its ledger twice for a settlement, for any    *)
(* nodes, bonds and threads and any requests and answers that are lost, if *)
(* the threads of a node take turns and no node crashes.                   *)
(*                                                                         *)
(* A thread reads the settlement, waits, and writes back what it has in    *)
(* memory; "applied" is set a step after the ledger is debited.  So the    *)
(* invariant says what a thread relies on while it is at such a place, and *)
(* that it is the only one of its node that does.  A settlement that is    *)
(* applied is never rejected afterwards, because the attestations a quorum *)
(* rests on are only added to.                                             *)
(***************************************************************************)
EXTENDS SettlementProofs

\* The node's own attestations are a quorum.
Decisive(n) == BondOf(Accepting(n)) >= QuorumBond

\* A settlement that is applied has a quorum in the node's own files and is neither forgotten nor rejected.
Lasting(x) == x.applied => x.status \notin {"none", "rejected"}

\* What thread r of n relies on between two of its steps.
Relies(n, r) ==
    /\ r.pc = "save" => r.snap.applied = st[n].applied /\ Lasting(r.snap) /\ (Passed(r.snap) => Decisive(n))
    /\ r.pc = "mark" => Decisive(n) /\ ~st[n].applied
    /\ r.pc = "resetsave" => ~st[n].applied

Debited(n) == ledger[n] = 1 => st[n].applied \/ \E t \in Threads : th[n][t].pc = "mark"

TurnInv ==
    /\ IInv
    /\ crashes = 0
    /\ \A n \in Nodes :
        /\ ledger[n] \in {0, 1} /\ Debited(n)
        /\ Lasting(st[n]) /\ (Passed(st[n]) => Decisive(n))
        /\ \A t \in Threads : Relies(n, th[n][t])
        /\ \A t, u \in Threads : t = u \/ Resting(th[n][t]) \/ Resting(th[n][u])

\* What a step may do to the threads it is not a step of.
Kept(r, q) ==
    \/ q.pc = r.pc /\ q.ret = r.ret /\ q.snap = r.snap
    \/ Resting(r) /\ Resting(q)

-----------------------------------------------------------------------------
LEMMA TurnFacts ==
  ASSUME TurnInv, Overlap = FALSE, NEW n \in Nodes, NEW t \in Threads, Free(n, t)
  PROVE  /\ th[n][t] \in Frames /\ st[n] \in Settlements /\ th \in [Nodes -> [Threads -> Frames]]
         /\ ledger[n] \in {0, 1} /\ (ledger[n] = 1 => st[n].applied \/ th[n][t].pc = "mark")
         /\ Lasting(st[n]) /\ (Passed(st[n]) => Decisive(n))
         /\ Relies(n, th[n][t])
         /\ \A u \in Threads \ {t} : Resting(th[n][u])
<1>1. th[n][t] \in Frames /\ st[n] \in Settlements /\ th \in [Nodes -> [Threads -> Frames]]
  BY FrameOf DEF TurnInv, IInv, Types
<1>2. \A u \in Threads \ {t} : Resting(th[n][u])
  BY DEF Free
<1>3. ledger[n] = 1 => st[n].applied \/ th[n][t].pc = "mark"
  BY <1>2 DEF TurnInv, Debited, Resting
<1> QED
  BY <1>1, <1>2, <1>3 DEF TurnInv

LEMMA TurnStep ==
  ASSUME TurnInv, Overlap = FALSE, IInv', NEW n \in Nodes, NEW t \in Threads, Free(n, t), crashes' = crashes,
         \A m \in Nodes \ {n} : st'[m] = st[m] /\ att'[m] = att[m] /\ ledger'[m] = ledger[m],
         \A m \in Nodes, u \in Threads : m # n \/ u # t => Kept(th[m][u], th'[m][u]),
         ledger'[n] \in {0, 1}, ledger'[n] = 1 => st'[n].applied \/ th'[n][t].pc = "mark",
         Lasting(st'[n]), Passed(st'[n]) => Decisive(n)', Relies(n, th[n][t])'
  PROVE  TurnInv'
<1>1. ASSUME NEW u \in Threads \ {t} PROVE Resting(th'[n][u])
  <2>1. Resting(th[n][u]) /\ Kept(th[n][u], th'[n][u])
    BY <1>1, TurnFacts, Zenon
  <2> QED
    BY ONLY <2>1 DEF Kept, Resting
<1>2. ASSUME NEW u \in Threads PROVE Relies(n, th[n][u])'
  BY <1>1, <1>2 DEF Relies, Resting
<1>3. Debited(n)'
  BY DEF Debited
<1>4. ASSUME NEW m \in Nodes \ {n}
      PROVE  /\ ledger'[m] \in {0, 1} /\ Debited(m)'
             /\ Lasting(st'[m]) /\ (Passed(st'[m]) => Decisive(m)')
             /\ \A u \in Threads : Relies(m, th[m][u])'
             /\ \A u, w \in Threads : u = w \/ Resting(th'[m][u]) \/ Resting(th'[m][w])
  <2>1. Decisive(m)' = Decisive(m)
    BY <1>4, SMTT(30) DEF Decisive, Accepting
  <2>2. st'[m] = st[m] /\ ledger'[m] = ledger[m] /\ \A u \in Threads : Kept(th[m][u], th'[m][u])
    BY <1>4
  <2>3. Debited(m)'
    <3> SUFFICES ASSUME NEW u \in Threads, th[m][u].pc = "mark" PROVE th'[m][u].pc = "mark"
      BY <2>2 DEF TurnInv, Debited
    <3> QED
      BY <2>2 DEF Kept, Resting
  <2>4. ASSUME NEW u \in Threads PROVE Relies(m, th[m][u])'
    <3>1. Relies(m, th[m][u])
      BY DEF TurnInv
    <3> QED
      BY <2>1, <2>2, <3>1 DEF Kept, Resting, Relies
  <2>5. ASSUME NEW u \in Threads, NEW w \in Threads, u # w PROVE Resting(th'[m][u]) \/ Resting(th'[m][w])
    <3>1. Resting(th[m][u]) \/ Resting(th[m][w])
      BY <2>5 DEF TurnInv
    <3> QED
      BY <2>2, <3>1, Zenon DEF Kept, Resting
  <2> QED
    BY <2>1, <2>2, <2>3, <2>4, <2>5 DEF TurnInv
<1>5. crashes' = 0
  BY DEF TurnInv
<1>6. \A u, w \in Threads : u = w \/ Resting(th'[n][u]) \/ Resting(th'[n][w])
  BY <1>1
<1> QED
  BY <1>2, <1>3, <1>4, <1>5, <1>6 DEF TurnInv

Relying == {"save", "mark", "resetsave"}

LEMMA Placed ==
  ASSUME TurnInv, NEW n \in Nodes, NEW t \in Threads, NEW r, Put(n, t, r)
  PROVE  th'[n][t] = r /\ \A m \in Nodes, u \in Threads : m # n \/ u # t => Kept(th[m][u], th'[m][u])
<1>1. th \in [Nodes -> [Threads -> Frames]]
  BY DEF TurnInv, IInv, Types
<1>2. th'[n][t] = r /\ \A m \in Nodes, u \in Threads : m # n \/ u # t => th'[m][u] = th[m][u]
  BY <1>1 DEF Put
<1> QED
  BY <1>2 DEF Kept

\* A step that writes the settlement and after which its thread relies on nothing.
LEMMA TurnRecord ==
  ASSUME TurnInv, Overlap = FALSE, IInv', NEW n \in Nodes, NEW t \in Threads, Free(n, t),
         NEW r, Put(n, t, r), r.pc \notin Relying, UNCHANGED <<att, ledger, crashes>>,
         NEW x, st' = [st EXCEPT ![n] = x],
         Lasting(x), Passed(x) => Decisive(n), ledger[n] = 1 => x.applied
  PROVE  TurnInv'
<1>1. st'[n] = x /\ \A m \in Nodes \ {n} : st'[m] = st[m]
  BY DEF TurnInv, IInv, Types, Files
<1>2. Relies(n, th[n][t])'
  BY Placed DEF Relies, Relying
<1>3. Decisive(n)' = Decisive(n)
  BY DEF Decisive, Accepting
<1>4. \A m \in Nodes, u \in Threads : m # n \/ u # t => Kept(th[m][u], th'[m][u])
  BY Placed, Zenon
<1>5. ledger'[n] \in {0, 1} /\ (ledger'[n] = 1 => st'[n].applied \/ th'[n][t].pc = "mark")
  BY <1>1, TurnFacts, Zenon
<1>6. \A m \in Nodes \ {n} : st'[m] = st[m] /\ att'[m] = att[m] /\ ledger'[m] = ledger[m]
  BY <1>1, Zenon
<1>7. Lasting(st'[n]) /\ (Passed(st'[n]) => Decisive(n)') /\ crashes' = crashes
  BY <1>1, <1>3, Zenon
<1> QED
  BY <1>2, <1>4, <1>5, <1>6, <1>7, TurnStep, ZenonT(30)

LEMMA TurnMove ==
  ASSUME TurnInv, Overlap = FALSE, IInv', NEW n \in Nodes, NEW t \in Threads, Free(n, t), th[n][t].pc # "mark",
         NEW r, Put(n, t, r), r.pc \notin Relying, UNCHANGED <<att, ledger, crashes>>,
         NEW x, st' = [st EXCEPT ![n] = x], x.status = st[n].status, x.applied = st[n].applied
  PROVE  TurnInv'
<1>1. Lasting(x) /\ (Passed(x) => Decisive(n)) /\ (ledger[n] = 1 => x.applied)
  BY TurnFacts, Zenon DEF Lasting, Passed
<1> QED
  BY <1>1, TurnRecord, Zenon

LEMMA TurnStill ==
  ASSUME TurnInv, Overlap = FALSE, IInv', NEW n \in Nodes, NEW t \in Threads, Free(n, t), th[n][t].pc # "mark",
         NEW r, Put(n, t, r), r.pc \notin Relying, UNCHANGED <<st, att, ledger, crashes>>
  PROVE  TurnInv'
<1>1. st' = [st EXCEPT ![n] = st[n]]
  BY DEF TurnInv, IInv, Types, Files
<1> QED
  BY <1>1, TurnMove, Zenon

LEMMA TurnQuiet ==
  ASSUME TurnInv, Overlap = FALSE, IInv', NEW n \in Nodes, NEW t \in Threads,
         \/ StartRepair(n, t) \/ Prepare(n, t) \/ RepairLocal(n, t) \/ DecideLocally(n, t) \/ Jail(n, t)
         \/ CreditWorker(n, t) \/ SavePayout(n, t) \/ RecordEntries(n, t) \/ Request(n, t) \/ MergeChain(n, t)
         \/ Tail(n, t) \/ JobSettles(n, t) \/ Reconcile(n, t) \/ Reconciled(n, t) \/ RecordFinalized(n, t)
         \/ ImportPayouts(n, t)
  PROVE  TurnInv'
<1> DEFINE f == th[n][t]
<1>0. f \in Frames
  BY FrameOf, Zenon DEF TurnInv
<1>1. CASE StartRepair(n, t)
  <2> DEFINE r == [Idle EXCEPT !.op = "repair", !.pc = "ensure"]
  <2>1. Put(n, t, r) /\ Free(n, t) /\ f.pc # "mark" /\ UNCHANGED <<st, att, ledger, crashes>>
    BY <1>1 DEF StartRepair, At, Put, Goto, files
  <2>2. r.pc \notin Relying
    BY <1>0 DEF Frames, Relying, Idle
  <2> QED
    BY <2>1, <2>2, TurnStill, Zenon
<1>2. CASE Prepare(n, t)
  <2> DEFINE r == IF /\ st[n].status = "pending" /\ st[n].committee /\ ~Ready(n)
                   /\ st[n].audited /\ payout[n] # "none"
                THEN [f EXCEPT !.pc = "sign", !.ret = "local"] ELSE [f EXCEPT !.pc = "local"]
  <2>1. Put(n, t, r) /\ Free(n, t) /\ f.pc # "mark" /\ UNCHANGED <<st, att, ledger, crashes>>
    BY <1>2 DEF Prepare, At, Put, Goto, files
  <2>2. r.pc \notin Relying
    BY <1>0 DEF Frames, Relying
  <2> QED
    BY <2>1, <2>2, TurnStill, Zenon
<1>3. CASE RepairLocal(n, t)
  <2> DEFINE r == [f EXCEPT !.pc = IF Attestable(n) /\ able[n] = "yes" THEN "decide" ELSE "request"]
  <2>1. Put(n, t, r) /\ Free(n, t) /\ f.pc # "mark" /\ UNCHANGED <<st, att, ledger, crashes>>
    BY <1>3 DEF RepairLocal, At, Put, Goto, files
  <2>2. r.pc \notin Relying
    BY <1>0 DEF Frames, Relying
  <2> QED
    BY <2>1, <2>2, TurnStill, Zenon
<1>4. CASE DecideLocally(n, t)
  <2> DEFINE r == IF Enabled(n)
                THEN [f EXCEPT !.pc = "attest", !.who = n, !.dec = able[n],
                               !.ret = IF able[n] = "yes" THEN "request" ELSE "jail"]
                ELSE [f EXCEPT !.pc = "request"]
  <2>1. Put(n, t, r) /\ Free(n, t) /\ f.pc # "mark" /\ UNCHANGED <<st, att, ledger, crashes>>
    BY <1>4 DEF DecideLocally, At, Put, Goto, files
  <2>2. r.pc \notin Relying
    BY <1>0 DEF Frames, Relying
  <2> QED
    BY <2>1, <2>2, TurnStill, Zenon
<1>5. CASE Jail(n, t)
  <2> DEFINE r == [f EXCEPT !.pc = "request"]
  <2>1. Put(n, t, r) /\ Free(n, t) /\ f.pc # "mark" /\ UNCHANGED <<st, att, ledger, crashes>>
    BY <1>5 DEF Jail, At, Put, Goto, files
  <2>2. r.pc \notin Relying
    BY <1>0 DEF Frames, Relying
  <2> QED
    BY <2>1, <2>2, TurnStill, Zenon
<1>6. CASE CreditWorker(n, t)
  <2> DEFINE r == IF payout[n] \in {"none", "credited"} THEN [f EXCEPT !.pc = "entries"]
                ELSE [f EXCEPT !.pc = "paid", !.pay = IF n = Home THEN "credited" ELSE "external"]
  <2>1. Put(n, t, r) /\ Free(n, t) /\ f.pc # "mark" /\ UNCHANGED <<st, att, ledger, crashes>>
    BY <1>6 DEF CreditWorker, At, Put, Goto, files, Credit
  <2>2. r.pc \notin Relying
    BY <1>0 DEF Frames, Relying
  <2> QED
    BY <2>1, <2>2, TurnStill, Zenon
<1>7. CASE SavePayout(n, t)
  <2> DEFINE r == [f EXCEPT !.pc = "entries", !.pay = "none"]
  <2>1. Put(n, t, r) /\ Free(n, t) /\ f.pc # "mark" /\ UNCHANGED <<st, att, ledger, crashes>>
    BY <1>7 DEF SavePayout, At, Put, Goto, files
  <2>2. r.pc \notin Relying
    BY <1>0 DEF Frames, Relying
  <2> QED
    BY <2>1, <2>2, TurnStill, Zenon
<1>8. CASE RecordEntries(n, t)
  <2> DEFINE r == [f EXCEPT !.pc = f.ret]
  <2>1. Put(n, t, r) /\ Free(n, t) /\ f.pc # "mark" /\ UNCHANGED <<st, att, ledger, crashes>>
    BY <1>8 DEF RecordEntries, At, Put, Goto, files, Return
  <2>2. r.pc \notin Relying
    BY <1>0 DEF Frames, Relying, Returns
  <2> QED
    BY <2>1, <2>2, TurnStill, Zenon
<1>9. CASE Request(n, t)
  <2> DEFINE r == IF IF f.op = "job" THEN st[n].committee ELSE Attestable(n)
                THEN [f EXCEPT !.pc = "next", !.proposal = st[n].envelope, !.todo = Committee \ {n}]
                ELSE [f EXCEPT !.pc = "tail"]
  <2>1. Put(n, t, r) /\ Free(n, t) /\ f.pc # "mark" /\ UNCHANGED <<st, att, ledger, crashes>>
    BY <1>9 DEF Request, At, Put, Goto, files
  <2>2. r.pc \notin Relying
    BY <1>0 DEF Frames, Relying
  <2> QED
    BY <2>1, <2>2, TurnStill, Zenon
<1>10. CASE MergeChain(n, t)
  <2> DEFINE r == [f EXCEPT !.pc = "next", !.carry = FALSE]
  <2>1. Put(n, t, r) /\ Free(n, t) /\ f.pc # "mark" /\ UNCHANGED <<st, att, ledger, crashes>>
    BY <1>10 DEF MergeChain, At, Put, Goto, files
  <2>2. r.pc \notin Relying
    BY <1>0 DEF Frames, Relying
  <2> QED
    BY <2>1, <2>2, TurnStill, Zenon
<1>11. CASE Tail(n, t)
  <2> DEFINE r == IF st[n].status = "finalized" /\ (chain[n] \/ (f.op = "repair" /\ Enabled(n)))
                THEN [f EXCEPT !.pc = "apply", !.ret = Settling(f), !.who = n] ELSE [f EXCEPT !.pc = Settling(f)]
  <2>1. Put(n, t, r) /\ Free(n, t) /\ f.pc # "mark" /\ UNCHANGED <<st, att, ledger, crashes>>
    BY <1>11 DEF Tail, At, Put, Goto, files
  <2>2. r.pc \notin Relying
    BY <1>0 DEF Frames, Relying, Settling
  <2> QED
    BY <2>1, <2>2, TurnStill, Zenon
<1>12. CASE JobSettles(n, t)
  <2> DEFINE r == IF st[n].status = "applied" THEN [f EXCEPT !.pc = "reconcile"] ELSE Idle
  <2>1. Put(n, t, r) /\ Free(n, t) /\ f.pc # "mark" /\ UNCHANGED <<st, att, ledger, crashes>>
    BY <1>12 DEF JobSettles, At, Put, Goto, files
  <2>2. r.pc \notin Relying
    BY <1>0 DEF Frames, Relying, Idle
  <2> QED
    BY <2>1, <2>2, TurnStill, Zenon
<1>13. CASE Reconcile(n, t)
  <2> DEFINE r == IF payout[n] \in {"none", "credited"} THEN [f EXCEPT !.pc = "record"]
                ELSE IF st[n].status = "applied" \/ st[n].applied
                THEN [f EXCEPT !.pc = "reconciled", !.pay = IF n = Home THEN "credited" ELSE "external"]
                ELSE [f EXCEPT !.pc = "reconciled", !.pay = "pending"]
  <2>1. Put(n, t, r) /\ Free(n, t) /\ f.pc # "mark" /\ UNCHANGED <<st, att, ledger, crashes>>
    BY <1>13 DEF Reconcile, At, Put, Goto, files, Credit
  <2>2. r.pc \notin Relying
    BY <1>0 DEF Frames, Relying
  <2> QED
    BY <2>1, <2>2, TurnStill, Zenon
<1>14. CASE Reconciled(n, t)
  <2> DEFINE r == [f EXCEPT !.pc = "record"]
  <2>1. Put(n, t, r) /\ Free(n, t) /\ f.pc # "mark" /\ UNCHANGED <<st, att, ledger, crashes>>
    BY <1>14 DEF Reconciled, At, Put, Goto, files
  <2>2. r.pc \notin Relying
    BY <1>0 DEF Frames, Relying
  <2> QED
    BY <2>1, <2>2, TurnStill, Zenon
<1>15. CASE RecordFinalized(n, t)
  <2> DEFINE r == Idle
  <2>1. Put(n, t, r) /\ Free(n, t) /\ f.pc # "mark" /\ UNCHANGED <<st, att, ledger, crashes>>
    BY <1>15 DEF RecordFinalized, At, Put, Goto, files
  <2>2. r.pc \notin Relying
    BY <1>0, Zenon DEF Frames, Relying, Idle
  <2> QED
    BY <2>1, <2>2, TurnStill, Zenon
<1>16. CASE ImportPayouts(n, t)
  <2> DEFINE r == [f EXCEPT !.pc = "attest", !.who = n, !.dec = "yes", !.ret = "reply"]
  <2>1. Put(n, t, r) /\ Free(n, t) /\ f.pc # "mark" /\ UNCHANGED <<st, att, ledger, crashes>>
    BY <1>16 DEF ImportPayouts, At, Put, Goto, files
  <2>2. r.pc \notin Relying
    BY <1>0 DEF Frames, Relying
  <2> QED
    BY <2>1, <2>2, TurnStill, Zenon
<1> QED
  BY <1>1, <1>2, <1>3, <1>4, <1>5, <1>6, <1>7, <1>8, <1>9, <1>10, <1>11, <1>12, <1>13, <1>14, <1>15, <1>16, SMTT(30)


LEMMA TurnRecords ==
  ASSUME TurnInv, Overlap = FALSE, IInv', NEW n \in Nodes, NEW t \in Threads,
         RecordWorkerPayouts(n, t) \/ RecordExecutionAudit(n, t) \/ SignEnvelope(n, t) \/ EnsureCommittee(n, t)
  PROVE  TurnInv'
<1> DEFINE f == th[n][t]
<1>0. f \in Frames /\ st[n] \in Settlements
  BY FrameOf, Zenon DEF TurnInv
<1>1. CASE RecordWorkerPayouts(n, t)
  <2> DEFINE r == [f EXCEPT !.pc = "audit"]
             x == [st[n] EXCEPT !.envelope = Outdated(@)]
  <2>1. /\ Put(n, t, r) /\ Free(n, t) /\ f.pc # "mark" /\ UNCHANGED <<att, ledger, crashes>>
        /\ st' = [st EXCEPT ![n] = x]
    BY <1>1 DEF RecordWorkerPayouts, At, Put, Goto, Record
  <2>2. r.pc \notin Relying
    BY <1>0 DEF Frames, Relying
  <2>3. x.status = st[n].status /\ x.applied = st[n].applied
    BY <1>0 DEF Settlements
  <2> QED
    BY <2>1, <2>2, <2>3, TurnMove, Zenon
<1>2. CASE RecordExecutionAudit(n, t)
  <2> DEFINE r == [f EXCEPT !.pc = "sign"]
             x == [st[n] EXCEPT !.audited = TRUE, !.envelope = Outdated(@)]
  <2>1. /\ Put(n, t, r) /\ Free(n, t) /\ f.pc # "mark" /\ UNCHANGED <<att, ledger, crashes>>
        /\ st' = [st EXCEPT ![n] = x]
    BY <1>2 DEF RecordExecutionAudit, At, Put, Goto, Record
  <2>2. r.pc \notin Relying
    BY <1>0 DEF Frames, Relying
  <2>3. x.status = st[n].status /\ x.applied = st[n].applied
    BY <1>0 DEF Settlements
  <2> QED
    BY <2>1, <2>2, <2>3, TurnMove, Zenon
<1>3. CASE SignEnvelope(n, t)
  <2>1. PICK e : st' = [st EXCEPT ![n] = [st[n] EXCEPT !.envelope = e]]
    BY <1>3 DEF SignEnvelope, Record
  <2> DEFINE r == [f EXCEPT !.pc = IF f.op = "job" THEN "decide" ELSE f.ret]
             x == [st[n] EXCEPT !.envelope = e]
  <2>2. Put(n, t, r) /\ Free(n, t) /\ f.pc # "mark" /\ UNCHANGED <<att, ledger, crashes>>
    BY <1>3 DEF SignEnvelope, At, Put, Goto
  <2>3. r.pc \notin Relying
    BY <1>0 DEF Frames, Returns, Relying
  <2>4. x.status = st[n].status /\ x.applied = st[n].applied
    BY <1>0 DEF Settlements
  <2> QED
    BY <2>1, <2>2, <2>3, <2>4, TurnMove, Zenon
<1>4. CASE EnsureCommittee(n, t)
  <2> DEFINE r == IF st[n].committee THEN [f EXCEPT !.pc = "reset"] ELSE [f EXCEPT !.pc = "sign", !.ret = "reset"]
             x == IF st[n].committee THEN st[n] ELSE [st[n] EXCEPT !.committee = TRUE, !.envelope = Outdated(@)]
  <2>1. Put(n, t, r) /\ Free(n, t) /\ f.pc # "mark" /\ UNCHANGED <<att, ledger, crashes>>
    BY <1>4 DEF EnsureCommittee, At, Put, Goto
  <2>2. st' = [st EXCEPT ![n] = x]
    BY <1>4 DEF EnsureCommittee, Record, TurnInv, IInv, Types, Files
  <2>3. r.pc \notin Relying
    BY <1>0 DEF Frames, Relying
  <2>4. x.status = st[n].status /\ x.applied = st[n].applied
    BY <1>0 DEF Settlements
  <2> QED
    BY <2>1, <2>2, <2>3, <2>4, TurnMove, Zenon
<1> QED
  BY <1>1, <1>2, <1>3, <1>4

-----------------------------------------------------------------------------
(***************************************************************************)
(* Steps that ask and answer reach other threads, but only those that rest. *)
(***************************************************************************)
LEMMA TurnMessage ==
  ASSUME TurnInv, Overlap = FALSE, IInv', NEW n \in Nodes, NEW t \in Threads, Free(n, t), th[n][t].pc # "mark",
         th'[n][t].pc \notin Relying, UNCHANGED <<st, att, ledger, crashes>>,
         \A m \in Nodes, u \in Threads : m # n \/ u # t => Kept(th[m][u], th'[m][u])
  PROVE  TurnInv'
<1>1. Relies(n, th[n][t])'
  BY Zenon DEF Relies, Relying
<1>2. Decisive(n)' = Decisive(n)
  BY DEF Decisive, Accepting
<1>3. /\ ledger'[n] \in {0, 1} /\ (ledger'[n] = 1 => st'[n].applied \/ th'[n][t].pc = "mark") /\ Lasting(st'[n])
      /\ Passed(st'[n]) => Decisive(n)'
  BY <1>2, TurnFacts, Zenon
<1>4. \A m \in Nodes \ {n} : st'[m] = st[m] /\ att'[m] = att[m] /\ ledger'[m] = ledger[m]
  BY Zenon
<1> QED
  BY <1>1, <1>3, <1>4, TurnStep, ZenonT(30)

LEMMA TurnAskNext ==
  ASSUME TurnInv, Overlap = FALSE, IInv', NEW n \in Nodes, NEW t \in Threads, AskNext(n, t)
  PROVE  TurnInv'
<1> DEFINE f == th[n][t]
<1>1. f \in Frames
  BY FrameOf DEF TurnInv
<1>2. Free(n, t) /\ f.pc # "mark" /\ UNCHANGED <<st, att, ledger, crashes>>
  BY Zenon DEF AskNext, At, files
<1>3. CASE f.todo = {}
  <2> DEFINE r == [f EXCEPT !.pc = "tail", !.proposal = "none", !.dec = "none"]
  <2>1. Put(n, t, r)
    BY <1>3 DEF AskNext
  <2>2. r.pc \notin Relying
    BY <1>1 DEF Frames, Relying
  <2> QED
    BY <1>2, <2>1, <2>2, TurnStill, Zenon
<1>4. CASE f.todo # {}
  <2>1. PICK v : Put(n, t, [f EXCEPT !.pc = "wait", !.who = v, !.todo = @ \ {v}])
    BY <1>4, Zenon DEF AskNext
  <2> DEFINE r == [f EXCEPT !.pc = "wait", !.who = v, !.todo = @ \ {v}]
  <2>2. r.pc \notin Relying
    BY <1>1 DEF Frames, Relying
  <2> QED
    BY <1>2, <2>1, <2>2, TurnStill, Zenon
<1> QED
  BY <1>3, <1>4

LEMMA TurnGiveUp ==
  ASSUME TurnInv, Overlap = FALSE, IInv', NEW n \in Nodes, NEW t \in Threads, GiveUp(n, t)
  PROVE  TurnInv'
<1> DEFINE g == [th EXCEPT ![n][t].pc = "next"]
           N == {<<n, t>>}
<1>1. Free(n, t) /\ th[n][t].pc # "mark" /\ UNCHANGED <<st, att, ledger, crashes>> /\ th' = OrphanThreads(N, g)
  BY DEF GiveUp, At, files
<1>2. th \in [Nodes -> [Threads -> Frames]]
  BY Zenon DEF TurnInv, IInv, Types
<1>3. /\ g[n][t].pc = "next" /\ g[n][t] \in Frames
      /\ \A m \in Nodes, u \in Threads : m # n \/ u # t => g[m][u] = th[m][u] /\ th[m][u] \in Frames
  <2> DEFINE r == [th[n][t] EXCEPT !.pc = "next"]
  <2>1. \A m \in Nodes, u \in Threads : g[m][u] = IF m = n /\ u = t THEN r ELSE th[m][u]
    BY ONLY <1>2, n \in Nodes, t \in Threads
  <2>2. th[n][t] \in Frames /\ \A m \in Nodes, u \in Threads : th[m][u] \in Frames
    BY ONLY <1>2, n \in Nodes, t \in Threads
  <2>3. r.pc = "next" /\ r \in Frames
    BY ONLY <2>2 DEF Frames, Steps, HandlerSteps, PaidSteps
  <2> HIDE DEF r, g
  <2> QED
    BY <2>1, <2>2, <2>3, Zenon
<1> HIDE DEF g
<1>4. \A q \in Frames : Orphaned(q).pc = q.pc /\ Orphaned(q).ret = q.ret /\ Orphaned(q).snap = q.snap
  BY DEF Orphaned, Frames
<1>5. \A m \in Nodes, u \in Threads : th'[m][u] = g[m][u] \/ th'[m][u] = Orphaned(g[m][u])
  BY <1>1 DEF OrphanThreads
<1>6. th'[n][t].pc \notin Relying
  BY <1>3, <1>4, <1>5 DEF Relying
<1>7. ASSUME NEW m \in Nodes, NEW u \in Threads, m # n \/ u # t PROVE Kept(th[m][u], th'[m][u])
  BY <1>3, <1>4, <1>5, <1>7 DEF Kept
<1> QED
  BY <1>1, <1>6, <1>7, TurnMessage, Zenon

LEMMA TurnReply ==
  ASSUME TurnInv, Overlap = FALSE, IInv', NEW n \in Nodes, NEW t \in Threads, Reply(n, t)
  PROVE  TurnInv'
<1> DEFINE f == th[n][t]
           g == [th EXCEPT ![n][t] = Idle]
<1>1. Free(n, t) /\ f.pc = "reply" /\ UNCHANGED <<st, att, ledger, crashes>>
  BY Zenon DEF Reply, At, files
<1>2. th \in [Nodes -> [Threads -> Frames]] /\ Idle.pc = "idle"
  BY IdleFields, Zenon DEF TurnInv, IInv, Types
<1>3. g[n][t] = Idle /\ \A m \in Nodes, u \in Threads : m # n \/ u # t => g[m][u] = th[m][u]
  BY <1>2
<1>4. CASE f.from = <<>>
  <2>1. Put(n, t, Idle)
    BY <1>4 DEF Reply, Put
  <2> QED
    BY <1>1, <1>2, <2>1, TurnStill, Zenon DEF Relying
<1>5. CASE f.from # <<>>
  <2> DEFINE m == f.from[1]
             u == f.from[2]
             q == [g[m][u] EXCEPT !.pc = "attest", !.dec = f.dec, !.ret = "merge",
                                  !.carry = f.dec = "yes" /\ chain[n]]
  <2>1. m \in Nodes /\ u \in Threads /\ th[m][u].pc = "wait"
    <3> DEFINE caller == f.from
    <3>1. Waits(caller, n, th)
      BY <1>5, Zenon DEF TurnInv, IInv, Linked
    <3> HIDE DEF caller
    <3>2. caller[1] \in Nodes /\ caller[2] \in Threads /\ th[caller[1]][caller[2]].pc = "wait"
      BY <3>1, WaitsFor, Zenon
    <3> QED
      BY <3>2, Zenon DEF caller
  <2>2. m # n \/ u # t
    BY <1>1, <2>1, Zenon
  <2>3. g \in [Nodes -> [Threads -> Frames]]
    BY <1>2, IdleFields
  <2>4. th' = [g EXCEPT ![m][u] = q]
    BY <1>5, Zenon DEF Reply
  <2>5. q.pc = "attest" /\ q.ret = "merge"
    <3>1. g[m][u] \in Frames
      BY <2>1, <2>3, Zenon
    <3> QED
      BY <3>1, Zenon DEF Frames
  <2> HIDE DEF m, u, q, g
  <2>6. th'[m][u] = q /\ \A k \in Nodes, w \in Threads : k # m \/ w # u => th'[k][w] = g[k][w]
    BY <2>1, <2>3, <2>4
  <2>7. th'[n][t].pc \notin Relying
    BY <1>2, <1>3, <2>2, <2>6 DEF Relying
  <2>8. ASSUME NEW k \in Nodes, NEW w \in Threads, k # n \/ w # t PROVE Kept(th[k][w], th'[k][w])
    BY <1>3, <2>1, <2>5, <2>6, <2>8, ZenonT(30) DEF Kept, Resting
  <2>9. f.pc # "mark"
    BY <1>1
  <2> QED
    BY <1>1, <2>7, <2>8, <2>9, TurnMessage, Zenon
<1> QED
  BY <1>4, <1>5

-----------------------------------------------------------------------------
(***************************************************************************)
(* Attestations: the accepting bond only grows, and decides.               *)
(***************************************************************************)
LEMMA MoreVotes ==
  ASSUME IInv, NEW n \in Nodes, Decisive(n), Accepting(n) \subseteq Accepting(n)'
  PROVE  Decisive(n)'
<1> DEFINE V == Accepting(n)
           W == Accepting(n)'
<1>1. V \in SUBSET Committee /\ W \in SUBSET Committee /\ V \in SUBSET W /\ Committee \in SUBSET Committee
  BY DEF Accepting
<1>2. BondOf(V) \in Nat /\ BondOf(W) \in Nat /\ BondOf(V) <= BondOf(W) /\ BondOf(Committee) \in Nat
  BY <1>1, BondsAdd
<1>3. QuorumBond \in Int
  BY <1>2 DEF QuorumBond
<1>4. BondOf(V) >= QuorumBond
  BY DEF Decisive
<1> HIDE DEF V, W
<1>5. BondOf(W) >= QuorumBond
  BY <1>2, <1>3, <1>4
<1> QED
  BY <1>5 DEF W, Decisive

LEMMA TurnAttest ==
  ASSUME TurnInv, Overlap = FALSE, IInv', NEW n \in Nodes, NEW t \in Threads, Attest(n, t)
  PROVE  TurnInv'
<1> DEFINE f == th[n][t]
           old == att[n][f.who]
<1>1. Free(n, t) /\ f.pc = "attest" /\ UNCHANGED <<st, ledger, crashes>>
  BY DEF Attest, At
<1>2. f \in Frames /\ f.who \in Committee
  BY <1>1, FrameOf, Zenon DEF TurnInv, Frame, Believes
<1>3. CASE old # "none" /\ (old = "yes") # (f.dec = "yes")
  <2>1. Put(n, t, OnConflict(n, t)) /\ UNCHANGED att
    BY <1>3, Zenon DEF Attest
  <2>2. OnConflict(n, t).pc \in {"reply", "jail", "next"}
    BY <1>2 DEF OnConflict, Frames
  <2>3. OnConflict(n, t).pc \notin Relying /\ f.pc # "mark"
    BY <1>1, <2>2, Zenon DEF Relying
  <2> QED
    BY <1>1, <2>1, <2>3, TurnStill, Zenon
<1>4. CASE ~(old # "none" /\ (old = "yes") # (f.dec = "yes"))
  <2> DEFINE r == [f EXCEPT !.pc = "refresh"]
  <2>1. /\ att' = [att EXCEPT ![n][f.who] = IF old = "none" THEN f.dec ELSE old]
        /\ Put(n, t, r)
    BY <1>4, Zenon DEF Attest, Goto
  <2>2. att \in [Nodes -> [Committee -> Votes]]
    BY DEF TurnInv, IInv, Types, Files
  <2>3. Accepting(n) \subseteq Accepting(n)' /\ \A m \in Nodes \ {n} : att'[m] = att[m]
    BY <1>2, <2>1, <2>2 DEF Accepting
  <2>4. r.pc = "refresh"
    BY <1>2 DEF Frames
  <2> HIDE DEF r
  <2>5. Relies(n, th[n][t])'
    BY <2>1, <2>4, Placed DEF Relies
  <2>6. Passed(st'[n]) => Decisive(n)'
    BY <1>1, <2>3, TurnFacts, MoreVotes, Zenon DEF TurnInv
  <2>7. f.pc # "mark"
    BY <1>1
  <2>8. \A m \in Nodes, u \in Threads : m # n \/ u # t => Kept(th[m][u], th'[m][u])
    BY <2>1, Placed, Zenon
  <2>9. ledger'[n] \in {0, 1} /\ (ledger'[n] = 1 => st'[n].applied) /\ Lasting(st'[n])
    BY <1>1, <2>7, TurnFacts, Zenon
  <2>10. \A m \in Nodes \ {n} : st'[m] = st[m] /\ att'[m] = att[m] /\ ledger'[m] = ledger[m]
    BY <1>1, <2>3, Zenon
  <2> QED
    BY <1>1, <2>5, <2>6, <2>8, <2>9, <2>10, TurnStep, ZenonT(30)
<1> QED
  BY <1>3, <1>4

LEMMA TurnRefresh ==
  ASSUME TurnInv, Overlap = FALSE, IInv', NEW n \in Nodes, NEW t \in Threads, Refresh(n, t)
  PROVE  TurnInv'
<1> DEFINE f == th[n][t]
           x == [st[n] EXCEPT !.status = Finality(n)]
           r == [f EXCEPT !.pc = "save", !.snap = x]
<1>1. Free(n, t) /\ f.pc # "mark" /\ UNCHANGED <<st, att, ledger, crashes>> /\ Put(n, t, r)
  BY DEF Refresh, At, files
<1>2. f \in Frames /\ st[n] \in Settlements
  BY FrameOf, Zenon DEF TurnInv
<1>3. x.applied = st[n].applied /\ x.status = Finality(n) /\ r.pc = "save" /\ r.snap = x
  BY <1>2 DEF Settlements, Frames
<1>4. Finality(n) # "none" /\ (Finality(n) = "rejected" => ~Decisive(n))
      /\ (Finality(n) \in {"finalized", "applied"} => Decisive(n))
  BY DEF Finality, Decisive
<1>5. Decisive(n)' = Decisive(n)
  BY <1>1 DEF Decisive, Accepting
<1> HIDE DEF x, r
<1>6. Lasting(x) /\ (Passed(x) => Decisive(n))
  BY <1>1, <1>3, <1>4, TurnFacts, Zenon DEF Lasting, Passed
<1>7. Relies(n, th[n][t])'
  BY <1>1, <1>3, <1>5, <1>6, Placed, Zenon DEF Relies
<1>8. \A m \in Nodes, u \in Threads : m # n \/ u # t => Kept(th[m][u], th'[m][u])
  BY <1>1, Placed, Zenon
<1>9. /\ ledger'[n] \in {0, 1} /\ (ledger'[n] = 1 => st'[n].applied) /\ Lasting(st'[n])
      /\ Passed(st'[n]) => Decisive(n)'
  BY <1>1, <1>5, TurnFacts, Zenon
<1>10. \A m \in Nodes \ {n} : st'[m] = st[m] /\ att'[m] = att[m] /\ ledger'[m] = ledger[m]
  BY <1>1, Zenon
<1> QED
  BY <1>1, <1>7, <1>8, <1>9, <1>10, TurnStep, ZenonT(30)

LEMMA TurnSaveFinality ==
  ASSUME TurnInv, Overlap = FALSE, IInv', NEW n \in Nodes, NEW t \in Threads, SaveFinality(n, t)
  PROVE  TurnInv'
<1> DEFINE f == th[n][t]
           r == [f EXCEPT !.snap = NoRecord, !.pc = IF f.who = n /\ f.snap.status = "finalized" THEN "apply" ELSE f.ret]
<1>1. Free(n, t) /\ f.pc = "save" /\ UNCHANGED <<att, ledger, crashes>> /\ Put(n, t, r) /\ st' = [st EXCEPT ![n] = f.snap]
  BY DEF SaveFinality, At, Record
<1>2. r.pc \notin Relying
  BY FrameOf DEF TurnInv, Frames, Returns, Relying
<1>3. Lasting(f.snap) /\ (Passed(f.snap) => Decisive(n)) /\ (ledger[n] = 1 => f.snap.applied)
  BY <1>1, TurnFacts, Zenon DEF Relies
<1> QED
  BY <1>1, <1>2, <1>3, TurnRecord, Zenon

LEMMA TurnApply ==
  ASSUME TurnInv, Overlap = FALSE, IInv', NEW n \in Nodes, NEW t \in Threads, Apply(n, t)
  PROVE  TurnInv'
<1> DEFINE f == th[n][t]
<1>1. Free(n, t) /\ f.pc = "apply" /\ f.pc # "mark" /\ UNCHANGED <<att, crashes>>
  BY DEF Apply, At
<1>2. f \in Frames /\ st[n] \in Settlements
  BY FrameOf DEF TurnInv
<1>3. CASE Return(n, t) /\ UNCHANGED <<st, ledger>>
  <2> DEFINE r == [f EXCEPT !.pc = f.ret]
  <2>1. Put(n, t, r)
    BY <1>3 DEF Return, Goto
  <2>2. r.pc \notin Relying
    BY <1>2 DEF Frames, Returns, Relying
  <2> QED
    BY <1>1, <1>3, <2>1, <2>2, TurnStill, Zenon
<1>4. CASE /\ st[n].status \in {"finalized", "applied"} /\ ~st[n].applied
           /\ ledger' = [ledger EXCEPT ![n] = More(@)]
           /\ Put(n, t, [f EXCEPT !.pc = "mark", !.snap = st[n]])
           /\ UNCHANGED st
  <2> DEFINE r == [f EXCEPT !.pc = "mark", !.snap = st[n]]
  <2>1. r.pc = "mark"
    BY <1>2 DEF Frames
  <2> HIDE DEF r
  <2>2. th'[n][t] = r /\ \A m \in Nodes, u \in Threads : m # n \/ u # t => Kept(th[m][u], th'[m][u])
    BY <1>4, Placed DEF r
  <2>3. ledger[n] = 0 /\ ledger \in [Nodes -> Nat]
    BY <1>1, <1>4, TurnFacts, Zenon DEF TurnInv, IInv, Types, Files
  <2>4. ledger'[n] = 1 /\ \A m \in Nodes \ {n} : ledger'[m] = ledger[m]
    BY <1>4, <2>3 DEF More
  <2>5. Decisive(n) /\ Decisive(n)' = Decisive(n)
    BY <1>1, <1>4, TurnFacts, Zenon DEF Passed, Decisive, Accepting
  <2>6. Relies(n, th[n][t])'
    BY <1>4, <2>1, <2>2, <2>5 DEF Relies
  <2>7. /\ ledger'[n] \in {0, 1} /\ (ledger'[n] = 1 => th'[n][t].pc = "mark") /\ Lasting(st'[n])
        /\ Passed(st'[n]) => Decisive(n)'
    BY <1>1, <1>4, <2>1, <2>2, <2>4, <2>5, TurnFacts, Zenon
  <2>8. \A m \in Nodes \ {n} : st'[m] = st[m] /\ att'[m] = att[m] /\ ledger'[m] = ledger[m]
    BY <1>1, <1>4, <2>4, Zenon
  <2>9. Free(n, t) /\ crashes' = crashes /\ (ledger'[n] = 1 => st'[n].applied \/ th'[n][t].pc = "mark")
    BY <1>1, <2>7, Zenon
  <2> QED
    BY ONLY TurnInv, Overlap = FALSE, IInv', n \in Nodes, t \in Threads, <2>2, <2>6, <2>7, <2>8, <2>9, TurnStep, ZenonT(30)
<1>5. CASE Raise(n, t) /\ UNCHANGED <<st, ledger>>
  <2> DEFINE r == IF f.op = "handle" THEN [f EXCEPT !.pc = "reply", !.dec = "no"]
                  ELSE IF f.op = "repair" /\ f.ret \in {"request", "jail"} THEN [f EXCEPT !.pc = "request"]
                  ELSE Idle
  <2>1. Put(n, t, r)
    BY <1>5 DEF Raise
  <2>2. r.pc \notin Relying
    BY <1>2, IdleFields DEF Frames, Relying
  <2> QED
    BY <1>1, <1>5, <2>1, <2>2, TurnStill, Zenon
<1>6. CASE /\ st[n].applied /\ st' = [st EXCEPT ![n] = [st[n] EXCEPT !.status = "applied"]]
           /\ Goto(n, t, "credit") /\ UNCHANGED ledger
  <2> DEFINE r == [f EXCEPT !.pc = "credit"]
             x == [st[n] EXCEPT !.status = "applied"]
  <2>1. Put(n, t, r) /\ st' = [st EXCEPT ![n] = x] /\ UNCHANGED ledger
    BY <1>6 DEF Goto
  <2>2. r.pc \notin Relying
    BY <1>2 DEF Frames, Relying
  <2>3. x.status = "applied" /\ x.applied = st[n].applied
    BY <1>2 DEF Settlements
  <2> HIDE DEF x, r
  <2>4. Lasting(x) /\ (Passed(x) => Decisive(n)) /\ (ledger[n] = 1 => x.applied)
    BY <1>1, <1>6, <2>3, TurnFacts, Zenon DEF Lasting, Passed
  <2> QED
    BY <1>1, <2>1, <2>2, <2>4, TurnRecord, Zenon
<1> QED
  BY <1>3, <1>4, <1>5, <1>6 DEF Apply, Record

LEMMA TurnMarkApplied ==
  ASSUME TurnInv, Overlap = FALSE, IInv', NEW n \in Nodes, NEW t \in Threads, MarkApplied(n, t)
  PROVE  TurnInv'
<1> DEFINE f == th[n][t]
           r == [f EXCEPT !.pc = "credit", !.snap = NoRecord]
           x == [f.snap EXCEPT !.status = "applied", !.applied = TRUE]
<1>1. Free(n, t) /\ f.pc = "mark" /\ UNCHANGED <<att, ledger, crashes>> /\ Put(n, t, r) /\ st' = [st EXCEPT ![n] = x]
  BY DEF MarkApplied, At, Record
<1>2. r.pc \notin Relying /\ x.status = "applied" /\ x.applied = TRUE
  BY FrameOf DEF TurnInv, Frames, Settlements, Relying
<1> HIDE DEF r, x
<1>3. Lasting(x) /\ (Passed(x) => Decisive(n)) /\ (ledger[n] = 1 => x.applied)
  BY <1>1, <1>2, TurnFacts, Zenon DEF Lasting, Relies
<1> QED
  BY <1>1, <1>2, <1>3, TurnRecord, Zenon

LEMMA TurnResetSave ==
  ASSUME TurnInv, Overlap = FALSE, IInv', NEW n \in Nodes, NEW t \in Threads, ResetSave(n, t)
  PROVE  TurnInv'
<1> DEFINE f == th[n][t]
           r == [f EXCEPT !.pc = "prepare"]
           x == [st[n] EXCEPT !.status = "pending", !.applied = FALSE]
<1>1. Free(n, t) /\ f.pc = "resetsave" /\ UNCHANGED <<att, ledger, crashes>> /\ Put(n, t, r) /\ st' = [st EXCEPT ![n] = x]
  BY DEF ResetSave, At, Record, Goto
<1>2. r.pc \notin Relying /\ x.status = "pending" /\ x.applied = FALSE
  BY FrameOf DEF TurnInv, Frames, Settlements, Relying
<1> HIDE DEF r, x
<1>3. Lasting(x) /\ ~Passed(x) /\ ledger[n] # 1
  BY <1>1, <1>2, TurnFacts, Zenon DEF Lasting, Passed, Relies
<1> QED
  BY <1>1, <1>2, <1>3, TurnRecord, Zenon

LEMMA TurnResetRejection ==
  ASSUME TurnInv, Overlap = FALSE, IInv', NEW n \in Nodes, NEW t \in Threads, ResetRejection(n, t)
  PROVE  TurnInv'
<1> DEFINE f == th[n][t]
           x(e) == [st[n] EXCEPT !.envelope = e]
           r(s) == [f EXCEPT !.pc = s]
<1>1. Free(n, t) /\ f.pc # "mark" /\ UNCHANGED <<ledger, crashes>>
  BY DEF ResetRejection, At
<1>2. f \in Frames /\ st[n] \in Settlements
  BY FrameOf DEF TurnInv
<1>3. /\ \A e : x(e).status = st[n].status /\ x(e).applied = st[n].applied
      /\ r("prepare").pc = "prepare" /\ r("resetsave").pc = "resetsave"
  BY <1>2 DEF Settlements, Frames
<1>4. /\ r("prepare").pc \notin Relying
      /\ \/ /\ st[n].status = "rejected" /\ st' = [st EXCEPT ![n] = x("signed")]
            /\ att' = [att EXCEPT ![n] = [v \in Committee |-> "none"]] /\ Put(n, t, r("resetsave"))
         \/ st' = [st EXCEPT ![n] = x("unsigned")] /\ UNCHANGED att /\ Put(n, t, r("prepare"))
         \/ UNCHANGED <<st, att>> /\ Put(n, t, r("prepare"))
  BY <1>3 DEF ResetRejection, Record, Goto, Relying
<1> HIDE DEF x, r
<1>5. CASE /\ st[n].status = "rejected" /\ st' = [st EXCEPT ![n] = x("signed")]
           /\ att' = [att EXCEPT ![n] = [v \in Committee |-> "none"]] /\ Put(n, t, r("resetsave"))
  <2>1. ~st[n].applied /\ ledger[n] # 1
    BY <1>1, <1>5, TurnFacts, Zenon DEF Lasting
  <2>2. /\ st'[n].status = "rejected" /\ ~st'[n].applied
        /\ \A m \in Nodes \ {n} : st'[m] = st[m] /\ att'[m] = att[m]
    BY <1>3, <1>5, <2>1, Zenon DEF TurnInv, IInv, Types, Files
  <2>3. Relies(n, th[n][t])'
    BY <1>3, <1>5, <2>2, Placed, Zenon DEF Relies
  <2>4. Lasting(st'[n]) /\ ~Passed(st'[n])
    BY <2>2 DEF Lasting, Passed
  <2>5. \A m \in Nodes, u \in Threads : m # n \/ u # t => Kept(th[m][u], th'[m][u])
    BY <1>5, Placed, Zenon
  <2>6. \A m \in Nodes \ {n} : st'[m] = st[m] /\ att'[m] = att[m] /\ ledger'[m] = ledger[m]
    BY <1>1, <2>2, Zenon
  <2>7. ledger'[n] \in {0, 1} /\ ledger'[n] # 1
    BY <1>1, <2>1, TurnFacts, Zenon
  <2> QED
    BY <1>1, <2>3, <2>4, <2>5, <2>6, <2>7, TurnStep, ZenonT(30)
<1>6. CASE st' = [st EXCEPT ![n] = x("unsigned")] /\ UNCHANGED att /\ Put(n, t, r("prepare"))
  BY <1>1, <1>3, <1>4, <1>6, TurnMove, Zenon
<1>7. CASE UNCHANGED <<st, att>> /\ Put(n, t, r("prepare"))
  BY <1>1, <1>4, <1>7, TurnStill, Zenon
<1> QED
  BY <1>4, <1>5, <1>6, <1>7

-----------------------------------------------------------------------------
\* A settlement that appears at a node.
LEMMA TurnAppears ==
  ASSUME TurnInv, Overlap = FALSE, IInv', NEW n \in Nodes, NEW t \in Threads, At(n, t, "idle"), st[n].status = "none",
         NEW r, Put(n, t, r), r.pc \notin Relying, UNCHANGED <<att, ledger, crashes>>,
         NEW x, st' = [st EXCEPT ![n] = x], x.status = "pending", x.applied = FALSE
  PROVE  TurnInv'
<1>1. Free(n, t) /\ ledger[n] # 1
  BY TurnFacts, Zenon DEF At, Lasting
<1>2. Lasting(x) /\ ~Passed(x)
  BY DEF Lasting, Passed
<1> QED
  BY <1>1, <1>2, TurnRecord, Zenon

LEMMA TurnRecordFunding ==
  ASSUME TurnInv, Overlap = FALSE, IInv', NEW t \in Threads, RecordFunding(t)
  PROVE  TurnInv'
<1> DEFINE r == [Idle EXCEPT !.op = "job", !.pc = "payouts"]
           x(known) == [NoRecord EXCEPT !.status = "pending", !.committee = known]
<1>1. Requester \in Nodes
  BY SettlementAssumption
<1>2. PICK known \in BOOLEAN : st' = [st EXCEPT ![Requester] = x(known)]
  BY Zenon DEF RecordFunding, Record
<1>3. /\ At(Requester, t, "idle") /\ st[Requester].status = "none" /\ Put(Requester, t, r)
      /\ UNCHANGED <<att, ledger, crashes>>
  BY DEF RecordFunding
<1>4. r.pc \notin Relying /\ x(known).status = "pending" /\ x(known).applied = FALSE
  BY DEF Idle, NoRecord, Relying
<1> QED
  BY <1>1, <1>2, <1>3, <1>4, TurnAppears, Zenon

LEMMA TurnImport ==
  ASSUME TurnInv, Overlap = FALSE, IInv', NEW n \in Nodes, NEW t \in Threads, NEW c \in calls, Import(n, t, c)
  PROVE  TurnInv'
<1> DEFINE x == [status |-> "pending", applied |-> FALSE, committee |-> TRUE, audited |-> TRUE, envelope |-> "signed"]
           r == [Idle EXCEPT !.op = "handle", !.pc = "import", !.from = c.from]
           q(dec) == [Idle EXCEPT !.op = "handle", !.pc = "reply", !.from = c.from, !.dec = dec]
<1>1. At(n, t, "idle") /\ Free(n, t) /\ th[n][t].pc # "mark" /\ UNCHANGED <<att, ledger, crashes>>
  BY DEF Import, At
<1>2. r.pc \notin Relying /\ x.status = "pending" /\ x.applied = FALSE /\ \A dec : q(dec).pc \notin Relying
  BY DEF Idle, Relying
<1>3. \/ \E dec : Put(n, t, q(dec)) /\ UNCHANGED st
      \/ Put(n, t, r) /\ UNCHANGED st
      \/ Put(n, t, r) /\ st[n].status = "none" /\ st' = [st EXCEPT ![n] = x]
  BY Zenon DEF Import, Answer, Record
<1> HIDE DEF x, r, q
<1>4. CASE \E dec : Put(n, t, q(dec)) /\ UNCHANGED st
  BY <1>1, <1>2, <1>4, TurnStill, Zenon
<1>5. CASE Put(n, t, r) /\ UNCHANGED st
  BY <1>1, <1>2, <1>5, TurnStill, Zenon
<1>6. CASE Put(n, t, r) /\ st[n].status = "none" /\ st' = [st EXCEPT ![n] = x]
  BY <1>1, <1>2, <1>6, TurnAppears, Zenon
<1> QED
  BY <1>3, <1>4, <1>5, <1>6

LEMMA TurnSame ==
  ASSUME TurnInv, IInv', UNCHANGED <<st, att, ledger, th, crashes>>
  PROVE  TurnInv'
<1>1. ASSUME NEW n \in Nodes PROVE Decisive(n)' = Decisive(n)
  BY Zenon DEF Decisive, Accepting
<1>2. ASSUME NEW n \in Nodes, NEW t \in Threads, Relies(n, th[n][t]) PROVE Relies(n, th[n][t])'
  BY <1>1, <1>2, Zenon DEF Relies
<1>3. ASSUME NEW n \in Nodes, Debited(n) PROVE Debited(n)'
  BY <1>3 DEF Debited
<1> QED
  BY <1>1, <1>2, <1>3, Zenon DEF TurnInv

LEMMA StepTurnInv ==
  ASSUME TurnInv, Overlap = FALSE, IInv', NEW n \in Nodes, NEW t \in Threads, Step(n, t)
  PROVE  TurnInv'
  BY TurnQuiet, TurnRecords, TurnAskNext, TurnGiveUp, TurnReply, TurnAttest, TurnRefresh, TurnSaveFinality,
     TurnApply, TurnMarkApplied, TurnResetSave, TurnResetRejection, Zenon DEF Step

LEMMA NextTurnInv ==
  ASSUME Overlap = FALSE, MaxCrashes = 0, TurnInv, [Next]_vars
  PROVE  TurnInv'
<1>0. IInv'
  BY NextIInv DEF TurnInv
<1>1. ASSUME NEW t \in Locals, RecordFunding(t) PROVE TurnInv'
  BY <1>0, <1>1, TurnRecordFunding, Zenon DEF Threads
<1>2. ASSUME NEW n \in Nodes, NEW t \in Locals, StartRepair(n, t) PROVE TurnInv'
  BY <1>0, <1>2, TurnQuiet, Zenon DEF Threads
<1>3. ASSUME NEW n \in Nodes, NEW t \in Handlers, NEW c \in calls, Import(n, t, c) PROVE TurnInv'
  BY <1>0, <1>3, TurnImport, Zenon DEF Threads
<1>4. ASSUME NEW n \in Nodes, NEW t \in Threads, Step(n, t) PROVE TurnInv'
  BY <1>0, <1>4, StepTurnInv, Zenon
<1>5. ASSUME NEW n \in Nodes, NEW m \in Nodes, SyncChain(n, m) PROVE TurnInv'
  BY <1>0, <1>5, TurnSame DEF SyncChain
<1>6. ASSUME NEW n \in Nodes, LoseEligibility(n) \/ RegainEligibility(n) PROVE TurnInv'
  BY <1>0, <1>6, TurnSame DEF LoseEligibility, RegainEligibility, files
<1>7. ~ \E n \in Nodes : Crash(n)
  BY DEF TurnInv, Crash
<1>8. CASE UNCHANGED vars
  BY <1>0, <1>8, TurnSame DEF vars, files
<1> QED
  BY <1>1, <1>2, <1>3, <1>4, <1>5, <1>6, <1>7, <1>8, Zenon DEF Next

LEMMA InitTurnInv == Init => TurnInv
<1> SUFFICES ASSUME Init PROVE TurnInv
  OBVIOUS
<1>1. IInv
  BY InitIInv
<1>2. /\ crashes = 0
      /\ \A n \in Nodes : st[n] = NoRecord /\ ledger[n] = 0
      /\ \A n \in Nodes, t \in Threads : th[n][t] = Idle
  BY DEF Init
<1>3. ~NoRecord.applied /\ NoRecord.status = "none" /\ Idle.pc = "idle"
  BY Zenon DEF NoRecord, Idle
<1>4. ASSUME NEW n \in Nodes PROVE Lasting(st[n]) /\ ~Passed(st[n]) /\ Debited(n) /\ ledger[n] \in {0, 1}
  BY <1>2, <1>3 DEF Lasting, Passed, Debited
<1>5. ASSUME NEW n \in Nodes, NEW t \in Threads PROVE Relies(n, th[n][t]) /\ Resting(th[n][t])
  BY <1>2, <1>3, Zenon DEF Relies, Resting
<1> QED
  BY <1>1, <1>2, <1>4, <1>5, Zenon DEF TurnInv

(***************************************************************************)
(* If the threads of a node take turns and no node crashes, no node debits *)
(* its ledger twice for the settlement (apply_finalized_settlement and     *)
(* applied_at): for any nodes and bonds, any number of jobs' tails,        *)
(* repairs and handlers, and however requests and answers are lost.        *)
(***************************************************************************)
THEOREM AppliedOnceInTurns ==
  ASSUME Overlap = FALSE, MaxCrashes = 0
  PROVE  Spec => []AppliedOnce
<1>1. TurnInv /\ [Next]_vars => TurnInv'
  BY NextTurnInv, Zenon
<1>2. TurnInv => AppliedOnce
  BY DEF TurnInv, AppliedOnce
<1> QED
  BY InitTurnInv, <1>1, <1>2, PTL DEF Spec
=============================================================================
