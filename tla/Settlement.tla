----------------------------- MODULE Settlement -----------------------------
(***************************************************************************)
(* One settlement on its way through the network: settlement.py, the tail  *)
(* of execute_job_intent and repair_local_worker_reward_state (jobs.py)    *)
(* and attest_settlement (api/cai_bridge.py).                              *)
(*                                                                         *)
(* The node that ran a job writes a settlement, signs it and asks the      *)
(* validators of its committee, over HTTP, to attest to it.  Every node    *)
(* keeps files of its own: settlements, attestations, payouts, ledger,     *)
(* wallets and chain.  A settlement with accepting attestations of two     *)
(* thirds of the committee's bond is finalized, and an application debits  *)
(* the ledger, credits the worker and records the chain entries.           *)
(*                                                                         *)
(* Files are locked for one read or one write at a time, so a step is what *)
(* a thread does up to its next write.  A thread runs the job's tail, a    *)
(* repair (each look at the dashboard starts one) or the handler of an     *)
(* attestation request.                                                    *)
(***************************************************************************)
EXTENDS Integers, FiniteSets, FiniteSetsExt

CONSTANTS
    Nodes,
    Requester,    \* the node that ran the job
    Bond,         \* bond of each member of the committee: a function on a set of nodes
    Home,         \* the node that has the wallet of the rewarded worker
    Locals,       \* threads of a node that run the job's tail or repairs
    Handlers,     \* threads of a node that serve attestation requests
    Overlap,      \* whether the threads of a node may run at the same time
    MaxTroubles,  \* bound: lost requests and answers, refusals, lost forks
    MaxCrashes    \* bound: crashes

ASSUME SettlementAssumption ==
    /\ DOMAIN Bond \subseteq Nodes
    /\ {Requester, Home} \subseteq Nodes

VARIABLES
    st,        \* st[n]: the settlement in the file of node n
    att,       \* att[n][v]: the newest attestation of v in the file of n
    payout,    \* payout[n]: the worker's payout record at n
    ledger,    \* ledger[n]: how often n has applied the settlement to its ledger
    credits,   \* how often the worker's wallet was credited
    chain,     \* chain[n]: whether the chain of n has the settlement's entries
    able,      \* able[n]: what get_validator_attestation_status says at n
    th,        \* th[n][t]: what thread t of n is doing
    calls,     \* attestation requests that no handler has taken yet
    troubles, crashes

files == <<st, att, payout, ledger, credits, chain>>
vars == <<files, able, th, calls, troubles, crashes>>

Committee == DOMAIN Bond
BondOf(V) == MapThenSumSet(LAMBDA v : Bond[v], V)
QuorumBond == (2 * BondOf(Committee) + 2) \div 3

\* No bond is negative, so more validators have no smaller bond. (A fact about sums,
\* which TLC evaluates: its proof is an induction.)
ASSUME BondsAdd ==
    \A V \in SUBSET Committee : BondOf(V) \in Nat /\ \A W \in SUBSET V : BondOf(W) <= BondOf(V)

NoRecord == [status |-> "none", applied |-> FALSE, committee |-> FALSE, audited |-> FALSE, envelope |-> "none"]

Threads == Locals \union Handlers

\* What is signed covers the committee, the payouts and the execution audit.
Outdated(e) == IF e = "signed" THEN "stale" ELSE e

\* op, pc: what is run and the next step; ret: where a call returns to; snap: the settlement
\* as it was read; pay: the payout to be saved; who, dec: an attestation; todo: validators
\* yet to be asked; proposal: the envelope they are shown; from: whose request is served;
\* carry: the chain that came with an answer.
Idle == [op |-> "none", pc |-> "idle", ret |-> "idle", snap |-> NoRecord, pay |-> "none",
         who |-> Requester, dec |-> "none", todo |-> {}, proposal |-> "none",
         from |-> <<>>, carry |-> FALSE]

Init ==
    /\ st = [n \in Nodes |-> NoRecord]
    /\ att = [n \in Nodes |-> [v \in Committee |-> "none"]]
    /\ payout = [n \in Nodes |-> "none"]
    /\ ledger = [n \in Nodes |-> 0]
    /\ credits = 0
    /\ chain = [n \in Nodes |-> FALSE]
    /\ able = [n \in Nodes |-> IF n \in Committee THEN "yes" ELSE "off"]
    /\ th = [n \in Nodes |-> [t \in Threads |-> Idle]]
    /\ calls = {}
    /\ troubles = 0 /\ crashes = 0

More(count) == IF count = 2 THEN 2 ELSE count + 1    \* 2 stands for more than once
Trouble == troubles < MaxTroubles /\ troubles' = troubles + 1
Put(n, t, r) == th' = [th EXCEPT ![n][t] = r]
Goto(n, t, pc) == Put(n, t, [th[n][t] EXCEPT !.pc = pc])
Return(n, t) == Goto(n, t, th[n][t].ret)
Resting(r) == r.pc \in {"idle", "wait"} \/ (r.pc = "attest" /\ r.ret = "merge")
Free(n, t) == Overlap \/ \A u \in Threads \ {t} : Resting(th[n][u])
At(n, t, pc) == th[n][t].pc = pc /\ Free(n, t)
Enabled(n) == able[n] \in {"yes", "no"}                      \* validator_enabled
Record(n, r) == st' = [st EXCEPT ![n] = r]

\* ready: signed_envelope.status is "signed", whether or not its hash still matches.
Ready(n) == st[n].audited /\ st[n].envelope \in {"signed", "stale"} /\ payout[n] # "none"

-----------------------------------------------------------------------------
(***************************************************************************)
(* The tail of execute_job_intent: settlement, payouts, audit, signature,  *)
(* own attestation, the committee's attestations.                          *)
(***************************************************************************)
\* record_funding_settlement: the committee is empty if no bonded validator is known yet.
RecordFunding(t) ==
    /\ t \in Locals /\ At(Requester, t, "idle") /\ st[Requester].status = "none"
    /\ \E known \in BOOLEAN :
        Record(Requester, [NoRecord EXCEPT !.status = "pending", !.committee = known])
    /\ Put(Requester, t, [Idle EXCEPT !.op = "job", !.pc = "payouts"])
    /\ UNCHANGED <<att, payout, ledger, credits, chain, able, calls, troubles, crashes>>

RecordWorkerPayouts(n, t) ==
    /\ At(n, t, "payouts")
    /\ payout' = [payout EXCEPT ![n] = "pending"]
    /\ Record(n, [st[n] EXCEPT !.envelope = Outdated(@)])
    /\ Goto(n, t, "audit")
    /\ UNCHANGED <<att, ledger, credits, chain, able, calls, troubles, crashes>>

RecordExecutionAudit(n, t) ==
    /\ At(n, t, "audit")
    /\ Record(n, [st[n] EXCEPT !.audited = TRUE, !.envelope = Outdated(@)])
    /\ Goto(n, t, "sign")
    /\ UNCHANGED <<att, payout, ledger, credits, chain, able, calls, troubles, crashes>>

\* sign_settlement_envelope; a wallet that is locked by now leaves it unsigned.
SignEnvelope(n, t) ==
    /\ At(n, t, "sign")
    /\ \/ Record(n, [st[n] EXCEPT !.envelope = "signed"]) /\ UNCHANGED troubles
       \/ Record(n, [st[n] EXCEPT !.envelope = "unsigned"]) /\ Trouble
    /\ Goto(n, t, IF th[n][t].op = "job" THEN "decide" ELSE th[n][t].ret)
    /\ UNCHANGED <<att, payout, ledger, credits, chain, able, calls, crashes>>

-----------------------------------------------------------------------------
(***************************************************************************)
(* repair_local_worker_reward_state up to the attestations.                *)
(***************************************************************************)
StartRepair(n, t) ==
    /\ t \in Locals /\ At(n, t, "idle") /\ st[n].status # "none"
    /\ Put(n, t, [Idle EXCEPT !.op = "repair", !.pc = "ensure"])
    /\ UNCHANGED <<files, able, calls, troubles, crashes>>

\* ensure_settlement_committee: a committee that is found late makes the signature stale.
EnsureCommittee(n, t) ==
    /\ At(n, t, "ensure")
    /\ IF st[n].committee
       THEN UNCHANGED st /\ Goto(n, t, "reset")
       ELSE /\ Record(n, [st[n] EXCEPT !.committee = TRUE,
                                       !.envelope = Outdated(@)])
            /\ Put(n, t, [th[n][t] EXCEPT !.pc = "sign", !.ret = "reset"])
    /\ UNCHANGED <<att, payout, ledger, credits, chain, able, calls, troubles, crashes>>

Rejections(n) == {v \in Committee : att[n][v] # "none"}

\* reset_retryable_settlement_rejection: if all attestations reject the envelope alone, it is
\* signed again, and once it is signed the attestations are forgotten.
ResetRejection(n, t) ==
    /\ At(n, t, "reset")
    /\ IF /\ st[n].status = "rejected" /\ Rejections(n) # {}
          /\ \A v \in Rejections(n) : att[n][v] = "retry"
       THEN \/ /\ Record(n, [st[n] EXCEPT !.envelope = "signed"])
               /\ att' = [att EXCEPT ![n] = [v \in Committee |-> "none"]]
               /\ Goto(n, t, "resetsave")
               /\ UNCHANGED troubles
            \/ /\ Record(n, [st[n] EXCEPT !.envelope = "unsigned"])
               /\ Trouble
               /\ Goto(n, t, "prepare")
               /\ UNCHANGED att
       ELSE Goto(n, t, "prepare") /\ UNCHANGED <<st, att, troubles>>
    /\ UNCHANGED <<payout, ledger, credits, chain, able, calls, crashes>>

ResetSave(n, t) ==
    /\ At(n, t, "resetsave")
    /\ Record(n, [st[n] EXCEPT !.status = "pending", !.applied = FALSE])
    /\ Goto(n, t, "prepare")
    /\ UNCHANGED <<att, payout, ledger, credits, chain, able, calls, troubles, crashes>>

\* _prepare_pending_settlement_for_attestation signs what the job left unsigned.
Prepare(n, t) ==
    /\ At(n, t, "prepare")
    /\ IF /\ st[n].status = "pending" /\ st[n].committee /\ ~Ready(n)
          /\ st[n].audited /\ payout[n] # "none"
       THEN Put(n, t, [th[n][t] EXCEPT !.pc = "sign", !.ret = "local"])
       ELSE Goto(n, t, "local")
    /\ UNCHANGED <<files, able, calls, troubles, crashes>>

Attestable(n) == Ready(n) /\ st[n].status = "pending" /\ st[n].committee

RepairLocal(n, t) ==
    /\ At(n, t, "local")
    /\ Goto(n, t, IF Attestable(n) /\ able[n] = "yes" THEN "decide" ELSE "request")
    /\ UNCHANGED <<files, able, calls, troubles, crashes>>

-----------------------------------------------------------------------------
(***************************************************************************)
(* Attestations: apply_local_validator_attestation,                        *)
(* record_validator_attestation and refresh_settlement_finality.           *)
(***************************************************************************)
\* The node's own validator accepts if it is eligible at this moment; one that is not
\* rejects and is jailed for it.
DecideLocally(n, t) ==
    /\ At(n, t, "decide")
    /\ Put(n, t, IF Enabled(n)
                 THEN [th[n][t] EXCEPT !.pc = "attest", !.who = n, !.dec = able[n],
                                       !.ret = IF able[n] = "yes" THEN "request" ELSE "jail"]
                 ELSE [th[n][t] EXCEPT !.pc = "request"])
    /\ UNCHANGED <<files, able, calls, troubles, crashes>>

Jail(n, t) ==
    /\ At(n, t, "jail")
    /\ able' = [able EXCEPT ![n] = "jailed"]
    /\ Goto(n, t, "request")
    /\ UNCHANGED <<files, calls, troubles, crashes>>

\* Where ConflictingAttestationError ends: a validator in conflict with itself is jailed, a
\* handler answers no, and a requester goes on to the next validator.
OnConflict(n, t) ==
    IF th[n][t].op = "handle" THEN [th[n][t] EXCEPT !.pc = "reply", !.dec = "no"]
    ELSE [th[n][t] EXCEPT !.pc = IF th[n][t].who = n THEN "jail" ELSE "next"]

\* The first attestation of a validator stays.
Attest(n, t) ==
    LET r == th[n][t]
        old == att[n][r.who] IN
    /\ At(n, t, "attest")
    /\ IF old # "none" /\ (old = "yes") # (r.dec = "yes")
       THEN Put(n, t, OnConflict(n, t)) /\ UNCHANGED att
       ELSE /\ att' = [att EXCEPT ![n][r.who] = IF old = "none" THEN r.dec ELSE old]
            /\ Goto(n, t, "refresh")
    /\ UNCHANGED <<st, payout, ledger, credits, chain, able, calls, troubles, crashes>>

Accepting(n) == {v \in Committee : att[n][v] = "yes"}
Rejecting(n) == {v \in Committee : att[n][v] \in {"no", "retry"}}

Finality(n) ==
    IF ~st[n].committee THEN "pending"
    ELSE IF BondOf(Accepting(n)) >= QuorumBond THEN IF st[n].applied THEN "applied" ELSE "finalized"
    ELSE IF BondOf(Rejecting(n)) >= QuorumBond THEN "rejected"
    ELSE "pending"

\* refresh_settlement_finality reads settlement and attestations ...
Refresh(n, t) ==
    /\ At(n, t, "refresh")
    /\ Put(n, t, [th[n][t] EXCEPT !.pc = "save", !.snap = [st[n] EXCEPT !.status = Finality(n)]])
    /\ UNCHANGED <<files, able, calls, troubles, crashes>>

\* ... and saves the whole list.  What a remote validator decided is not applied right away.
SaveFinality(n, t) ==
    LET r == th[n][t] IN
    /\ At(n, t, "save")
    /\ Record(n, r.snap)
    /\ Put(n, t, [r EXCEPT !.snap = NoRecord,
                           !.pc = IF r.who = n /\ r.snap.status = "finalized" THEN "apply" ELSE r.ret])
    /\ UNCHANGED <<att, payout, ledger, credits, chain, able, calls, troubles, crashes>>

-----------------------------------------------------------------------------
(***************************************************************************)
(* apply_finalized_settlement                                              *)
(***************************************************************************)
\* An exception ends a job or a repair; a repair survives one from its own attestation, and
\* a handler turns it into a rejection.
Raise(n, t) ==
    LET r == th[n][t] IN
    Put(n, t, IF r.op = "handle" THEN [r EXCEPT !.pc = "reply", !.dec = "no"]
              ELSE IF r.op = "repair" /\ r.ret \in {"request", "jail"} THEN [r EXCEPT !.pc = "request"]
              ELSE Idle)

\* The list is read, the balances are checked, the wallet is debited and the ledger saved.
Apply(n, t) ==
    /\ At(n, t, "apply")
    /\ \/ /\ st[n].status \notin {"finalized", "applied"}
          /\ Return(n, t)
          /\ UNCHANGED <<st, ledger, troubles>>
       \/ /\ st[n].status \in {"finalized", "applied"} /\ ~st[n].applied
          /\ ledger' = [ledger EXCEPT ![n] = More(@)]
          /\ Put(n, t, [th[n][t] EXCEPT !.pc = "mark", !.snap = st[n]])
          /\ UNCHANGED <<st, troubles>>
       \/ /\ st[n].status \in {"finalized", "applied"} /\ ~st[n].applied   \* insufficient balance
          /\ Trouble
          /\ Raise(n, t)
          /\ UNCHANGED <<st, ledger>>
       \/ /\ st[n].status \in {"finalized", "applied"} /\ st[n].applied
          /\ Record(n, [st[n] EXCEPT !.status = "applied"])
          /\ Goto(n, t, "credit")
          /\ UNCHANGED <<ledger, troubles>>
    /\ UNCHANGED <<att, payout, credits, chain, able, calls, crashes>>

\* Mutant: applied_at is not set.
MarkAppliedUndated(n, t) ==
    /\ At(n, t, "mark")
    /\ Record(n, [th[n][t].snap EXCEPT !.status = "applied"])
    /\ Put(n, t, [th[n][t] EXCEPT !.pc = "credit", !.snap = NoRecord])
    /\ UNCHANGED <<att, payout, ledger, credits, chain, able, calls, troubles, crashes>>

MarkApplied(n, t) ==
    /\ At(n, t, "mark")
    /\ Record(n, [th[n][t].snap EXCEPT !.status = "applied", !.applied = TRUE])
    /\ Put(n, t, [th[n][t] EXCEPT !.pc = "credit", !.snap = NoRecord])
    /\ UNCHANGED <<att, payout, ledger, credits, chain, able, calls, troubles, crashes>>

\* _apply_finalized_worker_payout_record: the wallet first, the record afterwards.
Credit(n, t, next) ==
    /\ credits' = IF n = Home THEN More(credits) ELSE credits
    /\ Put(n, t, [th[n][t] EXCEPT !.pc = next, !.pay = IF n = Home THEN "credited" ELSE "external"])

CreditWorker(n, t) ==
    /\ At(n, t, "credit")
    /\ IF payout[n] \in {"none", "credited"}
       THEN Goto(n, t, "entries") /\ UNCHANGED credits
       ELSE Credit(n, t, "paid")
    /\ UNCHANGED <<st, att, payout, ledger, chain, able, calls, troubles, crashes>>

SavePayout(n, t) ==
    /\ At(n, t, "paid")
    /\ payout' = [payout EXCEPT ![n] = th[n][t].pay]
    /\ Put(n, t, [th[n][t] EXCEPT !.pc = "entries", !.pay = "none"])
    /\ UNCHANGED <<st, att, ledger, credits, chain, able, calls, troubles, crashes>>

\* record_chain_entries_for_settlement: one block with the entries that are missing.
RecordEntries(n, t) ==
    /\ At(n, t, "entries")
    /\ chain' = [chain EXCEPT ![n] = TRUE]
    /\ Return(n, t)
    /\ UNCHANGED <<st, att, payout, ledger, credits, able, calls, troubles, crashes>>

-----------------------------------------------------------------------------
(***************************************************************************)
(* request_remote_committee_attestations                                   *)
(***************************************************************************)
\* The proposal is exported once, before the first validator is asked.
Request(n, t) ==
    /\ At(n, t, "request")
    /\ Put(n, t, IF IF th[n][t].op = "job" THEN st[n].committee ELSE Attestable(n)
                 THEN [th[n][t] EXCEPT !.pc = "next", !.proposal = st[n].envelope, !.todo = Committee \ {n}]
                 ELSE [th[n][t] EXCEPT !.pc = "tail"])
    /\ UNCHANGED <<files, able, calls, troubles, crashes>>

AskNext(n, t) ==
    LET r == th[n][t] IN
    /\ At(n, t, "next")
    /\ IF r.todo = {}
       THEN Put(n, t, [r EXCEPT !.pc = "tail", !.proposal = "none", !.dec = "none"])
            /\ UNCHANGED calls
       ELSE \E v \in r.todo :
            /\ calls' = calls \union {[from |-> <<n, t>>, to |-> v, envelope |-> r.proposal]}
            /\ Put(n, t, [r EXCEPT !.pc = "wait", !.who = v, !.todo = @ \ {v}])
    /\ UNCHANGED <<files, able, troubles, crashes>>

\* Nobody waits for the answer any more.
Orphaned(c) == [c EXCEPT !.from = <<>>]
OrphanCalls(N) == {IF c.from \in N THEN Orphaned(c) ELSE c : c \in calls}
OrphanThreads(N, g) == [n \in Nodes |-> [t \in Threads |->
                           IF g[n][t].from \in N THEN Orphaned(g[n][t]) ELSE g[n][t]]]

Served(n, t) ==
    \/ \E c \in calls : c.from = <<n, t>>
    \/ \E m \in Nodes, u \in Handlers : th[m][u].from = <<n, t>>

\* Mutant: an answer that comes too late is taken.
GiveUpStillServed(n, t) ==
    /\ At(n, t, "wait")
    /\ IF Served(n, t) THEN Trouble ELSE UNCHANGED troubles
    /\ Goto(n, t, "next")
    /\ UNCHANGED <<files, able, calls, crashes>>

\* The request or the answer is lost or takes more than 30 seconds; the handler may still run.
GiveUp(n, t) ==
    /\ At(n, t, "wait")
    /\ IF Served(n, t) THEN Trouble ELSE UNCHANGED troubles
    /\ th' = OrphanThreads({<<n, t>>}, [th EXCEPT ![n][t].pc = "next"])
    /\ calls' = OrphanCalls({<<n, t>>})
    /\ UNCHANGED <<files, able, crashes>>

\* merge_remote_chain_payload of the chain that came with the answer.
MergeChain(n, t) ==
    /\ At(n, t, "merge")
    /\ chain' = [chain EXCEPT ![n] = @ \/ th[n][t].carry]
    /\ Put(n, t, [th[n][t] EXCEPT !.pc = "next", !.carry = FALSE])
    /\ UNCHANGED <<st, att, payout, ledger, credits, able, calls, troubles, crashes>>

-----------------------------------------------------------------------------
(***************************************************************************)
(* After the attestations: the end of the job and of the repair.           *)
(***************************************************************************)
Settling(r) == IF r.op = "repair" THEN "reconcile" ELSE "settle"

\* A job applies once the chain has the entries; a repair also where a validator is enabled.
Tail(n, t) ==
    LET r == th[n][t]
        may == chain[n] \/ (r.op = "repair" /\ Enabled(n)) IN
    /\ At(n, t, "tail")
    /\ Put(n, t, IF st[n].status = "finalized" /\ may
                 THEN [r EXCEPT !.pc = "apply", !.ret = Settling(r), !.who = n]
                 ELSE [r EXCEPT !.pc = Settling(r)])
    /\ UNCHANGED <<files, able, calls, troubles, crashes>>

JobSettles(n, t) ==
    /\ At(n, t, "settle")
    /\ IF st[n].status = "applied" THEN Goto(n, t, "reconcile") ELSE Put(n, t, Idle)
    /\ UNCHANGED <<files, able, calls, troubles, crashes>>

\* reconcile_worker_payouts
Reconcile(n, t) ==
    /\ At(n, t, "reconcile")
    /\ IF payout[n] \in {"none", "credited"}
       THEN Goto(n, t, "record") /\ UNCHANGED credits
       ELSE IF st[n].status = "applied" \/ st[n].applied
       THEN Credit(n, t, "reconciled")
       ELSE Put(n, t, [th[n][t] EXCEPT !.pc = "reconciled", !.pay = "pending"]) /\ UNCHANGED credits
    /\ UNCHANGED <<st, att, payout, ledger, chain, able, calls, troubles, crashes>>

Reconciled(n, t) ==
    /\ At(n, t, "reconciled")
    /\ payout' = [payout EXCEPT ![n] = th[n][t].pay]
    /\ Goto(n, t, "record")
    /\ UNCHANGED <<st, att, ledger, credits, chain, able, calls, troubles, crashes>>

\* Mutant: what is finalized is recorded.
RecordFinalizedEarly(n, t) ==
    /\ At(n, t, "record")
    /\ chain' = [chain EXCEPT ![n] = @ \/ st[n].envelope = "signed"]
    /\ Put(n, t, Idle)
    /\ UNCHANGED <<st, att, payout, ledger, credits, able, calls, troubles, crashes>>

\* record_chain_entries_for_finalized_settlements
RecordFinalized(n, t) ==
    /\ At(n, t, "record")
    /\ chain' = [chain EXCEPT ![n] =
                    @ \/ ((st[n].status = "applied" \/ st[n].applied) /\ (th[n][t].op = "job" \/ Enabled(n)))]
    /\ Put(n, t, Idle)
    /\ UNCHANGED <<st, att, payout, ledger, credits, able, calls, troubles, crashes>>

-----------------------------------------------------------------------------
(***************************************************************************)
(* attest_settlement: the handler at a validator.                          *)
(***************************************************************************)
Answer(n, t, c, dec) == Put(n, t, [Idle EXCEPT !.op = "handle", !.pc = "reply", !.from = c.from, !.dec = dec])

\* import_settlement_proposal_payload: a proposal that is known already leaves the settlement
\* as it is; its payouts are saved in any case.
Import(n, t, c) ==
    /\ t \in Handlers /\ At(n, t, "idle") /\ c.to = n
    /\ calls' = calls \ {c}
    /\ \/ able[n] # "yes" /\ Answer(n, t, c, "no") /\ UNCHANGED st
       \/ able[n] = "yes" /\ c.envelope = "stale" /\ Answer(n, t, c, "retry") /\ UNCHANGED st
       \/ able[n] = "yes" /\ c.envelope = "unsigned" /\ Answer(n, t, c, "no") /\ UNCHANGED st
       \/ /\ able[n] = "yes" /\ c.envelope = "signed"
          /\ IF st[n].status = "none"
             THEN Record(n, [status |-> "pending", applied |-> FALSE, committee |-> TRUE, audited |-> TRUE, envelope |-> "signed"])
             ELSE UNCHANGED st
          /\ Put(n, t, [Idle EXCEPT !.op = "handle", !.pc = "import", !.from = c.from])
    /\ UNCHANGED <<att, payout, ledger, credits, chain, able, troubles, crashes>>

ImportPayouts(n, t) ==
    /\ At(n, t, "import")
    /\ payout' = [payout EXCEPT ![n] = "pending"]
    /\ Put(n, t, [th[n][t] EXCEPT !.pc = "attest", !.who = n, !.dec = "yes", !.ret = "reply"])
    /\ UNCHANGED <<st, att, ledger, credits, chain, able, calls, troubles, crashes>>

\* The answer; one that accepts comes with the chain.
Reply(n, t) ==
    LET r == th[n][t]
        g == [th EXCEPT ![n][t] = Idle] IN
    /\ At(n, t, "reply")
    /\ th' = IF r.from = <<>> THEN g
             ELSE [g EXCEPT ![r.from[1]][r.from[2]] =
                      [@ EXCEPT !.pc = "attest", !.dec = r.dec, !.ret = "merge",
                                !.carry = r.dec = "yes" /\ chain[n]]]
    /\ UNCHANGED <<files, able, calls, troubles, crashes>>

-----------------------------------------------------------------------------
(***************************************************************************)
(* The network, the operators and the machines.                            *)
(***************************************************************************)
\* sync_chain_from_cai_peers and push_chain_to_cai_peers.  A fork that loses takes its entries with it.
SyncChain(n, m) ==
    /\ chain[n] # chain[m]
    /\ IF chain[n] THEN Trouble ELSE UNCHANGED troubles
    /\ chain' = [chain EXCEPT ![n] = chain[m]]
    /\ UNCHANGED <<st, att, payout, ledger, credits, able, th, calls, crashes>>

LoseEligibility(n) ==
    /\ able[n] = "yes" /\ Trouble
    /\ able' = [able EXCEPT ![n] = "no"]
    /\ UNCHANGED <<files, th, calls, crashes>>

RegainEligibility(n) ==
    /\ able[n] = "no"
    /\ able' = [able EXCEPT ![n] = "yes"]
    /\ UNCHANGED <<files, th, calls, troubles, crashes>>

\* Threads are gone, files stay.
Crash(n) ==
    LET N == {n} \X Threads IN
    /\ crashes < MaxCrashes
    /\ crashes' = crashes + 1
    /\ th' = OrphanThreads(N, [th EXCEPT ![n] = [t \in Threads |-> Idle]])
    /\ calls' = OrphanCalls(N)
    /\ UNCHANGED <<files, able, troubles>>

-----------------------------------------------------------------------------
Step(n, t) ==
    \/ RecordWorkerPayouts(n, t) \/ RecordExecutionAudit(n, t) \/ SignEnvelope(n, t)
    \/ EnsureCommittee(n, t) \/ ResetRejection(n, t) \/ ResetSave(n, t) \/ Prepare(n, t) \/ RepairLocal(n, t)
    \/ DecideLocally(n, t) \/ Jail(n, t) \/ Attest(n, t) \/ Refresh(n, t) \/ SaveFinality(n, t)
    \/ Apply(n, t) \/ MarkApplied(n, t) \/ CreditWorker(n, t) \/ SavePayout(n, t) \/ RecordEntries(n, t)
    \/ Request(n, t) \/ AskNext(n, t) \/ GiveUp(n, t) \/ MergeChain(n, t)
    \/ Tail(n, t) \/ JobSettles(n, t) \/ Reconcile(n, t) \/ Reconciled(n, t) \/ RecordFinalized(n, t)
    \/ ImportPayouts(n, t) \/ Reply(n, t)

Next ==
    \/ \E t \in Locals : RecordFunding(t)
    \/ \E n \in Nodes, t \in Locals : StartRepair(n, t)
    \/ \E n \in Nodes, t \in Handlers, c \in calls : Import(n, t, c)
    \/ \E n \in Nodes, t \in Threads : Step(n, t)
    \/ \E n \in Nodes, m \in Nodes : SyncChain(n, m)
    \/ \E n \in Nodes : LoseEligibility(n) \/ RegainEligibility(n) \/ Crash(n)

Spec == Init /\ [][Next]_vars

(***************************************************************************)
(* Threads go on: the dashboard's polls never stop, so repairs start again *)
(* and again, and a request that has arrived is served.  A validator that  *)
(* was ineligible for a while is eligible again; chains are synchronised   *)
(* by a periodic task.  Nothing obliges a message to be lost, a fork to    *)
(* lose or a node to crash.                                                *)
(***************************************************************************)
Thread(n, t) == StartRepair(n, t) \/ Step(n, t) \/ \E c \in calls : Import(n, t, c)
CatchUp(n) == ~chain[n] /\ \E m \in Nodes : SyncChain(n, m)

Fairness ==
    /\ \A n \in Nodes, t \in Threads : WF_vars(Thread(n, t))
    /\ \A n \in Nodes : WF_vars(RegainEligibility(n)) /\ WF_vars(CatchUp(n))

FairSpec == Spec /\ Fairness

-----------------------------------------------------------------------------
\* What the variables hold; whoever waits for an answer is a thread that asks.
TypeOK ==
    /\ st \in [Nodes -> [status : {"none", "pending", "finalized", "rejected", "applied"},
                         applied : BOOLEAN, committee : BOOLEAN, audited : BOOLEAN,
                         envelope : {"none", "signed", "stale", "unsigned"}]]
    /\ att \in [Nodes -> [Committee -> {"none", "yes", "no", "retry"}]]
    /\ payout \in [Nodes -> {"none", "pending", "credited", "external"}]
    /\ ledger \in [Nodes -> 0 .. 2] /\ credits \in 0 .. 2
    /\ chain \in [Nodes -> BOOLEAN]
    /\ able \in [Nodes -> {"off", "yes", "no", "jailed"}]
    /\ \A n \in Nodes, t \in Threads : th[n][t].todo \subseteq Committee /\ th[n][t].who \in Nodes
    /\ \A c \in calls : c.to \in Committee /\ (c.from = <<>> \/ th[c.from[1]][c.from[2]].pc = "wait")

Quorum ==
    \E A \in SUBSET Committee : BondOf(A) >= QuorumBond /\ \A v \in A : att[v][v] = "yes"

(***************************************************************************)
(* Money moves anywhere -- a ledger is debited, a worker credited, entries *)
(* recorded on a chain -- only when validators with two thirds of the      *)
(* committee's bond have accepted the settlement, each in its own file     *)
(* (refresh_settlement_finality), whatever is lost, late, repeated,        *)
(* crashed or run at the same time.                                        *)
(***************************************************************************)
PaidWithQuorum == (credits > 0 \/ \E n \in Nodes : ledger[n] > 0 \/ chain[n]) => Quorum

(***************************************************************************)
(* No node debits its ledger twice for the settlement, as long as its      *)
(* threads take turns and none is interrupted: the job, the repairs and    *)
(* the attestation handler all reach apply_finalized_settlement, and       *)
(* applied_at keeps the second away.                                       *)
(***************************************************************************)
AppliedOnce == \A n \in Nodes : ledger[n] <= 1

(***************************************************************************)
(* The worker's wallet is credited at most once: "Replays with the same    *)
(* accepted/rejected position must stay idempotent".                       *)
(***************************************************************************)
CreditedOnce == credits <= 1

Signed == Ready(Requester) /\ st[Requester].committee
Decided ==
    \/ st[Requester].applied
    \/ \E n \in Nodes, v \in Committee : att[n][v] \in {"no", "retry"}
    \/ \E n \in Nodes : able[n] = "jailed"

(***************************************************************************)
(* A settlement that is signed and has a committee is applied in the end,  *)
(* by repairs if the job failed to, unless some validator refused it or    *)
(* was jailed for an attestation of its own.                               *)
(***************************************************************************)
SignedSettles == Signed ~> Decided
=============================================================================
