--------------------------- MODULE ValidatorLease ---------------------------
(***************************************************************************)
(* High availability of one validator: several replicas with one identity  *)
(* and one bond, of which the one that holds the lease attests             *)
(* (refresh_validator_ha_lease and get_validator_attestation_status of     *)
(* node_config.py, sync_validator_record and the merge of peer records of  *)
(* validators.py).                                                         *)
(*                                                                         *)
(* The lease is a field of the validator's record in every node's registry *)
(* and spreads when nodes read each other's registries.  An observer, a    *)
(* node that has a settlement to be attested, keeps the record as well and *)
(* asks whichever host it names (request_remote_committee_attestations).   *)
(* All replicas are bonded, enabled for HA and automatic failover, and     *)
(* eligible.  A lease is the time it has left; no two renewals happen at   *)
(* the same moment.                                                        *)
(***************************************************************************)
EXTENDS Integers, FiniteSets

CONSTANTS
    Replicas,
    LeaseTime,    \* validator_ha_lease_seconds, in steps of time
    Timely,       \* whether registries are read by all replicas between two steps of time
    MaxChanges,   \* bound: roles set by operators
    MaxCrashes    \* bound: replicas that go down for good

ASSUME LeaseAssumption ==
    /\ LeaseTime \in Nat
    /\ Timely \in BOOLEAN
    /\ MaxChanges \in Nat /\ MaxCrashes \in Nat

VARIABLES
    role,      \* role[n]: validator_ha_role of replica n
    rec,       \* rec[n]: the validator's record in the registry of n
    view,      \* the record in the registry of the observer
    up,        \* replicas that are running
    voter,     \* the role of the replica whose answer the observer has recorded
    changes

vars == <<role, rec, view, up, voter, changes>>

None == "none"
Unknown == [active |-> None, left |-> 0, host |-> None]

Init ==
    /\ \E first \in Replicas :
        /\ role = [n \in Replicas |-> IF n = first THEN "active" ELSE "passive"]
        /\ rec = [n \in Replicas |-> [active |-> first, left |-> LeaseTime, host |-> n]]
    /\ view = Unknown
    /\ up = Replicas
    /\ voter = None
    /\ changes = 0

-----------------------------------------------------------------------------
\* validator_ha_lease_is_active
Leased(r) == r.active # None /\ r.left > 0

Elapsed(r) == [r EXCEPT !.left = IF @ > 0 THEN @ - 1 ELSE 0]

\* _should_merge_remote_ha_lease: a lease that does not end before the known one is taken over,
\* and the host with it.
Merged(mine, theirs) == IF theirs.active # None /\ theirs.left >= mine.left THEN theirs ELSE mine

\* merge_remote_validator_set_payload between two replicas, whose records are local ones.
Gossip(n, m) ==
    /\ {n, m} \subseteq up
    /\ Merged(rec[n], rec[m]) # rec[n]
    /\ rec' = [rec EXCEPT ![n] = Merged(rec[n], rec[m])]
    /\ UNCHANGED <<role, view, up, voter, changes>>

\* The observer's record is a peer's: one with an older lease replaces it if it was updated later.
Observe(m) ==
    /\ m \in up
    /\ view' \in {Merged(view, rec[m]), rec[m]}
    /\ UNCHANGED <<role, rec, up, voter, changes>>

\* Whether reading a registry can still change who holds the lease at a replica.
Settled == \A n, m \in up : rec[n].active = rec[m].active /\ rec[n].left = rec[m].left
MayPass == Timely => Settled

Tick ==
    /\ MayPass
    /\ rec' = [n \in Replicas |-> Elapsed(rec[n])]
    /\ view' = Elapsed(view)
    /\ UNCHANGED <<role, up, voter, changes>>

-----------------------------------------------------------------------------
(***************************************************************************)
(* refresh_validator_ha_lease: a replica with the active role renews the   *)
(* lease unless somebody else holds it, and then steps down; a passive one *)
(* takes a lease that is its own, nobody's or over.                        *)
(***************************************************************************)
HeldByOther(n) == Leased(rec[n]) /\ rec[n].active # n

\* Mutant: a standby becomes active on its own lease or on none, not on one that is over.
BecomesActiveIfNamed(n) == rec[n].active \in {n, None}

\* Mutant: an active replica renews what another one holds.
BecomesActiveAnyway(n) == role[n] = "active" \/ ~HeldByOther(n)

BecomesActive(n) == ~HeldByOther(n)

\* The record names the replica's own host, whatever its role.
Renew(n) ==
    /\ n \in up /\ BecomesActive(n) /\ MayPass
    /\ role' = [role EXCEPT ![n] = "active"]
    /\ rec' = [m \in Replicas |-> IF m = n THEN [active |-> n, left |-> LeaseTime, host |-> n]
                                  ELSE Elapsed(rec[m])]
    /\ view' = Elapsed(view)

StepDown(n) ==
    /\ n \in up /\ ~BecomesActive(n)
    /\ role' = [role EXCEPT ![n] = "passive"]
    /\ rec' = [rec EXCEPT ![n].host = n]
    /\ UNCHANGED view

Refresh(n) == (Renew(n) \/ StepDown(n)) /\ UNCHANGED <<up, voter, changes>>

\* set_validator_ha_mode: who is made active takes over what is left of the lease and renews it.
SetRole(n, r) ==
    /\ changes < MaxChanges /\ n \in up /\ MayPass
    /\ changes' = changes + 1
    /\ role' = [role EXCEPT ![n] = r]
    /\ rec' = [m \in Replicas |->
                  IF m # n THEN Elapsed(rec[m])
                  ELSE IF r = "active" THEN [active |-> n, left |-> LeaseTime, host |-> n]
                  ELSE [Elapsed(rec[n]) EXCEPT !.host = n]]
    /\ view' = Elapsed(view)
    /\ UNCHANGED <<up, voter>>

\* The observer asks the host its record names; that replica refreshes its lease and answers
\* (attest_settlement), and the first answer is recorded as the validator's.
Ask(n) ==
    /\ view.host = n /\ voter = None
    /\ Renew(n) \/ StepDown(n)
    /\ voter' = role'[n]
    /\ UNCHANGED <<up, changes>>

GoDown(n) ==
    /\ n \in up /\ Cardinality(Replicas \ up) < MaxCrashes
    /\ up' = up \ {n}
    /\ UNCHANGED <<role, rec, view, voter, changes>>

-----------------------------------------------------------------------------
Next ==
    \/ Tick
    \/ \E n \in Replicas : Refresh(n) \/ Observe(n) \/ Ask(n) \/ GoDown(n)
    \/ \E n, m \in Replicas : Gossip(n, m)
    \/ \E n \in Replicas, r \in {"active", "passive"} : SetRole(n, r)

Spec == Init /\ [][Next]_vars

\* Registries are read and leases refreshed by polls that never stop while the node is up.
Fairness ==
    /\ \A n \in Replicas : WF_vars(Refresh(n))
    /\ \A n, m \in Replicas : WF_vars(Gossip(n, m))
    /\ WF_vars(Tick)

FairSpec == Spec /\ Fairness

-----------------------------------------------------------------------------
Signers == {n \in up : role[n] = "active" /\ Leased(rec[n]) /\ rec[n].active = n}

(***************************************************************************)
(* Two replicas never hold the lease of the one validator together, so     *)
(* they cannot sign two verdicts on one settlement, as long as a renewal   *)
(* reaches every replica before time passes and no operator interferes:    *)
(* refresh_validator_ha_lease promotes a standby only on a lease that is   *)
(* over everywhere.                                                        *)
(***************************************************************************)
OneSigner == Cardinality(Signers) <= 1

(***************************************************************************)
(* Whatever replicas go down, are promoted or demoted by operators and     *)
(* however late they hear of each other, the validator always has a        *)
(* replica that may sign again: a replica that is up does not wait for     *)
(* ever for the lease of one that is down.                                 *)
(***************************************************************************)
TakenOver == []<>(Signers # {})

(***************************************************************************)
(* The verdict recorded for the validator never comes from a standby:      *)
(* "passive replicas stay ready without signing".                          *)
(***************************************************************************)
PassiveStaysSilent == voter # "passive"
=============================================================================
