---------------------------- MODULE ValidatorBond ----------------------------
(***************************************************************************)
(* The life of a validator's bond on its own node (node_config.py): the    *)
(* bond is locked on the chain when validator mode is enabled, released    *)
(* when unbonding completes, and released less a slash when the validator  *)
(* is jailed.                                                              *)
(*                                                                         *)
(* State is spread over the chain file, the wallet file, the ledger and    *)
(* the node's configuration, which every operation loads first and saves   *)
(* last.  Loading repairs a bonded configuration that the chain does not   *)
(* back.  Operations are handlers of the API, run by threads, and          *)
(* attestations that jail the validator; a step is what a thread does up   *)
(* to its next write.  There is one wallet; waiting times are over when an *)
(* operation finds them over.                                              *)
(***************************************************************************)
EXTENDS Integers

CONSTANTS
    Supply,       \* coins of the wallet at the start
    Elsewhere,    \* coins of the other addresses at the start
    MinBond,      \* validator_min_bond_coins
    SlashBps,     \* validator_jail_slash_bps
    Threads,
    Overlap,      \* whether operations may run at the same time
    MaxNoted,     \* bound: no jailing begins once the ledger has noted so much slashed
    MaxTroubles   \* bound: crashes and lost forks

BasisPoints == 10000

ASSUME BondAssumption ==
    /\ Supply \in Nat /\ Elsewhere \in Nat
    /\ MinBond \in Nat \ {0}
    /\ SlashBps \in 0..BasisPoints
    /\ Overlap \in BOOLEAN
    /\ MaxNoted \in Nat /\ MaxTroubles \in Nat

VARIABLES
    chain,      \* balances on the chain: wallet, other addresses, bond pool, slash pool
    reserved,   \* validator_reserved_atomic of the wallet
    noted,      \* validator_slashed_atomic of the ledger
    config,     \* validator_state and validator_bond_atomic
    th,         \* th[t]: what thread t is doing
    troubles

bondVars == <<chain, reserved, noted, config, th, troubles>>

Genesis == [free |-> Supply, rest |-> Elsewhere, locked |-> 0, slashed |-> 0]
Unbonded == [state |-> "unbonded", bond |-> 0]
Operations == {"enable", "disable", "complete", "jail", "unjail", "look"}

\* op, pc: operation and next step; cfg: the configuration in memory; next: the chain about to
\* be written; eff, slash: what leaves the lock, and what of it the validator loses.
Idle == [op |-> "none", pc |-> "idle", cfg |-> Unbonded, next |-> Genesis, eff |-> 0, slash |-> 0]

BondInit ==
    /\ chain = Genesis
    /\ reserved = 0
    /\ noted = 0
    /\ config = Unbonded
    /\ th = [t \in Threads |-> Idle]
    /\ troubles = 0

At(t, pc) == th[t].pc = pc
Put(t, r) == th' = [th EXCEPT ![t] = r]
Goto(t, pc) == Put(t, [th[t] EXCEPT !.pc = pc])
Raise(t) == Put(t, Idle)

\* The chain after coins move to the wallet, to the bond pool and to the slash pool.
Move(free, locked, slashed) ==
    [free |-> chain.free + free, rest |-> chain.rest,
     locked |-> chain.locked + locked, slashed |-> chain.slashed + slashed]

\* _validator_bond_is_chain_backed
Backed(cfg) == cfg.bond > 0 /\ chain.locked >= cfg.bond

-----------------------------------------------------------------------------
Begin(t, op) ==
    /\ At(t, "idle")
    /\ Overlap \/ \A u \in Threads : At(u, "idle")
    /\ op = "jail" => noted < MaxNoted
    /\ Put(t, [Idle EXCEPT !.op = op, !.pc = "load"])
    /\ UNCHANGED <<chain, reserved, noted, config, troubles>>

\* load_or_create_node_config
Load(t) ==
    /\ At(t, "load")
    /\ Put(t, IF config.state = "bonded" /\ ~Backed(config)
              THEN [th[t] EXCEPT !.cfg = Unbonded, !.pc = "heal"]
              ELSE [th[t] EXCEPT !.cfg = config, !.pc = th[t].op])
    /\ UNCHANGED <<chain, reserved, noted, config, troubles>>

Heal(t) ==
    /\ At(t, "heal")
    /\ config' = th[t].cfg
    /\ reserved' = 0
    /\ Goto(t, th[t].op)
    /\ UNCHANGED <<chain, noted, troubles>>

\* The dashboard only loads.
Look(t) ==
    /\ At(t, "look")
    /\ Raise(t)
    /\ UNCHANGED <<chain, reserved, noted, config, troubles>>

-----------------------------------------------------------------------------
(***************************************************************************)
(* append_chain_block: the chain is read, a block that would make a        *)
(* balance or a lock negative is refused, and the longer chain is written. *)
(***************************************************************************)
\* Mutant: balances are not looked at.
AppendBlockUnchecked(t, next, cfg, eff, slash) ==
    /\ Put(t, [th[t] EXCEPT !.pc = "append", !.next = next, !.cfg = cfg, !.eff = eff, !.slash = slash])
    /\ UNCHANGED <<chain, reserved, noted, config, troubles>>

AppendBlock(t, next, cfg, eff, slash) ==
    /\ IF next.free >= 0 /\ next.locked >= 0 /\ next.slashed >= 0
       THEN Put(t, [th[t] EXCEPT !.pc = "append", !.next = next, !.cfg = cfg, !.eff = eff, !.slash = slash])
       ELSE Raise(t)
    /\ UNCHANGED <<chain, reserved, noted, config, troubles>>

SaveChain(t) ==
    /\ At(t, "append")
    /\ chain' = th[t].next
    /\ Put(t, [th[t] EXCEPT !.pc = "wallet", !.next = Genesis])
    /\ UNCHANGED <<reserved, noted, config, troubles>>

\* set_validator_mode(True) and _record_validator_bond_lock
Enable(t) ==
    /\ At(t, "enable")
    /\ IF th[t].cfg.state = "unbonded" /\ chain.free >= MinBond
       THEN AppendBlock(t, Move(-MinBond, MinBond, 0), [state |-> "bonded", bond |-> MinBond], 0, 0)
       ELSE Raise(t) /\ UNCHANGED <<chain, reserved, noted, config, troubles>>

\* Mutant: a bonded validator is disabled at once.
DisableAtOnce(t) ==
    /\ At(t, "disable")
    /\ Put(t, [th[t] EXCEPT !.pc = "save", !.cfg = Unbonded])
    /\ UNCHANGED <<chain, reserved, noted, config, troubles>>

\* set_validator_mode(False), _start_validator_unbonding; the bond stays locked.
Disable(t) ==
    /\ At(t, "disable")
    /\ Put(t, [th[t] EXCEPT !.pc = "save",
                            !.cfg = IF @.state = "bonded" THEN [@ EXCEPT !.state = "unbonding"] ELSE @])
    /\ UNCHANGED <<chain, reserved, noted, config, troubles>>

\* complete_validator_unbond, _release_validator_bond: a bond the chain does not back is only
\* forgotten.
Complete(t) ==
    /\ At(t, "complete")
    /\ IF th[t].cfg.state # "unbonding" THEN Raise(t)
       ELSE IF Backed(th[t].cfg) THEN Goto(t, "release")
       ELSE Put(t, [th[t] EXCEPT !.pc = "wallet", !.eff = th[t].cfg.bond, !.slash = 0, !.cfg = Unbonded])
    /\ UNCHANGED <<chain, reserved, noted, config, troubles>>

Release(t) ==
    LET bond == th[t].cfg.bond IN
    /\ At(t, "release")
    /\ AppendBlock(t, Move(bond, -bond, 0), Unbonded, bond, 0)

\* jail_validator
SlashOf(eff) == LET part == (eff * SlashBps) \div BasisPoints
                    least == IF part > 1 THEN part ELSE 1 IN
                IF eff = 0 THEN 0 ELSE IF least < eff THEN least ELSE eff

Jail(t) ==
    LET cfg == th[t].cfg
        eff == IF chain.locked < cfg.bond THEN chain.locked ELSE cfg.bond IN
    /\ At(t, "jail")
    /\ Put(t, IF cfg.state = "bonded" /\ Backed(cfg)
              THEN [th[t] EXCEPT !.pc = "slash", !.eff = eff, !.slash = SlashOf(eff)]
              ELSE Idle)
    /\ UNCHANGED <<chain, reserved, noted, config, troubles>>

\* _record_validator_bond_slash
Slash(t) ==
    LET eff == th[t].eff
        slash == th[t].slash IN
    /\ At(t, "slash")
    /\ AppendBlock(t, Move(eff - slash, -eff, slash), [state |-> "jailed", bond |-> 0], eff, slash)

\* clear_validator_jail
Unjail(t) ==
    /\ At(t, "unjail")
    /\ Put(t, IF th[t].cfg.state = "jailed" THEN [th[t] EXCEPT !.pc = "save", !.cfg = Unbonded] ELSE Idle)
    /\ UNCHANGED <<chain, reserved, noted, config, troubles>>

-----------------------------------------------------------------------------
\* The end of an operation: the wallet, the ledger, the configuration.
SaveWallet(t) ==
    LET r == th[t] IN
    /\ At(t, "wallet")
    /\ reserved' = IF r.op = "enable" THEN MinBond
                   ELSE IF reserved > r.eff THEN reserved - r.eff ELSE 0
    /\ Goto(t, IF r.op = "jail" THEN "ledger" ELSE "save")
    /\ UNCHANGED <<chain, noted, config, troubles>>

SaveLedger(t) ==
    /\ At(t, "ledger")
    /\ noted' = noted + th[t].slash
    /\ Goto(t, "save")
    /\ UNCHANGED <<chain, reserved, config, troubles>>

SaveConfig(t) ==
    /\ At(t, "save")
    /\ config' = th[t].cfg
    /\ Put(t, Idle)
    /\ UNCHANGED <<chain, reserved, noted, troubles>>

-----------------------------------------------------------------------------
\* Payments of other modules.
Transfer(amount) ==
    /\ Overlap \/ \A t \in Threads : At(t, "idle")
    /\ chain.free + amount >= 0 /\ chain.rest - amount >= 0
    /\ chain' = [Move(amount, 0, 0) EXCEPT !.rest = @ - amount]
    /\ UNCHANGED <<reserved, noted, config, th, troubles>>

Trouble == troubles < MaxTroubles /\ troubles' = troubles + 1

\* Another fork, one without this node's blocks, replaces the chain.
LoseFork ==
    /\ Trouble
    /\ chain' = Genesis
    /\ UNCHANGED <<reserved, noted, config, th>>

Crash ==
    /\ Trouble
    /\ th' = [t \in Threads |-> Idle]
    /\ UNCHANGED <<chain, reserved, noted, config>>

Step(t) ==
    \/ Load(t) \/ Heal(t) \/ Look(t) \/ SaveChain(t)
    \/ Enable(t) \/ Disable(t) \/ Complete(t) \/ Release(t) \/ Jail(t) \/ Slash(t) \/ Unjail(t)
    \/ SaveWallet(t) \/ SaveLedger(t) \/ SaveConfig(t)

BondNext ==
    \/ \E t \in Threads, op \in Operations : Begin(t, op)
    \/ \E t \in Threads : Step(t)
    \/ \E amount \in {-1, 1} : Transfer(amount)
    \/ LoseFork
    \/ Crash

BondSpec == BondInit /\ [][BondNext]_bondVars

-----------------------------------------------------------------------------
Sum(c) == c.free + c.rest + c.locked + c.slashed

(***************************************************************************)
(* No coin is made or lost and no balance, lock or pool falls below zero,  *)
(* so that a bond is never paid back twice and no more of it is slashed    *)
(* than is locked -- whatever operations overlap, overwrite each other's   *)
(* blocks, lose their fork or are cut off by a crash (append_chain_block   *)
(* refuses what would).                                                    *)
(***************************************************************************)
CoinsConserved ==
    /\ Sum(chain) = Supply + Elsewhere
    /\ chain.free >= 0 /\ chain.rest >= 0 /\ chain.locked >= 0 /\ chain.slashed >= 0

(***************************************************************************)
(* Once operations have ended, chain, wallet, ledger and configuration     *)
(* agree: exactly the bond of the configuration is locked and reserved, an *)
(* unbonded or jailed validator has nothing locked, and the ledger knows   *)
(* every slash.  This is so when operations take turns and none is cut off *)
(* (a crash after the lock strands the bond: the configuration does not    *)
(* know of it).                                                            *)
(***************************************************************************)
BooksAgree ==
    (\A t \in Threads : At(t, "idle")) =>
        /\ chain.locked = config.bond
        /\ reserved = config.bond
        /\ noted = chain.slashed
        /\ config.bond > 0 <=> config.state \in {"bonded", "unbonding"}
=============================================================================
