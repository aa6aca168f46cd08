-------------------------- MODULE ValidatorProofs --------------------------
(***************************************************************************)
(* Proofs about a validator.                                               *)
(*                                                                         *)
(* The bond: no operation on it makes or loses coins, for any bond, any    *)
(* slash rate, any number of threads and any crashes; and the books agree  *)
(* between operations that take turns.  A block is computed from a chain   *)
(* that was read earlier and written later, over whatever the chain has    *)
(* become; so the invariant speaks of the chain every thread is about to   *)
(* write as well as of the one in the file, and of the amounts a thread    *)
(* carries from one step to the next.                                      *)
(*                                                                         *)
(* The lease: two replicas never hold it together, for any set of          *)
(* replicas, any lease time and any crashes, as long as a renewal is read  *)
(* by every replica before time passes (Timely) and no operator sets a     *)
(* role (MaxChanges = 0).  That at most one replica signs is not           *)
(* inductive: a replica may hold the lease by its record and have the      *)
(* passive role, and become active at its next refresh.  What is preserved *)
(* is that all records of a lease that is not over name one and the same   *)
(* replica.                                                                *)
(***************************************************************************)
EXTENDS ValidatorLease, ValidatorBond, TLAPS

Balances == [free : Nat, rest : Nat, locked : Nat, slashed : Nat]
Total == Supply + Elsewhere
Configs == [state : {"unbonded", "bonded", "unbonding", "jailed"}, bond : Nat]
Ops == Operations \cup {"none"}
Pcs == Ops \cup {"idle", "load", "heal", "append", "release", "slash", "wallet", "ledger", "save"}
Frames == [op : Ops, pc : Pcs, cfg : Configs, next : Balances, eff : Nat, slash : Nat]

\* What a thread may have in memory.
Sound(r) == Sum(r.next) = Total /\ r.slash <= r.eff

IInv ==
    /\ chain \in Balances /\ Sum(chain) = Total
    /\ config \in Configs
    /\ th \in [Threads -> Frames]
    /\ \A t \in Threads : Sound(th[t])

-----------------------------------------------------------------------------
\* A slash is part of what leaves the lock (jail_validator).
LEMMA SlashWithin == ASSUME NEW eff \in Nat PROVE SlashOf(eff) \in Nat /\ SlashOf(eff) <= eff
<1>1. (eff * SlashBps) \div BasisPoints \in Int
  BY BondAssumption DEF BasisPoints
<1> QED
  BY <1>1 DEF SlashOf

\* A thread that has nothing to do is sound.
LEMMA IdleSound == Idle \in Frames /\ Sound(Idle) /\ Genesis \in Balances /\ Sum(Genesis) = Total
  BY BondAssumption DEF Idle, Frames, Ops, Pcs, Operations, Sound, Genesis, Balances, Sum, Total, Unbonded, Configs

LEMMA InitIInv == BondInit => IInv
  BY IdleSound, BondAssumption DEF BondInit, IInv, Unbonded, Configs

-----------------------------------------------------------------------------
\* Moving coins between the pools of a block neither makes nor loses any.
Blocks == [free : Int, rest : Nat, locked : Int, slashed : Int]

LEMMA Moved ==
  ASSUME chain \in Balances, Sum(chain) = Total, NEW f \in Int, NEW l \in Int, NEW s \in Int, f + l + s = 0
  PROVE  Move(f, l, s) \in Blocks /\ Sum(Move(f, l, s)) = Total
<1>1. chain.free \in Nat /\ chain.rest \in Nat /\ chain.locked \in Nat /\ chain.slashed \in Nat
  BY DEF Balances
<1>2. Move(f, l, s) \in Blocks
  BY <1>1 DEF Move, Blocks
<1>3. Sum(Move(f, l, s)) = Sum(chain)
  BY <1>1 DEF Move, Sum
<1> QED
  BY <1>2, <1>3

-----------------------------------------------------------------------------
\* What a step of a thread may do to the invariant's variables: only the thread's own frame
\* changes, and frame, chain and configuration stay sound.
LEMMA FrameStep ==
  ASSUME IInv, NEW t \in Threads, NEW r \in Frames, Sound(r), th' = [th EXCEPT ![t] = r],
         chain' \in Balances, Sum(chain') = Total, config' \in Configs
  PROVE  IInv'
  BY DEF IInv

\* append_chain_block on any block that moves coins about.
LEMMA AppendKeeps ==
  ASSUME IInv, NEW t \in Threads, NEW next \in Blocks,
         Sum(next) = Total, NEW cfg \in Configs, NEW eff \in Nat, NEW slash \in Nat, slash <= eff,
         AppendBlock(t, next, cfg, eff, slash)
  PROVE  IInv'
<1>1. chain' \in Balances /\ Sum(chain') = Total /\ config' \in Configs
  BY DEF AppendBlock, IInv
<1>2. CASE next.free >= 0 /\ next.locked >= 0 /\ next.slashed >= 0
  <2> DEFINE r == [th[t] EXCEPT !.pc = "append", !.next = next, !.cfg = cfg, !.eff = eff, !.slash = slash]
  <2>1. next \in Balances
    BY <1>2 DEF Balances, Blocks
  <2>2. r \in Frames /\ Sound(r)
    BY <2>1, Zenon DEF Frames, Sound, Pcs, IInv
  <2>3. th' = [th EXCEPT ![t] = r]
    BY <1>2 DEF AppendBlock, Put
  <2> QED
    BY <1>1, <2>2, <2>3, FrameStep, Zenon
<1>3. CASE ~(next.free >= 0 /\ next.locked >= 0 /\ next.slashed >= 0)
  BY <1>1, <1>3, FrameStep, IdleSound DEF AppendBlock, Raise, Put
<1> QED
  BY <1>2, <1>3

\* Every step of the program keeps the invariant.
LEMMA NextIInv == IInv /\ [BondNext]_bondVars => IInv'
<1> SUFFICES ASSUME IInv, [BondNext]_bondVars PROVE IInv'
  OBVIOUS
<1> USE BondAssumption
<1>1. CASE UNCHANGED bondVars
  BY <1>1 DEF bondVars, IInv
<1>2. ASSUME NEW t \in Threads, NEW op \in Operations, Begin(t, op) PROVE IInv'
  <2>1. [Idle EXCEPT !.op = op, !.pc = "load"] \in Frames /\ Sound([Idle EXCEPT !.op = op, !.pc = "load"])
    BY IdleSound, Zenon DEF Operations, Ops, Pcs, Frames, Sound, Idle
  <2> QED
    BY <1>2, <2>1, FrameStep DEF Begin, Put, IInv
<1>3. ASSUME NEW t \in Threads, Step(t) PROVE IInv'
  <2> DEFINE r == th[t]
  <2>0. r \in Frames /\ Sound(r) /\ chain \in Balances /\ Sum(chain) = Total /\ config \in Configs
    BY DEF IInv
  <2>1. CASE Load(t)
    <3>1. [r EXCEPT !.cfg = Unbonded, !.pc = "heal"] \in Frames /\ Sound([r EXCEPT !.cfg = Unbonded, !.pc = "heal"])
      BY <2>0, Zenon DEF Frames, Sound, Pcs, Unbonded, Configs
    <3>2. [r EXCEPT !.cfg = config, !.pc = r.op] \in Frames /\ Sound([r EXCEPT !.cfg = config, !.pc = r.op])
      BY <2>0, Zenon DEF Frames, Sound, Pcs
    <3> QED
      BY <2>0, <2>1, <3>1, <3>2, FrameStep, Zenon DEF Load, Put
  <2>2. CASE Heal(t)
    <3>1. [r EXCEPT !.pc = r.op] \in Frames /\ Sound([r EXCEPT !.pc = r.op]) /\ r.cfg \in Configs
      BY <2>0 DEF Frames, Sound, Pcs
    <3> QED
      BY <2>0, <2>2, <3>1, FrameStep, Zenon DEF Heal, Goto, Put
  <2>3. CASE Look(t)
    BY <2>0, <2>3, FrameStep, IdleSound, Zenon DEF Look, Raise, Put
  <2>4. CASE SaveChain(t)
    <3>1. [r EXCEPT !.pc = "wallet", !.next = Genesis] \in Frames
          /\ Sound([r EXCEPT !.pc = "wallet", !.next = Genesis])
      BY <2>0, IdleSound, Zenon DEF Frames, Sound, Pcs
    <3>2. chain' \in Balances /\ Sum(chain') = Total
      BY <2>0, <2>4 DEF SaveChain, Frames, Sound
    <3> QED
      BY <2>0, <2>4, <3>1, <3>2, FrameStep, Zenon DEF SaveChain, Put
  <2>5. CASE Enable(t)
    <3> DEFINE cfg == [state |-> "bonded", bond |-> MinBond]
    <3>1. PICK f \in Int : f = -MinBond /\ f + MinBond + 0 = 0
      OBVIOUS
    <3>2. Move(f, MinBond, 0) \in Blocks /\ Sum(Move(f, MinBond, 0)) = Total
      BY ONLY <2>0, <3>1, MinBond \in Int, 0 \in Int, Moved
    <3>3. cfg \in Configs
      BY DEF Configs
    <3>4. CASE AppendBlock(t, Move(-MinBond, MinBond, 0), cfg, 0, 0)
      BY <3>1, <3>2, <3>3, <3>4, AppendKeeps
    <3>5. CASE Raise(t) /\ UNCHANGED <<chain, reserved, noted, config, troubles>>
      BY <2>0, <3>5, FrameStep, IdleSound, Zenon DEF Raise, Put
    <3> QED
      BY <2>5, <3>4, <3>5 DEF Enable
  <2>6. CASE Disable(t)
    <3> DEFINE c == IF r.cfg.state = "bonded" THEN [r.cfg EXCEPT !.state = "unbonding"] ELSE r.cfg
    <3>1. c \in Configs
      BY <2>0 DEF Frames, Configs
    <3>2. [r EXCEPT !.pc = "save", !.cfg = c] \in Frames /\ Sound([r EXCEPT !.pc = "save", !.cfg = c])
      BY <2>0, <3>1, Zenon DEF Frames, Sound, Pcs
    <3> QED
      BY <2>0, <2>6, <3>2, FrameStep, Zenon DEF Disable, Put
  <2>7. CASE Complete(t)
    <3>1. [r EXCEPT !.pc = "release"] \in Frames /\ Sound([r EXCEPT !.pc = "release"])
      BY <2>0 DEF Frames, Sound, Pcs
    <3>2. r.cfg.bond \in Nat /\ Unbonded \in Configs
      BY <2>0 DEF Frames, Configs, Unbonded
    <3> DEFINE q == [r EXCEPT !.pc = "wallet", !.eff = r.cfg.bond, !.slash = 0, !.cfg = Unbonded]
    <3>3. q \in Frames /\ Sound(q)
      <4>1. q.next = r.next /\ q.slash = 0 /\ q.eff = r.cfg.bond /\ q \in Frames
        BY <2>0, <3>2, Zenon DEF Frames, Pcs
      <4> HIDE DEF q
      <4> QED
        BY <2>0, <3>2, <4>1 DEF Sound
    <3>4. CASE Put(t, q)
      BY <2>0, <2>7, <3>3, <3>4, FrameStep, Zenon DEF Complete, Put
    <3>5. CASE Goto(t, "release")
      BY <2>0, <2>7, <3>1, <3>5, FrameStep, Zenon DEF Complete, Goto, Put
    <3>6. CASE Raise(t)
      BY <2>0, <2>7, <3>6, FrameStep, IdleSound, Zenon DEF Complete, Raise, Put
    <3> QED
      BY <2>7, <3>4, <3>5, <3>6 DEF Complete
  <2>8. CASE Release(t)
    <3> DEFINE bond == r.cfg.bond
    <3>1. bond \in Nat /\ Unbonded \in Configs
      BY <2>0 DEF Frames, Configs, Unbonded
    <3>2. AppendBlock(t, Move(bond, -bond, 0), Unbonded, bond, 0)
      BY <2>8 DEF Release
    <3> HIDE DEF bond
    <3>3. PICK l \in Int : l = -bond /\ bond \in Int /\ bond + l + 0 = 0
      BY ONLY <3>1
    <3>4. Move(bond, l, 0) \in Blocks /\ Sum(Move(bond, l, 0)) = Total
      BY ONLY <2>0, <3>3, 0 \in Int, Moved
    <3> QED
      BY <3>1, <3>2, <3>3, <3>4, AppendKeeps
  <2>9. CASE Jail(t)
    <3> DEFINE eff == IF chain.locked < r.cfg.bond THEN chain.locked ELSE r.cfg.bond
               q == [r EXCEPT !.pc = "slash", !.eff = eff, !.slash = SlashOf(eff)]
    <3>1. eff \in Nat
      BY <2>0 DEF Frames, Configs, Balances
    <3>2. SlashOf(eff) \in Nat /\ SlashOf(eff) <= eff
      BY <3>1, SlashWithin
    <3>3. q \in Frames /\ Sound(q)
      BY <2>0, <3>1, <3>2, Zenon DEF Frames, Sound, Pcs
    <3>4. th' = [th EXCEPT ![t] = q] \/ th' = [th EXCEPT ![t] = Idle]
      BY <2>9, Zenon DEF Jail, Put
    <3> HIDE DEF q
    <3> QED
      BY <2>0, <2>9, <3>3, <3>4, FrameStep, IdleSound DEF Jail
  <2>10. CASE Slash(t)
    <3> DEFINE back == r.eff - r.slash
               cfg == [state |-> "jailed", bond |-> 0]
    <3>1. r.eff \in Nat /\ r.slash \in Nat /\ r.slash <= r.eff /\ cfg \in Configs
      BY <2>0 DEF Frames, Sound, Configs
    <3>2. back \in Int /\ -r.eff \in Int /\ r.slash \in Int /\ back + (-r.eff) + r.slash = 0
      BY <3>1
    <3>3. Move(back, -r.eff, r.slash) \in Blocks /\ Sum(Move(back, -r.eff, r.slash)) = Total
      BY <2>0, <3>2, Moved, Zenon
    <3>4. AppendBlock(t, Move(back, -r.eff, r.slash), cfg, r.eff, r.slash)
      BY <2>10 DEF Slash
    <3> QED
      BY <3>1, <3>3, <3>4, AppendKeeps
  <2>11. CASE Unjail(t)
    <3>1. [r EXCEPT !.pc = "save", !.cfg = Unbonded] \in Frames
          /\ Sound([r EXCEPT !.pc = "save", !.cfg = Unbonded])
      BY <2>0, Zenon DEF Frames, Sound, Pcs, Unbonded, Configs
    <3> QED
      BY <2>0, <2>11, <3>1, FrameStep, IdleSound, Zenon DEF Unjail, Put
  <2>12. CASE SaveWallet(t)
    <3>1. ASSUME NEW pc \in Pcs PROVE [r EXCEPT !.pc = pc] \in Frames /\ Sound([r EXCEPT !.pc = pc])
      BY <2>0 DEF Frames, Sound
    <3>2. "ledger" \in Pcs /\ "save" \in Pcs
      BY DEF Pcs
    <3> QED
      BY <2>0, <2>12, <3>1, <3>2, FrameStep, Zenon DEF SaveWallet, Goto, Put
  <2>13. CASE SaveLedger(t)
    <3>1. [r EXCEPT !.pc = "save"] \in Frames /\ Sound([r EXCEPT !.pc = "save"])
      BY <2>0 DEF Frames, Sound, Pcs
    <3> QED
      BY <2>0, <2>13, <3>1, FrameStep, Zenon DEF SaveLedger, Goto, Put
  <2>14. CASE SaveConfig(t)
    <3>1. r.cfg \in Configs
      BY <2>0 DEF Frames
    <3> QED
      BY <2>0, <2>14, <3>1, FrameStep, IdleSound, Zenon DEF SaveConfig, Put
  <2> QED
    BY <1>3, <2>1, <2>2, <2>3, <2>4, <2>5, <2>6, <2>7, <2>8, <2>9, <2>10, <2>11, <2>12, <2>13, <2>14 DEF Step
<1>4. ASSUME NEW amount \in {-1, 1}, Transfer(amount) PROVE IInv'
  <2>1. amount \in Int
    OBVIOUS
  <2>2. chain \in Balances /\ Sum(chain) = Total
    BY DEF IInv
  <2>3. chain.free \in Nat /\ chain.rest \in Nat /\ chain.locked \in Nat /\ chain.slashed \in Nat
    BY <2>2 DEF Balances
  <2>4. /\ chain'.free = chain.free + amount /\ chain'.rest = chain.rest - amount
        /\ chain'.locked = chain.locked /\ chain'.slashed = chain.slashed
        /\ chain' \in Balances
    BY <1>4, <2>1, <2>2, <2>3 DEF Transfer, Move, Balances
  <2>5. Sum(chain') = Total
    BY <2>1, <2>2, <2>3, <2>4 DEF Sum
  <2> QED
    BY <1>4, <2>4, <2>5 DEF Transfer, IInv
<1>5. CASE LoseFork
  BY <1>5, IdleSound DEF LoseFork, IInv
<1>6. CASE Crash
  BY <1>6, IdleSound DEF Crash, IInv
<1> QED
  BY <1>1, <1>2, <1>3, <1>4, <1>5, <1>6 DEF BondNext

(***************************************************************************)
(* No coin is made or lost by bonding, unbonding, slashing and payments,   *)
(* and no balance falls below zero, for every instance.                    *)
(***************************************************************************)
THEOREM BondConservesCoins == BondSpec => []CoinsConserved
<1>1. IInv => CoinsConserved
  BY DEF IInv, CoinsConserved, Balances, Total
<1> QED
  BY InitIInv, NextIInv, <1>1, PTL DEF BondSpec

-----------------------------------------------------------------------------
(***************************************************************************)
(* Operations that take turns.  Between them the books agree; in the       *)
(* middle of one the chain, the wallet and the ledger agree with the       *)
(* configuration in memory one after the other, in the order in which they *)
(* are written.                                                            *)
(***************************************************************************)
Plausible(c) == c.bond > 0 <=> c.state \in {"bonded", "unbonding"}

Books(c) ==
    /\ chain.locked = c.bond
    /\ reserved = c.bond
    /\ noted = chain.slashed
    /\ Plausible(c)

\* The amounts of a block: an enabled validator locks the bond, otherwise all of it is released.
Amounts(r) ==
    /\ Plausible(r.cfg)
    /\ \/ r.op = "enable" /\ r.cfg.bond = MinBond /\ r.slash = 0
       \/ r.op = "complete" /\ r.cfg.bond = 0 /\ r.eff = reserved /\ r.slash = 0
       \/ r.op = "jail" /\ r.cfg.bond = 0 /\ r.eff = reserved

Phase(r) ==
    \/ r.pc = "load" /\ r.op \in Operations /\ Books(config)
    \/ r.pc \in Operations /\ r.pc = r.op /\ r.cfg = config /\ Books(config)
    \/ r.pc = "release" /\ r.op = "complete" /\ r.cfg = config /\ Books(config)
    \/ r.pc = "slash" /\ r.op = "jail" /\ r.eff = config.bond /\ Books(config)
    \/ r.pc = "append" /\ Amounts(r) /\ r.next.locked = r.cfg.bond /\ r.next.slashed = noted + r.slash
    \/ r.pc = "wallet" /\ Amounts(r) /\ chain.locked = r.cfg.bond /\ chain.slashed = noted + r.slash
    \/ /\ r.pc = "ledger" /\ r.op = "jail" /\ Plausible(r.cfg)
       /\ chain.locked = r.cfg.bond /\ reserved = r.cfg.bond /\ chain.slashed = noted + r.slash
    \/ r.pc = "save" /\ Books(r.cfg)

TurnInv ==
    /\ IInv
    /\ reserved \in Nat /\ noted \in Nat
    /\ troubles = 0
    /\ \A t, u \in Threads : At(t, "idle") \/ At(u, "idle") \/ t = u
    /\ BooksAgree
    /\ \A t \in Threads : ~At(t, "idle") => Phase(th[t])

\* Between operations all threads are idle, so the invariant is about one thread at a time.
LEMMA TurnFrame ==
  ASSUME TurnInv, IInv', NEW t \in Threads, ~At(t, "idle"), NEW r, Put(t, r),
         reserved' \in Nat, noted' \in Nat, troubles' = 0,
         IF At(t, "idle")' THEN Books(config)' ELSE Phase(th[t])'
  PROVE  TurnInv'
<1>1. \A u \in Threads \ {t} : th'[u] = th[u] /\ At(u, "idle")
  BY DEF TurnInv, IInv, Put, At
<1>2. \A u \in Threads \ {t} : At(u, "idle")'
  BY <1>1 DEF At
<1>3. BooksAgree'
  <2> SUFFICES ASSUME \A u \in Threads : At(u, "idle")' PROVE Books(config)'
    BY DEF BooksAgree, Books, Plausible
  <2> QED
    OBVIOUS
<1>4. ASSUME NEW u \in Threads, ~At(u, "idle")' PROVE Phase(th[u])'
  <2>1. u = t
    BY <1>2, <1>4
  <2> QED
    BY <1>4, <2>1
<1>5. \A u, v \in Threads : At(u, "idle")' \/ At(v, "idle")' \/ u = v
  BY <1>2
<1> QED
  BY <1>3, <1>4, <1>5 DEF TurnInv

LEMMA TurnStart ==
  ASSUME TurnInv, IInv', Overlap = FALSE, NEW t \in Threads, NEW op \in Operations, Begin(t, op)
  PROVE  TurnInv'
<1>1. \A u \in Threads : At(u, "idle")
  BY DEF Begin
<1>2. Books(config) /\ UNCHANGED <<chain, reserved, noted, config, troubles>>
  BY <1>1 DEF TurnInv, BooksAgree, Books, Plausible, Begin
<1>3. /\ \A u \in Threads \ {t} : th'[u] = th[u]
      /\ th'[t] = [Idle EXCEPT !.op = op, !.pc = "load"]
  BY DEF TurnInv, IInv, Begin, Put
<1>4. th'[t].pc = "load" /\ th'[t].op = op
  BY <1>3 DEF Idle
<1>5. Books(config)'
  BY <1>2 DEF Books, Plausible
<1>6. Phase(th[t])'
  BY <1>4, <1>5 DEF Phase
<1>7. \A u \in Threads \ {t} : At(u, "idle")'
  BY <1>1, <1>3 DEF At
<1>8. BooksAgree'
  BY <1>5 DEF BooksAgree, Books, Plausible
<1> QED
  BY <1>2, <1>6, <1>7, <1>8 DEF TurnInv

\* What holds of the thread whose turn it is.
LEMMA TurnFacts ==
  ASSUME TurnInv, NEW t \in Threads, ~At(t, "idle")
  PROVE  /\ th \in [Threads -> Frames] /\ th[t] \in Frames /\ Phase(th[t])
         /\ th[t].cfg \in Configs /\ th[t].cfg.bond \in Nat /\ th[t].eff \in Nat /\ th[t].slash \in Nat
         /\ th[t].next \in Balances
         /\ config \in Configs /\ config.bond \in Nat
         /\ chain.locked \in Nat /\ chain.slashed \in Nat
         /\ reserved \in Nat /\ noted \in Nat /\ troubles = 0
<1>1. th \in [Threads -> Frames] /\ config \in Configs /\ chain \in Balances /\ Phase(th[t])
  BY DEF TurnInv, IInv
<1>2. th[t] \in Frames
  BY <1>1
<1>3. /\ th[t].cfg \in Configs /\ th[t].eff \in Nat /\ th[t].slash \in Nat
      /\ th[t].next \in Balances
  BY <1>2 DEF Frames
<1>4. th[t].cfg.bond \in Nat /\ config.bond \in Nat
  BY <1>1, <1>3 DEF Configs
<1>5. chain.locked \in Nat /\ chain.slashed \in Nat
  BY <1>1 DEF Balances
<1> QED
  BY <1>1, <1>2, <1>3, <1>4, <1>5 DEF TurnInv

\* The operation ends, or goes on after having looked at things.
LEMMA TurnLooks ==
  ASSUME TurnInv, IInv', NEW t \in Threads, ~At(t, "idle"), NEW r, Put(t, r), Books(config),
         UNCHANGED <<chain, reserved, noted, config, troubles>>,
         Books(config)' => r = Idle \/ Phase(th[t])'
  PROVE  TurnInv'
<1>1. th'[t] = r
  BY TurnFacts DEF Put
<1>2. Books(config)'
  BY DEF Books, Plausible
<1>3. CASE r = Idle
  BY <1>1, <1>2, <1>3, TurnFacts, TurnFrame DEF At, Idle
<1>4. CASE Phase(th[t])'
  <2>1. IF At(t, "idle")' THEN Books(config)' ELSE Phase(th[t])'
    BY <1>2, <1>4
  <2> QED
    BY <2>1, TurnFacts, TurnFrame
<1> QED
  BY <1>2, <1>3, <1>4

LEMMA TurnLoad ==
  ASSUME TurnInv, IInv', NEW t \in Threads, Load(t) PROVE TurnInv'
<1>0. ~At(t, "idle") /\ th[t].pc = "load"
  BY DEF Load, At
<1>1. Books(config) /\ th[t].op \in Operations
  BY <1>0, TurnFacts, Zenon DEF Phase, Operations
<1>2. config.state = "bonded" => Backed(config)
  BY <1>0, <1>1, TurnFacts DEF Books, Plausible, Backed
<1> DEFINE r == [th[t] EXCEPT !.cfg = config, !.pc = th[t].op]
<1>3. Put(t, r) /\ UNCHANGED <<chain, reserved, noted, config, troubles>>
  BY <1>2 DEF Load
<1>4. r.cfg = config /\ r.pc = th[t].op /\ r.op = th[t].op
  BY <1>0, TurnFacts DEF Frames
<1>5. th'[t] = r
  BY <1>0, <1>3, TurnFacts, Zenon DEF Put
<1> HIDE DEF r
<1>6. Books(config)' => Phase(th[t])'
  BY <1>1, <1>3, <1>4, <1>5 DEF Phase
<1> QED
  BY <1>0, <1>1, <1>3, <1>6, TurnLooks

\* The test that heals a configuration never fails.
LEMMA TurnHeal ==
  ASSUME TurnInv, NEW t \in Threads PROVE ~Heal(t)
<1> SUFFICES ASSUME Heal(t) PROVE FALSE
  OBVIOUS
<1>1. ~At(t, "idle") /\ th[t].pc = "heal"
  BY DEF Heal, At
<1> QED
  BY <1>1, TurnFacts DEF Phase, Operations

\* An operation that has loaded the configuration has what is in the file.
LEMMA TurnLoaded ==
  ASSUME TurnInv, NEW t \in Threads, NEW op \in Operations, At(t, op)
  PROVE  ~At(t, "idle") /\ th[t].op = op /\ th[t].cfg = config /\ Books(config)
<1>1. ~At(t, "idle") /\ th[t].pc = op /\ op \notin {"load", "release", "slash", "append", "wallet", "ledger", "save"}
  BY DEF At, Operations
<1> QED
  BY <1>1, TurnFacts DEF Phase

\* append_chain_block with amounts that fit the configuration in memory.
LEMMA TurnAppend ==
  ASSUME TurnInv, IInv', NEW t \in Threads, ~At(t, "idle"), Books(config),
         NEW next, NEW cfg, NEW eff, NEW slash, AppendBlock(t, next, cfg, eff, slash),
         next.locked = cfg.bond, next.slashed = chain.slashed + slash, Plausible(cfg),
         \/ th[t].op = "enable" /\ cfg.bond = MinBond /\ slash = 0
         \/ th[t].op = "complete" /\ cfg.bond = 0 /\ eff = config.bond /\ slash = 0
         \/ th[t].op = "jail" /\ cfg.bond = 0 /\ eff = config.bond
  PROVE  TurnInv'
<1>1. UNCHANGED <<chain, reserved, noted, config, troubles>>
  BY DEF AppendBlock
<1> DEFINE r == [th[t] EXCEPT !.pc = "append", !.next = next, !.cfg = cfg, !.eff = eff, !.slash = slash]
<1>2. CASE Put(t, r)
  <2>1. th'[t] = r
    BY <1>2, TurnFacts, ZenonT(30) DEF Put
  <2>2. /\ r.pc = "append" /\ r.next = next /\ r.cfg = cfg /\ r.eff = eff /\ r.slash = slash
        /\ r.op = th[t].op
    BY TurnFacts DEF Frames
  <2> HIDE DEF r
  <2>3. Amounts(th[t])'
    BY <1>1, <2>1, <2>2 DEF Amounts, Books, Plausible
  <2>4. th'[t].next.locked = th'[t].cfg.bond /\ th'[t].next.slashed = noted' + th'[t].slash
    BY <1>1, <2>1, <2>2 DEF Books
  <2>5. Phase(th[t])'
    BY <2>1, <2>2, <2>3, <2>4, Zenon DEF Phase
  <2> QED
    BY <1>1, <1>2, <2>5, TurnLooks
<1>3. CASE Put(t, Idle)
  BY <1>1, <1>3, TurnLooks, Zenon
<1> QED
  BY <1>2, <1>3 DEF AppendBlock, Raise

LEMMA TurnLook ==
  ASSUME TurnInv, IInv', NEW t \in Threads, Look(t) PROVE TurnInv'
<1>1. ~At(t, "idle") /\ Books(config)
  BY TurnLoaded DEF Look, Operations
<1> QED
  BY <1>1, TurnLooks DEF Look, Raise

LEMMA TurnEnable ==
  ASSUME TurnInv, IInv', NEW t \in Threads, Enable(t) PROVE TurnInv'
<1>1. ~At(t, "idle") /\ th[t].op = "enable" /\ th[t].cfg = config /\ Books(config)
  BY TurnLoaded DEF Enable, Operations
<1>2. CASE th[t].cfg.state = "unbonded" /\ chain.free >= MinBond
  <2> DEFINE cfg == [state |-> "bonded", bond |-> MinBond]
             next == Move(-MinBond, MinBond, 0)
  <2>1. AppendBlock(t, next, cfg, 0, 0)
    BY <1>2 DEF Enable
  <2>2. chain.locked = 0 /\ chain.slashed \in Nat
    BY <1>1, <1>2, TurnFacts DEF Books, Plausible
  <2>3. next.locked = cfg.bond /\ next.slashed = chain.slashed + 0 /\ Plausible(cfg) /\ cfg.bond = MinBond
    BY <2>2, BondAssumption DEF Move, Plausible
  <2> HIDE DEF cfg, next
  <2> QED
    BY <1>1, <2>1, <2>3, TurnAppend
<1>3. CASE ~(th[t].cfg.state = "unbonded" /\ chain.free >= MinBond)
  BY <1>1, <1>3, TurnLooks DEF Enable, Raise
<1> QED
  BY <1>2, <1>3

LEMMA TurnDisable ==
  ASSUME TurnInv, IInv', NEW t \in Threads, Disable(t) PROVE TurnInv'
<1>1. ~At(t, "idle") /\ th[t].cfg = config /\ Books(config)
  BY TurnLoaded DEF Disable, Operations
<1> DEFINE c == IF config.state = "bonded" THEN [config EXCEPT !.state = "unbonding"] ELSE config
           r == [th[t] EXCEPT !.pc = "save", !.cfg = c]
<1>2. Put(t, r) /\ UNCHANGED <<chain, reserved, noted, config, troubles>>
  BY <1>1 DEF Disable
<1>3. c.bond = config.bond /\ Plausible(c)
  BY <1>1, TurnFacts DEF Books, Plausible, Configs
<1>4. r.pc = "save" /\ r.cfg = c
  BY <1>1, TurnFacts DEF Frames
<1>5. th'[t] = r
  BY <1>1, <1>2, TurnFacts, Zenon DEF Put
<1> HIDE DEF c, r
<1>6. Books(th[t].cfg)'
  BY <1>1, <1>2, <1>3, <1>4, <1>5 DEF Books, Plausible
<1>7. Phase(th[t])'
  BY <1>4, <1>5, <1>6 DEF Phase
<1> QED
  BY <1>1, <1>2, <1>7, TurnLooks

LEMMA TurnComplete ==
  ASSUME TurnInv, IInv', NEW t \in Threads, Complete(t) PROVE TurnInv'
<1>1. ~At(t, "idle") /\ th[t].op = "complete" /\ th[t].cfg = config /\ Books(config)
  BY TurnLoaded DEF Complete, Operations
<1>2. config.state = "unbonding" => Backed(config)
  BY <1>1, TurnFacts DEF Books, Plausible, Backed
<1>3. UNCHANGED <<chain, reserved, noted, config, troubles>>
  BY DEF Complete
<1>4. CASE Put(t, [th[t] EXCEPT !.pc = "release"])
  <2>1. th'[t].pc = "release" /\ th'[t].op = "complete" /\ th'[t].cfg = config'
    BY <1>1, <1>3, <1>4, TurnFacts DEF Put, Frames
  <2>2. Books(config)' => Phase(th[t])'
    BY <2>1 DEF Phase
  <2> QED
    BY <1>1, <1>3, <1>4, <2>2, TurnLooks, Zenon
<1>5. CASE Put(t, Idle)
  BY <1>1, <1>3, <1>5, TurnLooks
<1> QED
  BY <1>1, <1>2, <1>4, <1>5 DEF Complete, Goto, Raise

LEMMA TurnRelease ==
  ASSUME TurnInv, IInv', NEW t \in Threads, Release(t) PROVE TurnInv'
<1>1. ~At(t, "idle") /\ th[t].pc = "release"
  BY DEF Release, At
<1>2. th[t].op = "complete" /\ th[t].cfg = config /\ Books(config)
  BY <1>1, TurnFacts, Zenon DEF Phase, Operations
<1> DEFINE bond == config.bond
           next == Move(bond, -bond, 0)
<1>3. AppendBlock(t, next, Unbonded, bond, 0)
  BY <1>2 DEF Release
<1>4. next.locked = Unbonded.bond /\ next.slashed = chain.slashed + 0 /\ Plausible(Unbonded) /\ Unbonded.bond = 0
  BY <1>1, <1>2, TurnFacts DEF Move, Unbonded, Plausible, Books
<1> HIDE DEF next
<1> QED
  BY <1>1, <1>2, <1>3, <1>4, TurnAppend

LEMMA TurnJail ==
  ASSUME TurnInv, IInv', NEW t \in Threads, Jail(t) PROVE TurnInv'
<1>1. ~At(t, "idle") /\ th[t].op = "jail" /\ th[t].cfg = config /\ Books(config)
  BY TurnLoaded DEF Jail, Operations
<1> DEFINE eff == IF chain.locked < config.bond THEN chain.locked ELSE config.bond
           r == [th[t] EXCEPT !.pc = "slash", !.eff = eff, !.slash = SlashOf(eff)]
<1>2. eff = config.bond
  BY <1>1, TurnFacts DEF Books
<1>3. UNCHANGED <<chain, reserved, noted, config, troubles>> /\ (Put(t, r) \/ Put(t, Idle))
  BY <1>1 DEF Jail
<1>4. CASE Put(t, r)
  <2>1. th'[t] = r
    BY <1>1, <1>4, TurnFacts, Zenon DEF Put
  <2>2. r.pc = "slash" /\ r.op = "jail" /\ r.eff = config'.bond
    BY <1>1, <1>2, <1>3, TurnFacts DEF Frames
  <2> HIDE DEF r
  <2>3. Books(config)' => Phase(th[t])'
    BY <2>1, <2>2 DEF Phase
  <2> QED
    BY <1>1, <1>3, <1>4, <2>3, TurnLooks, Zenon
<1>5. CASE Put(t, Idle)
  BY <1>1, <1>3, <1>5, TurnLooks
<1> QED
  BY <1>3, <1>4, <1>5

LEMMA TurnSlash ==
  ASSUME TurnInv, IInv', NEW t \in Threads, Slash(t) PROVE TurnInv'
<1>1. ~At(t, "idle") /\ th[t].pc = "slash"
  BY DEF Slash, At
<1>2. th[t].op = "jail" /\ th[t].eff = config.bond /\ Books(config)
  BY <1>1, TurnFacts, Zenon DEF Phase, Operations
<1> DEFINE eff == th[t].eff
           slash == th[t].slash
           next == Move(eff - slash, -eff, slash)
           cfg == [state |-> "jailed", bond |-> 0]
<1>3. AppendBlock(t, next, cfg, eff, slash)
  BY Zenon DEF Slash
<1>4. next.locked = cfg.bond /\ next.slashed = chain.slashed + slash /\ Plausible(cfg) /\ cfg.bond = 0
  BY <1>1, <1>2, TurnFacts DEF Move, Plausible, Books
<1> HIDE DEF next, cfg
<1> QED
  BY <1>1, <1>2, <1>3, <1>4, TurnAppend, Zenon

LEMMA TurnUnjail ==
  ASSUME TurnInv, IInv', NEW t \in Threads, Unjail(t) PROVE TurnInv'
<1>1. ~At(t, "idle") /\ th[t].cfg = config /\ Books(config)
  BY TurnLoaded DEF Unjail, Operations
<1> DEFINE r == [th[t] EXCEPT !.pc = "save", !.cfg = Unbonded]
<1>2. UNCHANGED <<chain, reserved, noted, config, troubles>>
  BY DEF Unjail
<1>3. CASE Put(t, r) /\ config.state = "jailed"
  <2>1. th'[t] = r
    BY <1>1, <1>3, TurnFacts, Zenon DEF Put
  <2>2. r.pc = "save" /\ r.cfg = Unbonded
    BY <1>1, TurnFacts DEF Frames
  <2>3. config.bond = 0 /\ Unbonded.bond = 0 /\ Plausible(Unbonded)
    BY <1>1, <1>3, TurnFacts DEF Books, Plausible, Unbonded
  <2> HIDE DEF r
  <2>4. Books(th[t].cfg)'
    BY <1>1, <1>2, <2>1, <2>2, <2>3, Zenon DEF Books, Plausible
  <2>5. Phase(th[t])'
    BY <2>1, <2>2, <2>4, Zenon DEF Phase
  <2> QED
    BY <1>1, <1>2, <1>3, <2>5, TurnLooks, Zenon
<1>4. CASE Put(t, Idle)
  BY <1>1, <1>2, <1>4, TurnLooks, Zenon
<1> QED
  BY <1>1, <1>3, <1>4 DEF Unjail

LEMMA TurnSaveChain ==
  ASSUME TurnInv, IInv', NEW t \in Threads, SaveChain(t) PROVE TurnInv'
<1>1. ~At(t, "idle") /\ th[t].pc = "append"
  BY DEF SaveChain, At
<1>2. /\ Amounts(th[t]) /\ th[t].next.locked = th[t].cfg.bond
      /\ th[t].next.slashed = noted + th[t].slash
  BY <1>1, TurnFacts, Zenon DEF Phase, Operations
<1> DEFINE r == [th[t] EXCEPT !.pc = "wallet", !.next = Genesis]
<1>3. Put(t, r) /\ chain' = th[t].next /\ UNCHANGED <<reserved, noted, config, troubles>>
  BY DEF SaveChain
<1>4. th'[t] = r
  BY <1>1, <1>3, TurnFacts, Zenon DEF Put
<1>5. r.pc = "wallet" /\ r.op = th[t].op /\ r.cfg = th[t].cfg /\ r.eff = th[t].eff /\ r.slash = th[t].slash
  BY <1>1, TurnFacts DEF Frames
<1> HIDE DEF r
<1>6. Amounts(th[t])'
  BY <1>2, <1>3, <1>4, <1>5, Zenon DEF Amounts, Plausible
<1>7. Phase(th[t])' /\ ~At(t, "idle")'
  BY <1>2, <1>3, <1>4, <1>5, <1>6, Zenon DEF Phase, At
<1> QED
  BY <1>1, <1>3, <1>7, TurnFacts, TurnFrame, Zenon

LEMMA TurnSaveWallet ==
  ASSUME TurnInv, IInv', NEW t \in Threads, SaveWallet(t) PROVE TurnInv'
<1>1. ~At(t, "idle") /\ th[t].pc = "wallet"
  BY SMTT(30) DEF SaveWallet, At
<1>2. Amounts(th[t]) /\ chain.locked = th[t].cfg.bond /\ chain.slashed = noted + th[t].slash
  BY <1>1, TurnFacts, Zenon DEF Phase, Operations
<1> DEFINE r == [th[t] EXCEPT !.pc = IF th[t].op = "jail" THEN "ledger" ELSE "save"]
<1>3. Put(t, r) /\ UNCHANGED <<chain, noted, config, troubles>>
  BY DEF SaveWallet, Goto
<1>4. reserved' = th[t].cfg.bond
  BY <1>1, <1>2, TurnFacts, BondAssumption DEF SaveWallet, Amounts
<1>5. th'[t] = r
  BY <1>1, <1>3, TurnFacts DEF Put
<1>6. /\ r.op = th[t].op /\ r.cfg = th[t].cfg /\ r.slash = th[t].slash
      /\ r.pc = IF th[t].op = "jail" THEN "ledger" ELSE "save"
  BY <1>1, TurnFacts DEF Frames
<1> HIDE DEF r
<1>7. Plausible(th[t].cfg) /\ (th[t].op # "jail" => th[t].slash = 0)
  BY <1>2, SMTT(30) DEF Amounts
<1>8. CASE th[t].op = "jail"
  <2>1. Phase(th[t])' /\ ~At(t, "idle")'
    BY <1>2, <1>3, <1>4, <1>5, <1>6, <1>7, <1>8, Zenon DEF Phase, Plausible, At
  <2> QED
    BY <1>1, <1>3, <1>4, <2>1, TurnFacts, TurnFrame, Zenon
<1>9. CASE th[t].op # "jail"
  <2>1. noted = chain.slashed
    BY <1>1, <1>2, <1>7, <1>9, TurnFacts
  <2>2. Books(th[t].cfg)'
    BY <1>2, <1>3, <1>4, <1>5, <1>6, <1>7, <2>1, Zenon DEF Books, Plausible
  <2>3. Phase(th[t])' /\ ~At(t, "idle")'
    BY <1>5, <1>6, <1>9, <2>2, Zenon DEF Phase, At
  <2> QED
    BY <1>1, <1>3, <1>4, <2>3, TurnFacts, TurnFrame, Zenon
<1> QED
  BY <1>8, <1>9

LEMMA TurnSaveLedger ==
  ASSUME TurnInv, IInv', NEW t \in Threads, SaveLedger(t) PROVE TurnInv'
<1>1. ~At(t, "idle") /\ th[t].pc = "ledger"
  BY SMTT(30) DEF SaveLedger, At
<1>2. /\ Plausible(th[t].cfg) /\ chain.locked = th[t].cfg.bond /\ reserved = th[t].cfg.bond
      /\ chain.slashed = noted + th[t].slash
  BY <1>1, TurnFacts, Zenon DEF Phase, Operations
<1> DEFINE r == [th[t] EXCEPT !.pc = "save"]
<1>3. Put(t, r) /\ noted' = noted + th[t].slash /\ UNCHANGED <<chain, reserved, config, troubles>>
  BY DEF SaveLedger, Goto
<1>4. th'[t] = r
  BY <1>1, <1>3, TurnFacts DEF Put
<1>5. r.pc = "save" /\ r.cfg = th[t].cfg
  BY <1>1, TurnFacts DEF Frames
<1> HIDE DEF r
<1>6. Books(th[t].cfg)'
  BY <1>2, <1>3, <1>4, <1>5, Zenon DEF Books, Plausible
<1>7. noted' \in Nat
  <2>1. noted \in Nat /\ th[t].slash \in Nat
    BY <1>1, TurnFacts, Zenon
  <2> QED
    BY ONLY <1>3, <2>1
<1>8. Phase(th[t])' /\ ~At(t, "idle")'
  BY <1>4, <1>5, <1>6, Zenon DEF Phase, At
<1> QED
  BY <1>1, <1>3, <1>7, <1>8, TurnFacts, TurnFrame, Zenon

LEMMA TurnSaveConfig ==
  ASSUME TurnInv, IInv', NEW t \in Threads, SaveConfig(t) PROVE TurnInv'
<1>1. ~At(t, "idle") /\ th[t].pc = "save"
  BY SMTT(30) DEF SaveConfig, At
<1>2. Books(th[t].cfg)
  BY <1>1, TurnFacts, Zenon DEF Phase, Operations
<1>3. Put(t, Idle) /\ config' = th[t].cfg /\ UNCHANGED <<chain, reserved, noted, troubles>>
  BY DEF SaveConfig
<1>4. Books(config)'
  BY <1>2, <1>3 DEF Books, Plausible
<1>5. At(t, "idle")'
  BY <1>1, <1>3, TurnFacts DEF Put, At, Idle
<1> QED
  BY <1>1, <1>3, <1>4, <1>5, TurnFacts, TurnFrame, Zenon

\* A payment leaves lock and slash pool alone.
LEMMA TurnTransfer ==
  ASSUME TurnInv, IInv', NEW amount \in {-1, 1}, Transfer(amount), Overlap = FALSE
  PROVE  TurnInv'
<1>1. chain'.locked = chain.locked /\ chain'.slashed = chain.slashed
  BY DEF Transfer, Move, TurnInv, IInv, Balances
<1>2. UNCHANGED <<reserved, noted, config, th, troubles>> /\ \A t \in Threads : At(t, "idle")
  BY DEF Transfer
<1>3. BooksAgree'
  BY <1>1, <1>2 DEF TurnInv, BooksAgree
<1> QED
  BY <1>2, <1>3 DEF TurnInv, At

LEMMA InitTurnInv == BondInit => TurnInv
<1> SUFFICES ASSUME BondInit PROVE TurnInv
  OBVIOUS
<1>1. IInv /\ \A t \in Threads : At(t, "idle")
  BY InitIInv DEF BondInit, At, Idle
<1>2. reserved = 0 /\ noted = 0 /\ troubles = 0 /\ BooksAgree
  BY DEF BondInit, BooksAgree, Genesis, Unbonded
<1> QED
  BY <1>1, <1>2 DEF TurnInv

LEMMA NextTurnInv ==
  ASSUME Overlap = FALSE, MaxTroubles = 0, TurnInv, [BondNext]_bondVars
  PROVE  TurnInv'
<1>1. IInv'
  BY NextIInv, SMTT(30) DEF TurnInv
<1>2. CASE UNCHANGED bondVars
  <2>1. UNCHANGED <<chain, reserved, noted, config, th, troubles>>
    BY <1>2 DEF bondVars
  <2>2. ASSUME NEW t \in Threads PROVE At(t, "idle")' = At(t, "idle")
    BY <2>1 DEF At
  <2>3. BooksAgree'
    BY <2>1, <2>2 DEF TurnInv, BooksAgree
  <2>4. ASSUME NEW t \in Threads, Phase(th[t]) PROVE Phase(th[t])'
    <3>1. Books(config)' = Books(config) /\ Books(th[t].cfg)' = Books(th[t].cfg)
      BY <2>1, Zenon DEF Books, Plausible
    <3>2. Amounts(th[t])' = Amounts(th[t]) /\ Plausible(th[t].cfg)' = Plausible(th[t].cfg)
      BY <2>1 DEF Amounts, Plausible
    <3> QED
      BY <2>1, <2>4, <3>1, <3>2, ZenonT(30) DEF Phase
  <2> QED
    BY <1>1, <2>1, <2>2, <2>3, <2>4, Zenon DEF TurnInv
<1>3. ASSUME NEW t \in Threads, NEW op \in Operations, Begin(t, op) PROVE TurnInv'
  BY <1>1, <1>3, TurnStart, Zenon
<1>4. ASSUME NEW t \in Threads, Step(t) PROVE TurnInv'
  BY <1>1, <1>4, TurnLoad, TurnHeal, TurnLook, TurnSaveChain, TurnEnable, TurnDisable, TurnComplete,
     TurnRelease, TurnJail, TurnSlash, TurnUnjail, TurnSaveWallet, TurnSaveLedger, TurnSaveConfig DEF Step
<1>5. ASSUME NEW amount \in {-1, 1}, Transfer(amount) PROVE TurnInv'
  BY <1>1, <1>5, TurnTransfer, Zenon
<1>6. ~LoseFork /\ ~Crash
  BY DEF Trouble, TurnInv, LoseFork, Crash
<1> QED
  BY <1>2, <1>3, <1>4, <1>5, <1>6, Zenon DEF BondNext

(***************************************************************************)
(* If operations take turns and none is cut off, then between operations   *)
(* exactly the bond of the configuration is locked on the chain and        *)
(* reserved in the wallet, an unbonded or jailed validator has nothing     *)
(* locked, and the ledger knows every slash (set_validator_mode,           *)
(* complete_validator_unbond, jail_validator), for every bond, slash rate  *)
(* and sequence of operations and payments.                                *)
(***************************************************************************)
THEOREM BooksAgreeInTurns ==
  ASSUME Overlap = FALSE, MaxTroubles = 0
  PROVE  BondSpec => []BooksAgree
<1>1. TurnInv /\ [BondNext]_bondVars => TurnInv'
  BY NextTurnInv, Zenon
<1>2. TurnInv => BooksAgree
  BY DEF TurnInv
<1> QED
  BY InitTurnInv, <1>1, <1>2, PTL DEF BondSpec

-----------------------------------------------------------------------------
INSTANCE FiniteSetTheorems

Records == [active : Replicas \cup {None}, left : Nat, host : Replicas \cup {None}]

\* Every lease that is not over is the lease of h.
HeldBy(h) == \A n \in up : Leased(rec[n]) => rec[n].active = h

LeaseInv ==
    /\ rec \in [Replicas -> Records]
    /\ up \subseteq Replicas
    /\ changes = 0
    /\ \E h \in Replicas : HeldBy(h)

-----------------------------------------------------------------------------
\* A record that grows older stays a record, and its lease is not active again.
LEMMA ElapsedRecord ==
  ASSUME NEW r \in Records
  PROVE  Elapsed(r) \in Records /\ Elapsed(r).active = r.active /\ (Leased(Elapsed(r)) => Leased(r))
  BY DEF Elapsed, Records, Leased

LEMMA MergedRecord ==
  ASSUME NEW r \in Records, NEW s \in Records
  PROVE  Merged(r, s) \in {r, s}
  BY DEF Merged

LEMMA LeaseInit == Init => LeaseInv
<1> SUFFICES ASSUME Init PROVE LeaseInv
  OBVIOUS
<1> PICK first \in Replicas : rec = [n \in Replicas |-> [active |-> first, left |-> LeaseTime, host |-> n]]
  BY DEF Init
<1>1. rec \in [Replicas -> Records]
  BY LeaseAssumption DEF Records
<1>2. HeldBy(first)
  BY DEF HeldBy, Init
<1> QED
  BY <1>1, <1>2 DEF LeaseInv, Init

-----------------------------------------------------------------------------
\* Whoever renews the lease held it, or found it over in every registry.
LEMMA RenewKeeps ==
  ASSUME LeaseInv, Timely, NEW n \in Replicas, Renew(n)
  PROVE  /\ rec' \in [Replicas -> Records]
         /\ \A m \in up : Leased(rec'[m]) => rec'[m].active = n
<1> USE DEF LeaseInv
<1>1. /\ n \in up /\ ~HeldByOther(n) /\ Settled
      /\ rec' = [m \in Replicas |-> IF m = n THEN [active |-> n, left |-> LeaseTime, host |-> n]
                                    ELSE Elapsed(rec[m])]
  BY DEF Renew, BecomesActive, MayPass
<1>2. rec' \in [Replicas -> Records]
  BY <1>1, ElapsedRecord, LeaseAssumption DEF Records
<1>3. ASSUME NEW m \in up, m # n, Leased(rec'[m]) PROVE rec'[m].active = n
  <2>1. rec'[m] = Elapsed(rec[m]) /\ rec[m] \in Records
    BY <1>1, <1>3
  <2>2. Leased(rec[m]) /\ rec'[m].active = rec[m].active
    BY <1>3, <2>1, ElapsedRecord
  <2>3. Leased(rec[n]) /\ rec[n].active = rec[m].active
    BY <1>1, <2>2 DEF Settled, Leased
  <2> QED
    BY <1>1, <2>2, <2>3 DEF HeldByOther
<1> QED
  BY <1>1, <1>2, <1>3

LEMMA StepDownKeeps ==
  ASSUME LeaseInv, NEW n \in Replicas, StepDown(n)
  PROVE  /\ rec' \in [Replicas -> Records]
         /\ \A m \in Replicas : Leased(rec'[m]) = Leased(rec[m]) /\ rec'[m].active = rec[m].active
<1>1. rec \in [Replicas -> Records] /\ rec' = [rec EXCEPT ![n].host = n]
  BY DEF LeaseInv, StepDown
<1> QED
  BY <1>1 DEF Records, Leased

LEMMA LeaseNext ==
  ASSUME LeaseInv, [Next]_vars, Timely, MaxChanges = 0
  PROVE  LeaseInv'
<1> PICK h \in Replicas : HeldBy(h)
  BY DEF LeaseInv
<1>t. rec \in [Replicas -> Records] /\ up \subseteq Replicas /\ changes = 0
  BY DEF LeaseInv
<1>f. ASSUME NEW n \in Replicas, Renew(n) \/ StepDown(n), UNCHANGED <<up, changes>> PROVE LeaseInv'
  <2>1. CASE Renew(n)
    BY <1>t, <1>f, <2>1, RenewKeeps DEF LeaseInv, HeldBy
  <2>2. CASE StepDown(n)
    BY <1>t, <1>f, <2>2, StepDownKeeps DEF LeaseInv, HeldBy
  <2> QED
    BY <1>f, <2>1, <2>2
<1>1. CASE Tick
  <2>1. rec' = [n \in Replicas |-> Elapsed(rec[n])] /\ UNCHANGED <<up, changes>>
    BY <1>1 DEF Tick
  <2>2. \A n \in Replicas : /\ rec'[n] = Elapsed(rec[n]) /\ rec'[n] \in Records
                            /\ Leased(rec'[n]) => Leased(rec[n])
                            /\ rec'[n].active = rec[n].active
    BY <1>t, <2>1, ElapsedRecord
  <2>3. rec' \in [Replicas -> Records]
    BY <2>1, <2>2
  <2>4. UNCHANGED <<up, changes>>
    BY <2>1
  <2> QED
    BY <1>t, <2>2, <2>3, <2>4 DEF LeaseInv, HeldBy
<1>2. ASSUME NEW n \in Replicas, Refresh(n) PROVE LeaseInv'
  BY <1>2, <1>f DEF Refresh
<1>3. ASSUME NEW n \in Replicas, Observe(n) PROVE LeaseInv'
  BY <1>t, <1>3 DEF Observe, LeaseInv, HeldBy
<1>4. ASSUME NEW n \in Replicas, Ask(n) PROVE LeaseInv'
  BY <1>4, <1>f DEF Ask
<1>5. ASSUME NEW n \in Replicas, GoDown(n) PROVE LeaseInv'
  BY <1>t, <1>5 DEF GoDown, LeaseInv, HeldBy
<1>6. ASSUME NEW n \in Replicas, NEW m \in Replicas, Gossip(n, m) PROVE LeaseInv'
  <2>1. {n, m} \subseteq up /\ rec' = [rec EXCEPT ![n] = Merged(rec[n], rec[m])] /\ UNCHANGED <<up, changes>>
    BY <1>6 DEF Gossip
  <2>2. Merged(rec[n], rec[m]) \in {rec[n], rec[m]} /\ Merged(rec[n], rec[m]) \in Records
    BY <1>t, MergedRecord
  <2> QED
    BY <1>t, <2>1, <2>2 DEF LeaseInv, HeldBy
<1>7. ASSUME NEW n \in Replicas, NEW r \in {"active", "passive"}, SetRole(n, r) PROVE LeaseInv'
  BY <1>t, <1>7 DEF SetRole
<1>8. CASE UNCHANGED vars
  BY <1>t, <1>8 DEF vars, LeaseInv, HeldBy
<1> QED
  BY <1>1, <1>2, <1>3, <1>4, <1>5, <1>6, <1>7, <1>8 DEF Next

-----------------------------------------------------------------------------
LEMMA IInvOneSigner == LeaseInv => OneSigner
<1> SUFFICES ASSUME LeaseInv PROVE OneSigner
  OBVIOUS
<1> PICK h \in Replicas : HeldBy(h)
  BY DEF LeaseInv
<1>1. Signers \in SUBSET {h}
  BY DEF Signers, HeldBy
<1>2. IsFiniteSet({h}) /\ Cardinality({h}) = 1
  BY FS_Singleton, Zenon
<1> QED
  BY <1>1, <1>2, FS_Subset DEF OneSigner

\* For every set of replicas, every lease time and any crashes: two replicas of one validator
\* never hold its lease together (refresh_validator_ha_lease), if renewals reach the replicas in
\* time and no operator interferes.
THEOREM LeaseIsExclusive ==
  ASSUME Timely, MaxChanges = 0
  PROVE  Spec => []OneSigner
<1>1. LeaseInv /\ [Next]_vars => LeaseInv'
  BY LeaseNext
<1> QED
  BY <1>1, LeaseInit, IInvOneSigner, PTL DEF Spec
=============================================================================
