-------------------------------- MODULE Chain --------------------------------
(***************************************************************************)
(* The local blockchain of every node (cai_compute_chain/chain.py) and its *)
(* exchange between nodes.                                                 *)
(*                                                                         *)
(* A node keeps the chain in one JSON file and an index of balances in     *)
(* another.  The server, the command line and the desktop application are  *)
(* processes that share these files; only the replacement of one file is   *)
(* atomic.  A process reads the chain, checks and extends its copy, writes *)
(* the chain file, stamps an index with the identity of the chain file and *)
(* writes the index file; the actions below are these steps.               *)
(*                                                                         *)
(* A bundle is the list of transactions of one append, all of them new or  *)
(* all of them known.  Its effect on the balances is Delta.                *)
(***************************************************************************)
EXTENDS Integers, Sequences, FiniteSetsExt

CONSTANTS
    Nodes,
    Procs,       \* Procs[n]: the processes of node n
    Authorized,  \* nodes with the key of the one validator others accept
    Addresses,
    Bundles,     \* bundles that can be appended
    Genesis,     \* the bundle of the genesis block of the active policy
    Stale,       \* the bundle of a genesis block of an older policy
    Delta,       \* Delta[b][a]: what bundle b adds to the balance of a
    Nonce,       \* Nonce[b]: address and nonce of a bundle
    MaxBlocks,   \* bound: blocks created in all
    MaxWrites,   \* bound: writes of a chain file
    MaxCrashes   \* bound: crashes of a process

ASSUME AuthorizedAreNodes == Authorized \subseteq Nodes

AllBundles == Bundles \cup {Genesis, Stale}

VARIABLES
    chain,    \* chain[n]: the blocks in the chain file of n
    version,  \* version[n]: modification time and size of that file
    index,    \* index[n]: the index file
    proc,     \* proc[n][p]: what process p of n is doing
    wire,     \* the signed payloads that peers have fetched or been sent
    blocks,   \* number of blocks created
    crashes

vars == <<chain, version, index, proc, wire, blocks, crashes>>

(***************************************************************************)
(* ChainBlock.  The hash covers all fields and a random number, so it is   *)
(* a fresh number; the genesis block of a policy is always the same.       *)
(***************************************************************************)
NoHash == -2
GenesisBlock == [hash |-> 0, height |-> 0, prev |-> NoHash, bundle |-> Genesis]
StaleBlock == [hash |-> -1, height |-> 0, prev |-> NoHash, bundle |-> Stale]

Block == [hash : Int, height : Nat, prev : Int, bundle : AllBundles]

Tip(bs) == bs[Len(bs)]
Hashes(bs) == {bs[i].hash : i \in DOMAIN bs}
BundlesOf(bs) == {bs[i].bundle : i \in DOMAIN bs}

(***************************************************************************)
(* chain_balance_index: every transaction counts once.                     *)
(***************************************************************************)
Balance(bs, a) == MapThenSumSet(LAMBDA b : Delta[b][a], BundlesOf(bs))

(***************************************************************************)
(* _validate_chain_supply_invariant                                        *)
(***************************************************************************)
ExpectedTotalSupply == MapThenSumSet(LAMBDA a : Delta[Genesis][a], Addresses)
TotalBalance(bs) == MapThenSumSet(LAMBDA a : Balance(bs, a), Addresses)

(***************************************************************************)
(* validate_chain_blocks finds no error.                                   *)
(***************************************************************************)
DistinctBundles(bs) == \A i, j \in DOMAIN bs : bs[i].bundle = bs[j].bundle => i = j

DistinctNonces(bs) ==
    \A i, j \in DOMAIN bs : Nonce[bs[i].bundle] = Nonce[bs[j].bundle] => i = j

ParentsMatch(bs) ==
    \A i \in DOMAIN bs \ {1} :
        bs[i].height = bs[i - 1].height + 1 /\ bs[i].prev = bs[i - 1].hash

Validates(bs) ==
    bs # <<>> =>
        /\ bs[1] = GenesisBlock
        /\ ParentsMatch(bs)
        /\ DistinctBundles(bs)
        /\ DistinctNonces(bs)
        /\ \A a \in Addresses : Balance(bs, a) >= 0
        /\ TotalBalance(bs) = ExpectedTotalSupply

\* The policy that every node is built with has a genesis block that its own rules accept.
ASSUME GenesisValidates == Validates(<<GenesisBlock>>)

Idle == [pc |-> "idle"]

(***************************************************************************)
(* A node has no chain yet, or the genesis of an older version.            *)
(***************************************************************************)
Init ==
    /\ chain \in [Nodes -> {<<>>, <<StaleBlock>>}]
    /\ version = [n \in Nodes |-> 0]
    /\ index = [n \in Nodes |-> [version |-> -1, blocks |-> <<>>]]
    /\ proc = [n \in Nodes |-> [p \in Procs[n] |-> Idle]]
    /\ wire = {}
    /\ blocks = 0
    /\ crashes = 0

(***************************************************************************)
(* The process has computed the blocks that save_chain_blocks will write.  *)
(***************************************************************************)
WillSave(n, p, bs) ==
    /\ proc[n][p] = Idle
    /\ proc' = [proc EXCEPT ![n][p] = [pc |-> "save", blocks |-> bs]]
-----------------------------------------------------------------------------
(***************************************************************************)
(* ensure_chain_genesis for a missing and for a stale chain.               *)
(***************************************************************************)
IsStaleGenesisOnlyChain(bs) == bs = <<StaleBlock>>

EnsureChainGenesis(n, p) ==
    /\ chain[n] = <<>> \/ IsStaleGenesisOnlyChain(chain[n])
    /\ WillSave(n, p, <<GenesisBlock>>)
    /\ UNCHANGED <<chain, version, index, wire, blocks, crashes>>

(***************************************************************************)
(* record_chain_transaction and append_chain_block on a chain that has its *)
(* genesis block.  A known bundle, a used nonce and an invalid result are  *)
(* refused.                                                                *)
(***************************************************************************)
NewBlock(bs, b) ==
    [hash |-> blocks + 1, height |-> Tip(bs).height + 1, prev |-> Tip(bs).hash,
     bundle |-> b]

NonceIsNew(bs, b) == \A i \in DOMAIN bs : Nonce[bs[i].bundle] # Nonce[b]

\* Mutant: nonces are not checked before a block is appended.
AppendChainBlockAnyNonce(n, p, b) ==
    LET appended == Append(chain[n], NewBlock(chain[n], b)) IN
    /\ blocks < MaxBlocks
    /\ chain[n] # <<>> /\ chain[n][1] = GenesisBlock
    /\ b \notin BundlesOf(chain[n])
    /\ TotalBalance(appended) = ExpectedTotalSupply
    /\ \A a \in Addresses : Balance(appended, a) >= 0
    /\ WillSave(n, p, appended)
    /\ blocks' = blocks + 1
    /\ UNCHANGED <<chain, version, index, wire, crashes>>

\* Mutant: only the supply is checked before a block is appended.
AppendChainBlockUnchecked(n, p, b) ==
    LET appended == Append(chain[n], NewBlock(chain[n], b)) IN
    /\ blocks < MaxBlocks
    /\ chain[n] # <<>> /\ chain[n][1] = GenesisBlock
    /\ TotalBalance(appended) = ExpectedTotalSupply
    /\ WillSave(n, p, appended)
    /\ blocks' = blocks + 1
    /\ UNCHANGED <<chain, version, index, wire, crashes>>

Appendable(bs, b) ==
    /\ bs # <<>> /\ bs[1] = GenesisBlock
    /\ b \notin BundlesOf(bs)
    /\ NonceIsNew(bs, b)

AppendChainBlock(n, p, b) ==
    LET appended == Append(chain[n], NewBlock(chain[n], b)) IN
    /\ blocks < MaxBlocks
    /\ Appendable(chain[n], b)
    /\ WillSave(n, p, appended)
    /\ TotalBalance(appended) = ExpectedTotalSupply
    /\ Validates(appended)
    /\ blocks' = blocks + 1
    /\ UNCHANGED <<chain, version, index, wire, crashes>>
-----------------------------------------------------------------------------
(***************************************************************************)
(* export_chain_payload, signed by the node's wallet.                      *)
(***************************************************************************)
ExportChainPayload(n) ==
    /\ chain[n] # <<>> /\ chain[n][1] = GenesisBlock
    /\ wire' = wire \cup {[from |-> n, blocks |-> chain[n]]}
    /\ UNCHANGED <<chain, version, index, proc, blocks, crashes>>

\* Mutant: only a longer chain is adopted.
AdoptsLongerFork(local, remote, signed) ==
    /\ local # <<>> /\ remote # <<>> /\ Validates(remote)
    /\ \/ remote[1] = GenesisBlock /\ IsStaleGenesisOnlyChain(local)
       \/ /\ signed
          /\ remote[1] = local[1]
          /\ Len(remote) > Len(local)
          /\ Tip(local).hash \notin Hashes(remote)

(***************************************************************************)
(* _adopt_authoritative_remote_fork: the remote chain replaces a stale     *)
(* genesis, and, if the payload is signed by the validator, any chain      *)
(* whose tip it does not contain.                                          *)
(***************************************************************************)
AdoptsFork(local, remote, signed) ==
    /\ local # <<>> /\ remote # <<>>
    /\ \/ remote[1] = GenesisBlock /\ IsStaleGenesisOnlyChain(local)
       \/ /\ signed
          /\ remote[1] = local[1]
          /\ Tip(local).hash \notin Hashes(remote)
    /\ Validates(remote)

(***************************************************************************)
(* The loop of merge_remote_chain_payload: a block is imported if it is    *)
(* new, follows a known block at a free height, reuses no nonce and brings *)
(* a transaction.                                                          *)
(***************************************************************************)
LinksToKnownChain(bs, b) ==
    /\ \A i \in DOMAIN bs : bs[i].height # b.height
    /\ \/ b.height = 0 /\ b.prev = NoHash
       \/ b.height > 0 /\ \E i \in DOMAIN bs : bs[i].hash = b.prev /\ b.height = bs[i].height + 1

Imports(bs, b) ==
    /\ b.hash \notin Hashes(bs)
    /\ LinksToKnownChain(bs, b)
    /\ NonceIsNew(bs, b.bundle)
    /\ b.bundle \notin BundlesOf(bs)

Import(bs, b) == IF Imports(bs, b) THEN Append(bs, b) ELSE bs

ImportAll(local, remote) ==
    LET after[k \in 0 .. Len(remote)] ==
            IF k = 0 THEN local ELSE Import(after[k - 1], remote[k])
    IN after[Len(remote)]

\* Mutant: every payload counts as signed by the validator.
SignedByAnyone(m) == m.from \in Nodes

\* Mutant: the blocks that are not known are appended.
MergedAppending(local, remote, signed) ==
    local \o SelectSeq(remote, LAMBDA b : b.hash \notin Hashes(local))

(***************************************************************************)
(* What merge_remote_chain_payload saves.  It refuses blocks beyond the    *)
(* genesis block without the validator's signature, and a result that does *)
(* not validate; both leave the chain as it is.                            *)
(***************************************************************************)
Merged(local, remote, signed) ==
    LET imported == ImportAll(local, remote) IN
    IF AdoptsFork(local, remote, signed) THEN remote
    ELSE IF ~signed /\ Len(remote) > 1 THEN local
    ELSE IF Validates(imported) THEN imported
    ELSE local

Signed(m) == m.from \in Authorized

MergeRemoteChainPayload(n, p, m) ==
    LET result == Merged(chain[n], m.blocks, Signed(m)) IN
    /\ m.from # n
    /\ WillSave(n, p, result)
    /\ result # chain[n]
    /\ UNCHANGED <<chain, version, index, wire, blocks, crashes>>
-----------------------------------------------------------------------------
(***************************************************************************)
(* save_chain_blocks: the chain file is replaced ...                       *)
(***************************************************************************)
SaveChainBlocks(n, p) ==
    /\ proc[n][p].pc = "save"
    /\ version[n] < MaxWrites
    /\ chain' = [chain EXCEPT ![n] = proc[n][p].blocks]
    /\ version' = [version EXCEPT ![n] = @ + 1]
    /\ proc' = [proc EXCEPT ![n][p].pc = "build"]
    /\ UNCHANGED <<index, wire, blocks, crashes>>

(***************************************************************************)
(* ... an index of the blocks is built, stamped with the chain file as it  *)
(* is now ...                                                              *)
(***************************************************************************)
BuildChainIndexPayloads(n, p) ==
    /\ proc[n][p].pc = "build"
    /\ proc' = [proc EXCEPT ![n][p] =
            [pc |-> "write", index |-> [version |-> version[n], blocks |-> @.blocks]]]
    /\ UNCHANGED <<chain, version, index, wire, blocks, crashes>>

(***************************************************************************)
(* ... and the index file is replaced.                                     *)
(***************************************************************************)
WriteChainIndex(n, p) ==
    /\ proc[n][p].pc = "write"
    /\ index' = [index EXCEPT ![n] = proc[n][p].index]
    /\ proc' = [proc EXCEPT ![n][p] = Idle]
    /\ UNCHANGED <<chain, version, wire, blocks, crashes>>

\* Mutant: an index that exists is taken to be current.
IndexExists(n) == index[n].version >= 0

(***************************************************************************)
(* load_or_rebuild_chain_index, called by a reader of balances when the    *)
(* stamp of the index is not that of the chain file.                       *)
(***************************************************************************)
IndexMatchesCurrentChainFile(n) == index[n].version = version[n]

LoadOrRebuildChainIndex(n, p) ==
    /\ proc[n][p] = Idle
    /\ chain[n] # <<>>
    /\ ~IndexMatchesCurrentChainFile(n)
    /\ proc' = [proc EXCEPT ![n][p] = [pc |-> "build", blocks |-> chain[n]]]
    /\ UNCHANGED <<chain, version, index, wire, blocks, crashes>>

(***************************************************************************)
(* A process stops between two of its writes.                              *)
(***************************************************************************)
Crash(n, p) ==
    /\ crashes < MaxCrashes
    /\ proc[n][p] # Idle
    /\ proc' = [proc EXCEPT ![n][p] = Idle]
    /\ crashes' = crashes + 1
    /\ UNCHANGED <<chain, version, index, wire, blocks>>

Next ==
    \E n \in Nodes :
        \/ ExportChainPayload(n)
        \/ \E p \in Procs[n] :
            \/ EnsureChainGenesis(n, p)
            \/ \E b \in Bundles : AppendChainBlock(n, p, b)
            \/ \E m \in wire : MergeRemoteChainPayload(n, p, m)
            \/ SaveChainBlocks(n, p)
            \/ BuildChainIndexPayloads(n, p)
            \/ WriteChainIndex(n, p)
            \/ LoadOrRebuildChainIndex(n, p)
            \/ Crash(n, p)

Spec == Init /\ [][Next]_vars
-----------------------------------------------------------------------------
Index == [version : Int, blocks : Seq(Block)]

ProcState ==
    {Idle} \cup [pc : {"save", "build"}, blocks : Seq(Block)]
           \cup [pc : {"write"}, index : Index]

(***************************************************************************)
(* Type correctness of the files, the processes and the payloads.          *)
(***************************************************************************)
TypeOK ==
    /\ chain \in [Nodes -> Seq(Block)]
    /\ version \in [Nodes -> Nat]
    /\ index \in [Nodes -> Index]
    /\ DOMAIN proc = Nodes
    /\ \A n \in Nodes : proc[n] \in [Procs[n] -> ProcState]
    /\ wire \subseteq [from : Nodes, blocks : Seq(Block)]
    /\ blocks \in Nat
    /\ crashes \in Nat

Saved(n) == chain[n] # <<>> /\ ~IsStaleGenesisOnlyChain(chain[n])

(***************************************************************************)
(* No address was overdrawn and no coin created or destroyed at any point  *)
(* of the history in a chain file.  validate_chain_blocks only looks at    *)
(* the final balances; the history follows from how chains are built,      *)
(* merged and adopted, also by processes that overwrite each other.        *)
(***************************************************************************)
HistorySolvent ==
    \A n \in Nodes : Saved(n) =>
        \A k \in 1 .. Len(chain[n]) :
            LET past == SubSeq(chain[n], 1, k) IN
            /\ \A a \in Addresses : Balance(past, a) >= 0
            /\ TotalBalance(past) = ExpectedTotalSupply

(***************************************************************************)
(* No bundle and no nonce is ever in a chain file twice.                   *)
(***************************************************************************)
SpentOnce ==
    \A n \in Nodes : Saved(n) =>
        \A i, j \in DOMAIN chain[n] :
            i # j => /\ chain[n][i].bundle # chain[n][j].bundle
                     /\ Nonce[chain[n][i].bundle] # Nonce[chain[n][j].bundle]

(***************************************************************************)
(* Two nodes that both have a block have the same history before it.       *)
(***************************************************************************)
CommonHistory ==
    \A n, m \in Nodes : \A i \in DOMAIN chain[n], j \in DOMAIN chain[m] :
        chain[n][i].hash = chain[m][j].hash =>
            i = j /\ SubSeq(chain[n], 1, i) = SubSeq(chain[m], 1, j)

(***************************************************************************)
(* A payload of the validator brings any node to exactly the validator's   *)
(* chain of the time of the payload, by adoption or block by block,        *)
(* whatever the node had, and however old the payload is.                  *)
(***************************************************************************)
ValidatorDecides ==
    \A n \in Nodes, m \in wire :
        Signed(m) => Merged(chain[n], m.blocks, TRUE) = m.blocks

(***************************************************************************)
(* On a node with a single process, an index whose stamp matches the chain *)
(* file holds the balances of that file, also after a crash between the    *)
(* two writes.  (Of two processes, one may stamp its blocks with a file    *)
(* that the other has written since.)                                      *)
(***************************************************************************)
IndexCurrent ==
    \A n \in Nodes :
        (\A p, q \in Procs[n] : p = q) =>
            (IndexMatchesCurrentChainFile(n) => index[n].blocks = chain[n])

\* The chain longer goes on where the chain bs ends.
Continues(longer, bs) == Len(bs) <= Len(longer) /\ \A i \in DOMAIN bs : longer[i] = bs[i]

Grown == \A n \in Authorized : Saved(n) => Continues(chain'[n], chain[n])

(***************************************************************************)
(* The chain of the validator only grows.                                  *)
(***************************************************************************)
ValidatorGrows == [][Grown]_vars
=============================================================================
