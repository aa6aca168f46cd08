------------------------------ MODULE ChainProofs ------------------------------
(***************************************************************************)
(* Proofs about the chain files, for any number of nodes, processes,       *)
(* blocks, payloads and crashes.                                           *)
(*                                                                         *)
(* The argument is about the set of all chains that a file, a payload or   *)
(* the memory of a process holds (Chains): each is rooted in the genesis   *)
(* block and solvent at every point, and no two disagree about what comes  *)
(* before a block (Consistent).  A process that writes a copy which is out *)
(* of date only writes one of these chains.  What a merge computes is      *)
(* again one of them (MergedResult), because the loop over the blocks of a *)
(* payload turns a beginning of the payload's chain into all of it         *)
(* (ImportPrefix).                                                         *)
(***************************************************************************)
EXTENDS Chain, SequenceTheorems, WellFoundedInduction, TLAPS

-----------------------------------------------------------------------------
\* Every set of natural numbers that is not empty has a least element.
LEMMA LeastNatural ==
  ASSUME NEW T, T \subseteq Nat, T # {}
  PROVE  \E x \in T : \A y \in T : x <= y
<1> DEFINE R == OpToRel(<, Nat)
<1>1. IsWellFoundedOn(R, Nat)
  BY NatLessThanWellFounded, Zenon
<1>2. R = {ss \in Nat \X Nat : ss[1] < ss[2]}
  BY DEF OpToRel
<1> HIDE DEF R
<1>3. PICK x \in T : \A y \in T : ~(<<y, x>> \in R)
  BY <1>1, WFMin, Zenon
<1>4. ASSUME NEW y \in T PROVE x <= y
  <2>1. x \in Nat /\ y \in Nat
    OBVIOUS
  <2>2. SUFFICES ASSUME y < x PROVE FALSE
    BY <2>1
  <2>3. <<y, x>> \in Nat \X Nat /\ <<y, x>>[1] < <<y, x>>[2]
    BY <2>1, <2>2
  <2>4. <<y, x>> \in R
    BY <2>3, <1>2, Zenon
  <2> QED
    BY <1>3, <2>4
<1> QED
  BY <1>4

\* The loop of merge_remote_chain_payload has one outcome: whatever is the local chain before
\* the first block and obeys the loop from block to block is what the loop computes.
LEMMA ImportAllValue ==
  ASSUME NEW local, NEW remote, Len(remote) \in Nat, NEW g,
         g = [k \in 0 .. Len(remote) |-> IF k = 0 THEN local ELSE Import(g[k - 1], remote[k])]
  PROVE  ImportAll(local, remote) = g[Len(remote)]
<1> DEFINE S == 0 .. Len(remote)
           Eq(h) == h = [k \in S |-> IF k = 0 THEN local ELSE Import(h[k - 1], remote[k])]
           after == CHOOSE h : Eq(h)
<1>1. ImportAll(local, remote) = after[Len(remote)]
  BY DEF ImportAll
<1>2. Eq(after)
  <2>1. Eq(g)
    OBVIOUS
  <2> HIDE DEF Eq
  <2> QED
    BY <2>1
<1> HIDE DEF after
<1> DEFINE T == {k \in S : after[k] # g[k]}
<1>3. T = {}
  <2> SUFFICES ASSUME T # {} PROVE FALSE
    OBVIOUS
  <2>1. PICK x \in T : \A y \in T : x <= y
    <3>1. T \subseteq Nat /\ T # {}
      OBVIOUS
    <3> HIDE DEF T
    <3> QED
      BY <3>1, LeastNatural, Zenon
  <2>2. x \in S /\ after[x] # g[x]
    OBVIOUS
  <2>3. x # 0
    BY <2>2, <1>2
  <2>4. x - 1 \in S /\ ~(x <= x - 1)
    BY <2>2, <2>3
  <2>5. after[x - 1] = g[x - 1]
    BY <2>1, <2>4
  <2>6. after[x] = Import(after[x - 1], remote[x]) /\ g[x] = Import(g[x - 1], remote[x])
    BY <1>2, <2>2, <2>3
  <2> QED
    BY <2>2, <2>5, <2>6
<1>4. Len(remote) \in S
  OBVIOUS
<1> QED
  BY <1>1, <1>3, <1>4, Zenon

-----------------------------------------------------------------------------
(***************************************************************************)
(* What every chain of the system looks like.  Solvent is what             *)
(* HistorySolvent says of one moment; N is the number of blocks that have  *)
(* been created, the largest hash so far.                                  *)
(***************************************************************************)
Solvent(bs) ==
    /\ \A a \in Addresses : Balance(bs, a) >= 0
    /\ TotalBalance(bs) = ExpectedTotalSupply

Rooted(bs, N) ==
    /\ bs \in Seq(Block) /\ bs # <<>>
    /\ Validates(bs)
    /\ \A i \in DOMAIN bs : bs[i].height = i - 1 /\ bs[i].hash \in 0 .. N
    /\ \A k \in 1 .. Len(bs) : Solvent(SubSeq(bs, 1, k))

\* Two chains with a block in common have it at the same place and are the same up to it.
Agree(c, d) ==
    \A i \in DOMAIN c, j \in DOMAIN d :
        c[i].hash = d[j].hash => i = j /\ \A k \in 1 .. i : c[k] = d[k]

\* A chain as far as the loop of merge_remote_chain_payload looks at it.
Linked(bs) ==
    /\ bs \in Seq(Block)
    /\ \A i \in DOMAIN bs :
        /\ bs[i].height = i - 1
        /\ IF i = 1 THEN bs[i].prev = NoHash ELSE bs[i].prev = bs[i - 1].hash
    /\ \A i, j \in DOMAIN bs : i # j =>
        /\ bs[i].hash # bs[j].hash
        /\ bs[i].bundle # bs[j].bundle
        /\ Nonce[bs[i].bundle] # Nonce[bs[j].bundle]

LEMMA RootedIsLinked ==
  ASSUME NEW bs, NEW N, Rooted(bs, N), Agree(bs, bs)
  PROVE  Linked(bs)
<1>1. bs \in Seq(Block) /\ Validates(bs) /\ bs # <<>>
  BY DEF Rooted
<1>2. bs[1] = GenesisBlock /\ ParentsMatch(bs) /\ DistinctBundles(bs) /\ DistinctNonces(bs)
  BY <1>1 DEF Validates
<1>3. \A i \in DOMAIN bs : bs[i].height = i - 1
  BY DEF Rooted
<1>4. ASSUME NEW i \in DOMAIN bs
      PROVE  IF i = 1 THEN bs[i].prev = NoHash ELSE bs[i].prev = bs[i - 1].hash
  BY <1>2 DEF GenesisBlock, ParentsMatch
<1>5. \A i, j \in DOMAIN bs : i # j => bs[i].hash # bs[j].hash
  BY DEF Agree
<1>6. \A i, j \in DOMAIN bs : i # j => bs[i].bundle # bs[j].bundle
  BY <1>2 DEF DistinctBundles
<1>7. \A i, j \in DOMAIN bs : i # j => Nonce[bs[i].bundle] # Nonce[bs[j].bundle]
  BY <1>2 DEF DistinctNonces
<1> QED
  BY <1>1, <1>3, <1>4, <1>5, <1>6, <1>7, SMTT(30) DEF Linked

\* The loop imports the next block of a linked chain of which it has everything before.
LEMMA ImportNext ==
  ASSUME NEW bs, Linked(bs), NEW k \in 1 .. Len(bs)
  PROVE  Import(SubSeq(bs, 1, k - 1), bs[k]) = SubSeq(bs, 1, k)
<1> DEFINE past == SubSeq(bs, 1, k - 1)
<1>1. bs \in Seq(Block) /\ k \in DOMAIN bs /\ k \in Nat
  BY DEF Linked
<1>2. past \in Seq(Block) /\ Len(past) = k - 1 /\ \A i \in 1 .. k - 1 : past[i] = bs[i]
  BY <1>1, SubSeqProperties
<1>3. DOMAIN past = 1 .. k - 1
  BY <1>2
<1>4. Append(past, bs[k]) = SubSeq(bs, 1, k)
  <2>1. /\ SubSeq(bs, 1, k) \in Seq(Block) /\ Len(SubSeq(bs, 1, k)) = k
        /\ \A i \in 1 .. k : SubSeq(bs, 1, k)[i] = bs[i]
    BY <1>1, SubSeqProperties
  <2> HIDE DEF past
  <2>2. /\ Append(past, bs[k]) \in Seq(Block) /\ Len(Append(past, bs[k])) = k
        /\ \A i \in 1 .. k : Append(past, bs[k])[i] = bs[i]
    BY <1>1, <1>2, AppendProperties
  <2> QED
    BY <2>1, <2>2, SeqEqual
<1> HIDE DEF past
<1>5. \A i \in DOMAIN past : i \in DOMAIN bs /\ i # k /\ past[i] = bs[i]
  BY <1>1, <1>2, <1>3
<1>6. bs[k].hash \notin Hashes(past)
  BY <1>1, <1>5 DEF Linked, Hashes
<1>7. NonceIsNew(past, bs[k].bundle)
  BY <1>1, <1>5 DEF Linked, NonceIsNew
<1>8. bs[k].bundle \notin BundlesOf(past)
  BY <1>1, <1>5 DEF Linked, BundlesOf
<1>9. LinksToKnownChain(past, bs[k])
  <2>1. \A i \in DOMAIN past : past[i].height # bs[k].height
    BY <1>1, <1>3, <1>5 DEF Linked
  <2>2. CASE k = 1
    BY <2>1, <2>2, <1>1 DEF Linked, LinksToKnownChain
  <2>3. CASE k # 1
    <3>1. k - 1 \in DOMAIN past /\ past[k - 1] = bs[k - 1] /\ k - 1 \in DOMAIN bs
      BY <1>1, <1>2, <1>3, <2>3
    <3>2. past[k - 1].hash = bs[k].prev /\ bs[k].height = past[k - 1].height + 1 /\ bs[k].height > 0
      BY <3>1, <1>1, <2>3 DEF Linked
    <3> QED
      BY <2>1, <3>1, <3>2 DEF LinksToKnownChain
  <2> QED
    BY <2>2, <2>3
<1>10. Import(past, bs[k]) = SubSeq(bs, 1, k)
  BY <1>4, <1>6, <1>7, <1>8, <1>9, SMTT(30) DEF Import, Imports
<1> QED
  BY <1>10 DEF past

\* The loop turns every part of a linked chain that starts at its first block into all of it.
LEMMA ImportPrefix ==
  ASSUME NEW local \in Seq(Block), NEW remote, Linked(remote), Len(local) <= Len(remote),
         \A i \in 1 .. Len(local) : local[i] = remote[i]
  PROVE  ImportAll(local, remote) = remote
<1> DEFINE L == Len(local)
           g == [k \in 0 .. Len(remote) |-> IF k <= L THEN local ELSE SubSeq(remote, 1, k)]
<1>1. remote \in Seq(Block) /\ Len(remote) \in Nat /\ L \in Nat
  BY DEF Linked
<1>2. local = SubSeq(remote, 1, L)
  <2>1. /\ SubSeq(remote, 1, L) \in Seq(Block) /\ Len(SubSeq(remote, 1, L)) = L
        /\ \A i \in 1 .. L : SubSeq(remote, 1, L)[i] = remote[i]
    BY <1>1, SubSeqProperties
  <2> QED
    BY <2>1, SeqEqual
<1>3. ASSUME NEW k \in 0 .. Len(remote)
      PROVE  g[k] = IF k = 0 THEN local ELSE Import(g[k - 1], remote[k])
  <2>1. CASE k = 0
    BY <2>1, <1>1
  <2>2. CASE k # 0 /\ k <= L
    <3>1. g[k] = local /\ g[k - 1] = local
      BY <2>2, <1>1
    <3>2. k \in DOMAIN local /\ local[k] = remote[k]
      BY <2>2, <1>1
    <3>3. Import(local, remote[k]) = local
      BY <3>2 DEF Import, Imports, Hashes
    <3> QED
      BY <3>1, <3>3, <2>2
  <2>3. CASE k > L
    <3>1. g[k] = SubSeq(remote, 1, k) /\ k # 0
      BY <2>3, <1>1
    <3>2. g[k - 1] = SubSeq(remote, 1, k - 1)
      <4>1. CASE k - 1 = L
        BY <4>1, <1>1, <1>2, SMTT(30)
      <4>2. CASE k - 1 > L
        BY <4>2, <1>1
      <4> QED
        BY <4>1, <4>2, <2>3, <1>1
    <3>3. Import(SubSeq(remote, 1, k - 1), remote[k]) = SubSeq(remote, 1, k)
      BY <3>1, <1>1, ImportNext
    <3> QED
      BY <3>1, <3>2, <3>3, ZenonT(30)
  <2> QED
    BY <2>1, <2>2, <2>3, <1>1
<1>4. g[Len(remote)] = remote
  <2>1. SubSeq(remote, 1, Len(remote)) = remote
    BY <1>1, SubSeqFull
  <2> QED
    BY <2>1, <1>1, <1>2
<1>5. g = [k \in 0 .. Len(remote) |-> IF k = 0 THEN local ELSE Import(g[k - 1], remote[k])]
  BY <1>3, SMTT(30)
<1> HIDE DEF g
<1> QED
  BY <1>1, <1>4, <1>5, ImportAllValue, SMTT(30)

-----------------------------------------------------------------------------
(***************************************************************************)
(* A chain file is missing, holds the genesis of an older policy or is     *)
(* rooted in the genesis of the active one.                                *)
(***************************************************************************)
Good(bs, N) == bs = <<>> \/ bs = <<StaleBlock>> \/ Rooted(bs, N)

LEMMA RootedFacts ==
  ASSUME NEW bs, NEW N, Rooted(bs, N)
  PROVE  /\ bs \in Seq(Block) /\ Len(bs) \in Nat /\ Len(bs) >= 1 /\ DOMAIN bs = 1 .. Len(bs)
         /\ bs # <<>> /\ bs[1] = GenesisBlock /\ bs # <<StaleBlock>>
<1>1. bs \in Seq(Block) /\ bs # <<>> /\ bs[1] = GenesisBlock
  BY DEF Rooted, Validates
<1>2. bs # <<StaleBlock>>
  BY <1>1 DEF GenesisBlock, StaleBlock
<1> QED
  BY <1>1, <1>2

\* What merge_remote_chain_payload makes of a payload, whatever the chain it is merged into:
\* with the signature of the validator the payload's chain, without it at most that.
LEMMA MergedResult ==
  ASSUME NEW local \in Seq(Block), NEW remote, NEW N, NEW signed \in BOOLEAN,
         Good(local, N), Rooted(remote, N), Agree(local, remote), Agree(remote, remote)
  PROVE  /\ signed => Merged(local, remote, signed) = remote
         /\ ~signed /\ Rooted(local, N) => Merged(local, remote, signed) = local
         /\ Merged(local, remote, signed) \in {local, remote}
<1> DEFINE imported == ImportAll(local, remote)
<1>1. /\ remote \in Seq(Block) /\ Len(remote) \in Nat /\ Len(remote) >= 1
      /\ remote # <<>> /\ remote[1] = GenesisBlock /\ DOMAIN remote = 1 .. Len(remote)
  BY RootedFacts
<1>2. Linked(remote) /\ Validates(remote)
  BY RootedIsLinked, Zenon DEF Rooted
<1>3. Merged(local, remote, signed) =
        IF AdoptsFork(local, remote, signed) THEN remote
        ELSE IF ~signed /\ Len(remote) > 1 THEN local
        ELSE IF Validates(imported) THEN imported
        ELSE local
  BY DEF Merged
<1>4. CASE local = <<>>
  <2>1. imported = remote
    <3>1. Len(local) = 0 /\ Len(local) <= Len(remote)
      BY <1>1, <1>4
    <3>2. \A i \in 1 .. Len(local) : local[i] = remote[i]
      BY <3>1
    <3> QED
      BY <1>2, <3>1, <3>2, ImportPrefix, Zenon
  <2>2. ~Rooted(local, N)
    BY <1>4, RootedFacts
  <2> HIDE DEF imported
  <2> QED
    BY <1>2, <1>3, <2>1, <2>2
<1>5. CASE local = <<StaleBlock>>
  <2>1. AdoptsFork(local, remote, signed)
    BY <1>1, <1>2, <1>5 DEF AdoptsFork, IsStaleGenesisOnlyChain
  <2>2. ~Rooted(local, N)
    BY <1>5, RootedFacts
  <2> QED
    BY <1>3, <2>1, <2>2
<1>6. CASE Rooted(local, N)
  <2>1. /\ Len(local) \in Nat /\ Len(local) >= 1
        /\ local # <<>> /\ local[1] = GenesisBlock /\ DOMAIN local = 1 .. Len(local)
        /\ local # <<StaleBlock>>
    BY <1>6, RootedFacts
  <2>2. CASE signed /\ Tip(local).hash \notin Hashes(remote)
    <3>1. AdoptsFork(local, remote, signed)
      BY <1>1, <1>2, <2>1, <2>2, SMTT(30) DEF AdoptsFork
    <3> QED
      BY <1>3, <2>2, <3>1
  <2>3. CASE signed /\ Tip(local).hash \in Hashes(remote)
    <3>1. PICK j \in DOMAIN remote : remote[j].hash = local[Len(local)].hash
      BY <2>3 DEF Tip, Hashes
    <3>2. j = Len(local) /\ \A i \in 1 .. Len(local) : local[i] = remote[i]
      BY <3>1, <2>1 DEF Agree
    <3>3. imported = remote
      BY <3>2, <1>1, <1>2, ImportPrefix
    <3> HIDE DEF imported
    <3> QED
      BY <1>2, <1>3, <2>3, <3>3, SMTT(30)
  <2>4. CASE ~signed
    <3>1. ~AdoptsFork(local, remote, signed)
      BY <2>1, <2>4 DEF AdoptsFork, IsStaleGenesisOnlyChain
    <3>2. CASE Len(remote) > 1
      BY <1>3, <2>4, <3>1, <3>2, SMTT(30)
    <3>3. CASE Len(remote) = 1
      <4> DEFINE g == [k \in 0 .. Len(remote) |-> local]
      <4>1. Import(local, remote[1]) = local
        <5>1. 1 \in DOMAIN local /\ local[1] = remote[1]
          BY <1>1, <2>1
        <5>2. remote[1].hash \in Hashes(local)
          BY <5>1 DEF Hashes
        <5> QED
          BY <5>2 DEF Import, Imports
      <4>2. g = [k \in 0 .. Len(remote) |-> IF k = 0 THEN local ELSE Import(g[k - 1], remote[k])]
        BY <3>3, <4>1
      <4>3. g[Len(remote)] = local
        BY <3>3
      <4> HIDE DEF g
      <4>4. imported = local
        BY <1>1, <4>2, <4>3, ImportAllValue, SMTT(30)
      <4> HIDE DEF imported
      <4> QED
        BY <1>3, <2>4, <3>1, <3>3, <4>4, SMTT(30)
    <3> QED
      BY <3>2, <3>3, <1>1, SMTT(30)
  <2> QED
    BY <2>2, <2>3, <2>4, SMTT(30)
<1> QED
  BY <1>4, <1>5, <1>6, SMTT(30) DEF Good

-----------------------------------------------------------------------------
(***************************************************************************)
(* A set of chains, of files, payloads and processes, in which no two      *)
(* disagree about what is before a block.                                  *)
(***************************************************************************)
Consistent(C, N) ==
    /\ \A c \in C : Good(c, N)
    /\ \A c, d \in C : Agree(c, d)

LEMMA GoodIsMonotone ==
  ASSUME NEW N \in Nat, NEW M \in Nat, N <= M, NEW bs, Good(bs, N)
  PROVE  Good(bs, M)
<1>1. ASSUME Rooted(bs, N) PROVE Rooted(bs, M)
  <2>1. \A i \in DOMAIN bs : bs[i].height = i - 1 /\ bs[i].hash \in 0 .. M
    BY <1>1 DEF Rooted
  <2> QED
    BY <1>1, <2>1 DEF Rooted
<1> QED
  BY <1>1 DEF Good

\* One more chain that agrees with itself and the others.
LEMMA OneMoreChain ==
  ASSUME NEW C, NEW N \in Nat, NEW M \in Nat, N <= M, Consistent(C, N),
         NEW bs, Good(bs, M), Agree(bs, bs), \A d \in C : Agree(bs, d)
  PROVE  Consistent(C \cup {bs}, M)
<1>1. \A c \in C \cup {bs} : Good(c, M)
  BY GoodIsMonotone DEF Consistent
<1>2. ASSUME NEW d \in C PROVE Agree(d, bs)
  <2>1. Agree(bs, d)
    OBVIOUS
  <2> QED
    BY <2>1 DEF Agree
<1>3. \A c, d \in C : Agree(c, d)
  BY DEF Consistent
<1>4. \A c, d \in C \cup {bs} : Agree(c, d)
  BY <1>2, <1>3
<1> QED
  BY <1>1, <1>4 DEF Consistent

\* The genesis block of the active policy, alone.
LEMMA GenesisJoins ==
  ASSUME NEW C, NEW N \in Nat, Consistent(C, N)
  PROVE  Consistent(C \cup {<<GenesisBlock>>}, N) /\ Rooted(<<GenesisBlock>>, N)
<1> DEFINE bs == <<GenesisBlock>>
<1>1. GenesisBlock \in Block
  BY DEF GenesisBlock, Block, AllBundles, NoHash
<1>2. bs \in Seq(Block) /\ Len(bs) = 1 /\ bs[1] = GenesisBlock /\ DOMAIN bs = {1} /\ bs # <<>>
  BY <1>1
<1>3. Rooted(bs, N)
  <2>1. Validates(bs)
    BY GenesisValidates
  <2>2. \A i \in DOMAIN bs : bs[i].height = i - 1 /\ bs[i].hash \in 0 .. N
    BY <1>2 DEF GenesisBlock
  <2>3. SubSeq(bs, 1, 1) = bs
    BY <1>2, SubSeqFull, Zenon
  <2>4. Solvent(bs)
    BY <1>2, <2>1 DEF Solvent, Validates
  <2> HIDE DEF bs
  <2>5. ASSUME NEW k \in 1 .. Len(bs) PROVE Solvent(SubSeq(bs, 1, k))
    <3>1. k = 1
      BY <1>2
    <3> QED
      BY <2>3, <2>4, <3>1, Zenon
  <2> QED
    BY <1>2, <2>1, <2>2, <2>5, SMTT(30) DEF Rooted
<1> HIDE DEF bs
<1>4. Agree(bs, bs)
  BY <1>2 DEF Agree
<1>5. ASSUME NEW d \in C PROVE Agree(bs, d)
  <2>1. Good(d, N) /\ Agree(d, d)
    BY DEF Consistent
  <2>2. CASE d = <<>>
    BY <2>2 DEF Agree
  <2>3. CASE d = <<StaleBlock>>
    BY <2>3, <1>2 DEF Agree, GenesisBlock, StaleBlock
  <2>4. CASE Rooted(d, N)
    <3>1. 1 \in DOMAIN d /\ d[1] = GenesisBlock
      BY <2>4, RootedFacts
    <3>2. ASSUME NEW i \in DOMAIN bs, NEW j \in DOMAIN d, bs[i].hash = d[j].hash
          PROVE  i = j /\ \A k \in 1 .. i : bs[k] = d[k]
      <4>1. i = 1 /\ bs[i] = d[1]
        BY <1>2, <3>1
      <4>2. j = 1
        BY <2>1, <3>1, <3>2, <4>1, SMTT(30) DEF Agree
      <4> QED
        BY <1>2, <3>1, <4>1, <4>2, SMTT(30)
    <3> QED
      BY <3>2 DEF Agree
  <2> QED
    BY <2>1, <2>2, <2>3, <2>4, SMTT(30) DEF Good
<1>6. Good(bs, N)
  BY <1>3 DEF Good
<1>7. Consistent(C \cup {bs}, N)
  BY <1>4, <1>5, <1>6, OneMoreChain
<1> QED
  BY <1>3, <1>7 DEF bs

\* A rooted chain with a block appended that was created now.
LEMMA AppendedJoins ==
  ASSUME NEW C, NEW N \in Nat, Consistent(C, N), NEW bs \in C, Rooted(bs, N),
         NEW new \in Block, new.hash = N + 1, new.height = Tip(bs).height + 1,
         Validates(Append(bs, new))
  PROVE  Consistent(C \cup {Append(bs, new)}, N + 1)
<1> DEFINE longer == Append(bs, new)
           L == Len(bs)
<1>1. /\ bs \in Seq(Block) /\ L \in Nat /\ L >= 1 /\ DOMAIN bs = 1 .. L
      /\ \A i \in 1 .. L : bs[i].height = i - 1 /\ bs[i].hash \in 0 .. N
      /\ \A k \in 1 .. L : Solvent(SubSeq(bs, 1, k))
  BY RootedFacts DEF Rooted
<1>2. /\ longer \in Seq(Block) /\ longer # <<>> /\ Len(longer) = L + 1
      /\ DOMAIN longer = 1 .. L + 1
      /\ longer[L + 1] = new /\ \A i \in 1 .. L : longer[i] = bs[i]
  BY <1>1, AppendProperties
<1>3. Validates(longer)
  OBVIOUS
<1> HIDE DEF longer
<1>4. Rooted(longer, N + 1)
  <2>1. ASSUME NEW i \in DOMAIN longer
        PROVE  longer[i].height = i - 1 /\ longer[i].hash \in 0 .. N + 1
    <3>1. CASE i = L + 1
      BY <3>1, <1>1, <1>2, SMTT(30) DEF Tip
    <3>2. CASE i \in 1 .. L
      BY <3>2, <1>1, <1>2, SMTT(30)
    <3> QED
      BY <3>1, <3>2, <1>1, <1>2, SMTT(30)
  <2>2. ASSUME NEW k \in 1 .. Len(longer)
        PROVE  Solvent(SubSeq(longer, 1, k))
    <3>1. CASE k = L + 1
      <4>1. SubSeq(longer, 1, k) = longer
        BY <3>1, <1>2, SubSeqFull
      <4>2. Solvent(longer)
        BY <1>2, <1>3 DEF Validates, Solvent
      <4> QED
        BY <4>1, <4>2, Zenon
    <3>2. CASE k \in 1 .. L
      <4>1. /\ SubSeq(longer, 1, k) \in Seq(Block) /\ Len(SubSeq(longer, 1, k)) = k
            /\ \A i \in 1 .. k : SubSeq(longer, 1, k)[i] = longer[i]
        BY <3>2, <1>1, <1>2, SubSeqProperties
      <4>2. /\ SubSeq(bs, 1, k) \in Seq(Block) /\ Len(SubSeq(bs, 1, k)) = k
            /\ \A i \in 1 .. k : SubSeq(bs, 1, k)[i] = bs[i]
        BY <3>2, <1>1, SubSeqProperties, SMTT(30)
      <4>3. \A i \in 1 .. k : longer[i] = bs[i]
        BY <3>2, <1>1, <1>2, SMTT(30)
      <4>4. SubSeq(longer, 1, k) = SubSeq(bs, 1, k)
        BY <4>1, <4>2, <4>3, SeqEqual, SMTT(30)
      <4> QED
        BY <3>2, <4>4, <1>1, Zenon
    <3> QED
      BY <3>1, <3>2, <1>1, <1>2
  <2> QED
    BY <1>2, <1>3, <2>1, <2>2, SMTT(30) DEF Rooted
<1>5. ASSUME NEW d \in C PROVE Agree(longer, d)
  <2>1. Good(d, N) /\ Agree(bs, d)
    BY DEF Consistent
  <2>2. \A j \in DOMAIN d : d[j].hash # N + 1
    BY <2>1 DEF Good, Rooted, StaleBlock
  <2>3. ASSUME NEW i \in DOMAIN longer, NEW j \in DOMAIN d, longer[i].hash = d[j].hash
        PROVE  i = j /\ \A k \in 1 .. i : longer[k] = d[k]
    <3>1. i \in 1 .. L
      BY <2>2, <2>3, <1>1, <1>2, SMTT(30)
    <3>2. i = j /\ \A k \in 1 .. i : bs[k] = d[k]
      BY <3>1, <2>1, <2>3, <1>1, <1>2, Zenon DEF Agree
    <3>3. \A k \in 1 .. i : longer[k] = bs[k]
      BY <3>1, <1>1, <1>2, SMTT(30)
    <3> QED
      BY <3>2, <3>3, SMTT(30)
  <2> QED
    BY <2>3 DEF Agree
<1>6. Agree(longer, longer)
  <2>1. Agree(bs, bs)
    BY DEF Consistent
  <2>2. ASSUME NEW i \in DOMAIN longer, NEW j \in DOMAIN longer, longer[i].hash = longer[j].hash
        PROVE  i = j
    <3>1. CASE i = L + 1 \/ j = L + 1
      BY <3>1, <2>2, <1>1, <1>2, SMTT(30)
    <3>2. CASE i \in 1 .. L /\ j \in 1 .. L
      BY <3>2, <2>1, <2>2, <1>1, <1>2, SMTT(30) DEF Agree
    <3> QED
      BY <3>1, <3>2, <1>1, <1>2, SMTT(30)
  <2> QED
    BY <2>2 DEF Agree
<1>7. Good(longer, N + 1)
  BY <1>4 DEF Good
<1>8. Consistent(C \cup {longer}, N + 1)
  BY <1>5, <1>6, <1>7, OneMoreChain
<1> QED
  BY <1>8 DEF longer
-----------------------------------------------------------------------------
(***************************************************************************)
(* The inductive invariant: the chains of the files, of the payloads and   *)
(* of the processes that are about to write or to index them agree with    *)
(* each other.  A stale copy in the hands of a process, or an old payload, *)
(* is one of these chains, so to write it cannot make two files disagree.  *)
(***************************************************************************)
Held(ps) == UNION {{ps[n][p].blocks : p \in {q \in Procs[n] : ps[n][q].pc \in {"save", "build"}}} : n \in Nodes}
Chains == {chain[n] : n \in Nodes} \cup {m.blocks : m \in wire} \cup Held(proc)

IInv ==
    /\ TypeOK
    /\ Consistent(Chains, blocks)
    /\ \A m \in wire : Rooted(m.blocks, blocks)

LEMMA InitIInv == Init => IInv
<1> SUFFICES ASSUME Init PROVE IInv
  OBVIOUS
<1>1. StaleBlock \in Block
  BY DEF StaleBlock, Block, AllBundles, NoHash
<1>2. \A n \in Nodes : chain[n] = <<>> \/ chain[n] = <<StaleBlock>>
  BY DEF Init
<1>3. \A n \in Nodes : \A p \in Procs[n] : proc[n][p] = Idle
  BY DEF Init
<1>4. TypeOK
  <2>1. chain \in [Nodes -> Seq(Block)]
    <3>1. {<<>>, <<StaleBlock>>} \subseteq Seq(Block)
      BY <1>1
    <3> QED
      BY <3>1, Zenon DEF Init
  <2>2. version \in [Nodes -> Nat] /\ index \in [Nodes -> Index]
    BY DEF Init, Index
  <2>3. DOMAIN proc = Nodes /\ \A n \in Nodes : proc[n] \in [Procs[n] -> ProcState]
    BY DEF Init, ProcState
  <2> QED
    BY <2>1, <2>2, <2>3 DEF Init, TypeOK
<1>5. ASSUME NEW c \in Chains PROVE c = <<>> \/ c = <<StaleBlock>>
  <2>1. wire = {} /\ \A n \in Nodes : {q \in Procs[n] : proc[n][q].pc \in {"save", "build"}} = {}
    BY <1>3 DEF Init, Idle
  <2> QED
    BY <1>2, <2>1, Zenon DEF Chains, Held
<1>6. Consistent(Chains, blocks)
  BY <1>5 DEF Consistent, Good, Agree
<1>7. wire = {}
  BY DEF Init
<1> QED
  BY <1>4, <1>6, <1>7 DEF IInv

\* A step of process p of node n changes the state of no other process.
LEMMA ProcUpdate ==
  ASSUME TypeOK, NEW n \in Nodes, NEW p \in Procs[n], NEW v \in ProcState,
         proc' = [proc EXCEPT ![n][p] = v]
  PROVE  /\ DOMAIN proc' = Nodes
         /\ \A k \in Nodes : proc'[k] \in [Procs[k] -> ProcState]
         /\ proc'[n][p] = v
         /\ \A k \in Nodes : \A q \in Procs[k] : (k = n /\ q = p) \/ proc'[k][q] = proc[k][q]
  BY DEF TypeOK

LEMMA ChainsHas ==
  ASSUME NEW n \in Nodes
  PROVE  /\ chain[n] \in Chains
         /\ \A m \in wire : m.blocks \in Chains
         /\ \A p \in Procs[n] : proc[n][p].pc \in {"save", "build"} => proc[n][p].blocks \in Chains
  BY DEF Chains, Held

\* The chains after a step of process p of node n are among those of D, if D has the chains
\* before, the new chains of the files and payloads and what the process now holds.
LEMMA ChainsStep ==
  ASSUME TypeOK, NEW n \in Nodes, NEW p \in Procs[n], NEW v \in ProcState,
         proc' = [proc EXCEPT ![n][p] = v], NEW D, Chains \subseteq D,
         \A k \in Nodes : chain'[k] \in D, \A m \in wire' : m.blocks \in D,
         v.pc \in {"save", "build"} => v.blocks \in D
  PROVE  Chains' \subseteq D
<1>0. /\ proc'[n][p] = v
      /\ \A k \in Nodes : \A q \in Procs[k] : (k = n /\ q = p) \/ proc'[k][q] = proc[k][q]
  BY DEF TypeOK
<1> SUFFICES ASSUME NEW c \in Chains' PROVE c \in D
  OBVIOUS
<1>1. CASE c \in {chain'[k] : k \in Nodes} \/ c \in {m.blocks : m \in wire'}
  BY <1>1
<1>2. CASE \E k \in Nodes : \E q \in Procs[k] :
            proc'[k][q].pc \in {"save", "build"} /\ c = proc'[k][q].blocks
  <2>0. PICK k \in Nodes : \E q \in Procs[k] :
            proc'[k][q].pc \in {"save", "build"} /\ c = proc'[k][q].blocks
    BY <1>2
  <2>1. PICK q \in Procs[k] :
            proc'[k][q].pc \in {"save", "build"} /\ c = proc'[k][q].blocks
    BY <2>0, SMTT(30)
  <2>2. CASE k = n /\ q = p
    BY <1>0, <2>1, <2>2, Zenon
  <2>3. CASE ~(k = n /\ q = p)
    <3>1. proc'[k][q] = proc[k][q]
      BY <1>0, <2>0, <2>1, <2>3, Zenon
    <3>2. proc[k][q].pc \in {"save", "build"} /\ c = proc[k][q].blocks
      BY <2>1, <3>1, Zenon
    <3>3. c \in Chains
      BY <2>1, <3>2, ChainsHas, Zenon
    <3> QED
      BY <3>3, Zenon
  <2> QED
    BY <2>2, <2>3, Zenon
<1> QED
  BY <1>1, <1>2 DEF Chains, Held

LEMMA Subset ==
  ASSUME NEW C, NEW D, NEW N, Consistent(D, N), C \subseteq D
  PROVE  Consistent(C, N)
  BY DEF Consistent

\* What a process is about to do, as far as its type is concerned.
LEMMA ProcStates ==
  /\ Idle \in ProcState /\ Idle.pc = "idle"
  /\ \A bs \in Seq(Block) : [pc |-> "save", blocks |-> bs] \in ProcState
  /\ \A bs \in Seq(Block) : [pc |-> "build", blocks |-> bs] \in ProcState
  /\ \A ix \in Index : [pc |-> "write", index |-> ix] \in ProcState
  /\ \A v \in ProcState : v.pc \in {"save", "build"} => v = [pc |-> v.pc, blocks |-> v.blocks] /\ v.blocks \in Seq(Block)
  /\ \A v \in ProcState : v.pc = "write" => v.index \in Index
  BY DEF ProcState, Idle

\* A process that will save a chain is the only thing that changes: it is enough that the
\* chain joins the others.
LEMMA WillSaveKeeps ==
  ASSUME IInv, NEW n \in Nodes, NEW p \in Procs[n], NEW bs \in Seq(Block), WillSave(n, p, bs),
         UNCHANGED <<chain, version, index, wire, crashes>>,
         blocks' \in Nat, blocks <= blocks', Consistent(Chains \cup {bs}, blocks')
  PROVE  IInv'
<1> DEFINE v == [pc |-> "save", blocks |-> bs]
<1>1. TypeOK /\ \A m \in wire : Rooted(m.blocks, blocks)
  BY DEF IInv
<1>2. v \in ProcState /\ v.pc = "save" /\ v.blocks = bs /\ proc' = [proc EXCEPT ![n][p] = v]
  BY ProcStates, SMTT(30) DEF WillSave
<1> HIDE DEF v
<1>3. TypeOK'
  <2>1. DOMAIN proc' = Nodes /\ \A k \in Nodes : proc'[k] \in [Procs[k] -> ProcState]
    BY <1>1, <1>2, ProcUpdate, Zenon
  <2> QED
    BY <1>1, <2>1, Zenon DEF TypeOK
<1>4. Chains' \subseteq Chains \cup {bs}
  <2>1. \A k \in Nodes : chain'[k] \in Chains \cup {bs}
    BY ChainsHas, Zenon
  <2>2. \A m \in wire' : m.blocks \in Chains \cup {bs}
    BY ChainsHas
  <2> QED
    BY <1>1, <1>2, <2>1, <2>2, ChainsStep, ZenonT(30)
<1>5. Consistent(Chains', blocks')
  BY <1>4, Subset, SMTT(30)
<1>6. ASSUME NEW m \in wire' PROVE Rooted(m.blocks, blocks')
  <2>1. Rooted(m.blocks, blocks) /\ blocks \in Nat
    BY <1>1 DEF TypeOK
  <2>2. Good(m.blocks, blocks')
    BY <2>1, GoodIsMonotone, SMTT(30) DEF Good
  <2> QED
    BY <2>1, <2>2, RootedFacts, Zenon DEF Good
<1> QED
  BY <1>3, <1>5, <1>6, SMTT(30) DEF IInv

LEMMA EnsureChainGenesisKeeps ==
  ASSUME IInv, NEW n \in Nodes, NEW p \in Procs[n], EnsureChainGenesis(n, p)
  PROVE  IInv'
<1>1. Consistent(Chains, blocks) /\ blocks \in Nat
  BY Zenon DEF IInv, TypeOK
<1>2. Consistent(Chains \cup {<<GenesisBlock>>}, blocks) /\ Rooted(<<GenesisBlock>>, blocks)
  BY <1>1, GenesisJoins
<1>3. <<GenesisBlock>> \in Seq(Block)
  BY <1>2, RootedFacts
<1>4. /\ WillSave(n, p, <<GenesisBlock>>) /\ blocks' = blocks
      /\ UNCHANGED <<chain, version, index, wire, crashes>>
  BY DEF EnsureChainGenesis
<1>5. /\ Consistent(Chains \cup {<<GenesisBlock>>}, blocks')
      /\ blocks' \in Nat /\ blocks <= blocks'
  BY <1>1, <1>2, <1>4, SMTT(30)
<1> QED
  BY <1>3, <1>4, <1>5, WillSaveKeeps, ZenonT(30)

LEMMA AppendChainBlockKeeps ==
  ASSUME IInv, NEW n \in Nodes, NEW p \in Procs[n], NEW b \in Bundles, AppendChainBlock(n, p, b)
  PROVE  IInv'
<1> DEFINE bs == chain[n]
           new == NewBlock(bs, b)
<1>1. Consistent(Chains, blocks) /\ blocks \in Nat /\ bs \in Chains
  BY ChainsHas, Zenon DEF IInv, TypeOK
<1>2. /\ bs # <<>> /\ bs[1] = GenesisBlock /\ Validates(Append(bs, new))
      /\ WillSave(n, p, Append(bs, new)) /\ blocks' = blocks + 1
      /\ UNCHANGED <<chain, version, index, wire, crashes>>
  BY DEF AppendChainBlock, Appendable
<1> HIDE DEF bs
<1>3. Rooted(bs, blocks)
  BY <1>1, <1>2, SMTT(30) DEF Consistent, Good, GenesisBlock, StaleBlock
<1>4. /\ bs \in Seq(Block) /\ Tip(bs) \in Block
  BY <1>3, RootedFacts, SMTT(30) DEF Tip
<1>5. new \in Block /\ new.hash = blocks + 1 /\ new.height = Tip(bs).height + 1
  BY <1>1, <1>4, SMTT(30) DEF NewBlock, Block, AllBundles
<1> HIDE DEF new
<1>6. Consistent(Chains \cup {Append(bs, new)}, blocks + 1)
  BY <1>1, <1>2, <1>3, <1>5, AppendedJoins, SMTT(30)
<1>7. Append(bs, new) \in Seq(Block)
  BY <1>4, <1>5, SMTT(30)
<1>8. Consistent(Chains \cup {Append(bs, new)}, blocks') /\ blocks' \in Nat /\ blocks <= blocks'
  BY <1>1, <1>2, <1>6, SMTT(30)
<1> QED
  BY <1>2, <1>7, <1>8, WillSaveKeeps, Zenon

LEMMA MergeRemoteChainPayloadKeeps ==
  ASSUME IInv, NEW n \in Nodes, NEW p \in Procs[n], NEW m \in wire,
         MergeRemoteChainPayload(n, p, m)
  PROVE  IInv'
<1> DEFINE result == Merged(chain[n], m.blocks, Signed(m))
<1>1. Consistent(Chains, blocks) /\ blocks \in Nat /\ chain[n] \in Chains /\ m.blocks \in Chains
  BY ChainsHas, Zenon DEF IInv, TypeOK
<1>2. chain[n] \in Seq(Block) /\ m.blocks \in Seq(Block) /\ Rooted(m.blocks, blocks)
  BY Zenon DEF IInv, TypeOK
<1>3. /\ Good(chain[n], blocks) /\ Agree(chain[n], m.blocks) /\ Agree(m.blocks, m.blocks)
      /\ Signed(m) \in BOOLEAN
  BY <1>1, SMTT(30) DEF Consistent, Signed
<1>4. result \in {chain[n], m.blocks}
  BY <1>2, <1>3, MergedResult, Zenon
<1>5. WillSave(n, p, result) /\ blocks' = blocks /\ UNCHANGED <<chain, version, index, wire, crashes>>
  BY Zenon DEF MergeRemoteChainPayload
<1> HIDE DEF result
<1>6. Chains \cup {result} = Chains
  BY <1>1, <1>4, SMTT(30)
<1>7. Consistent(Chains \cup {result}, blocks') /\ result \in Seq(Block)
  BY <1>1, <1>2, <1>4, <1>5, <1>6, Zenon
<1> QED
  BY <1>1, <1>5, <1>7, WillSaveKeeps, SMTT(30)

\* The steps that write a file, index it or end: the chains afterwards are among those before.
LEMMA WritingKeeps ==
  ASSUME IInv, NEW n \in Nodes, NEW p \in Procs[n], NEW v \in ProcState,
         proc' = [proc EXCEPT ![n][p] = v], v.pc \in {"save", "build"} => v.blocks \in Chains,
         chain' \in [Nodes -> Seq(Block)], \A k \in Nodes : chain'[k] \in Chains,
         version' \in [Nodes -> Nat], index' \in [Nodes -> Index], crashes' \in Nat,
         wire' = wire, blocks' = blocks
  PROVE  IInv'
<1>1. TypeOK /\ Consistent(Chains, blocks) /\ \A m \in wire : Rooted(m.blocks, blocks)
  BY DEF IInv
<1>2. TypeOK'
  <2>1. DOMAIN proc' = Nodes /\ \A k \in Nodes : proc'[k] \in [Procs[k] -> ProcState]
    BY <1>1, ProcUpdate, Zenon
  <2> QED
    BY <1>1, <2>1, SMTT(30) DEF TypeOK
<1>3. \A m \in wire' : m.blocks \in Chains
  BY ChainsHas
<1>4. Chains' \subseteq Chains
  BY <1>1, <1>3, ChainsStep, Zenon
<1>5. Consistent(Chains', blocks')
  BY <1>1, <1>4, Subset
<1> QED
  BY <1>1, <1>2, <1>5 DEF IInv

LEMMA SaveChainBlocksKeeps ==
  ASSUME IInv, NEW n \in Nodes, NEW p \in Procs[n], SaveChainBlocks(n, p)
  PROVE  IInv'
<1> DEFINE v == [proc[n][p] EXCEPT !.pc = "build"]
<1>1. TypeOK /\ proc[n][p] \in ProcState /\ proc[n][p].pc = "save"
  BY DEF IInv, TypeOK, SaveChainBlocks
<1>2. /\ proc[n][p] = [pc |-> "save", blocks |-> proc[n][p].blocks]
      /\ proc[n][p].blocks \in Seq(Block) /\ proc[n][p].blocks \in Chains
  BY <1>1, ProcStates, ChainsHas, Zenon
<1>3. v = [pc |-> "build", blocks |-> proc[n][p].blocks]
  BY <1>2
<1>4. v \in ProcState /\ v.blocks = proc[n][p].blocks
  BY <1>2, <1>3, ProcStates, SMTT(30)
<1>5. proc' = [proc EXCEPT ![n][p] = v]
  BY <1>1 DEF SaveChainBlocks, TypeOK
<1> HIDE DEF v
<1>6. /\ chain' = [chain EXCEPT ![n] = proc[n][p].blocks]
      /\ version' = [version EXCEPT ![n] = @ + 1]
      /\ UNCHANGED <<index, wire, blocks, crashes>>
  BY DEF SaveChainBlocks
<1>7. chain' \in [Nodes -> Seq(Block)] /\ version' \in [Nodes -> Nat]
  BY <1>1, <1>2, <1>6, SMTT(30) DEF TypeOK
<1>8. \A k \in Nodes : chain'[k] \in Chains
  BY <1>1, <1>2, <1>6, ChainsHas, Zenon DEF TypeOK
<1>9. index' \in [Nodes -> Index] /\ crashes' \in Nat /\ wire' = wire /\ blocks' = blocks
  BY <1>1, <1>6, Zenon DEF TypeOK
<1> QED
  BY <1>2, <1>4, <1>5, <1>7, <1>8, <1>9, WritingKeeps, Zenon

\* The chain files do not change in the steps of a process that has written one.
LEMMA IndexingKeeps ==
  ASSUME IInv, NEW n \in Nodes, NEW p \in Procs[n],
         \/ BuildChainIndexPayloads(n, p) \/ WriteChainIndex(n, p)
         \/ LoadOrRebuildChainIndex(n, p) \/ Crash(n, p)
  PROVE  IInv'
<1>1. TypeOK /\ proc[n][p] \in ProcState
  BY Zenon DEF IInv, TypeOK
<1>2. \A k \in Nodes : chain[k] \in Chains
  BY ChainsHas
<1>3. /\ chain \in [Nodes -> Seq(Block)] /\ version \in [Nodes -> Nat]
      /\ index \in [Nodes -> Index] /\ crashes \in Nat
  BY <1>1, Zenon DEF TypeOK
<1>4. CASE BuildChainIndexPayloads(n, p)
  <2> DEFINE v == [pc |-> "write", index |-> [version |-> version[n], blocks |-> proc[n][p].blocks]]
  <2>1. proc[n][p].blocks \in Seq(Block)
    BY <1>1, <1>4, ProcStates, Zenon DEF BuildChainIndexPayloads
  <2>2. [version |-> version[n], blocks |-> proc[n][p].blocks] \in Index
    BY <1>3, <2>1 DEF Index
  <2>3. v \in ProcState /\ v.pc = "write"
    BY <2>2, ProcStates, Zenon
  <2>4. proc' = [proc EXCEPT ![n][p] = v]
    BY <1>1, <1>4, Zenon DEF BuildChainIndexPayloads, TypeOK
  <2> HIDE DEF v
  <2>5. UNCHANGED <<chain, version, index, wire, blocks, crashes>>
    BY <1>4, Zenon DEF BuildChainIndexPayloads
  <2> QED
    BY <1>2, <1>3, <2>3, <2>4, <2>5, WritingKeeps, Zenon
<1>5. CASE WriteChainIndex(n, p)
  <2>1. proc[n][p].index \in Index
    BY <1>1, <1>5, ProcStates, Zenon DEF WriteChainIndex
  <2>2. index' \in [Nodes -> Index]
    BY <1>3, <1>5, <2>1 DEF WriteChainIndex
  <2>3. proc' = [proc EXCEPT ![n][p] = Idle] /\ UNCHANGED <<chain, version, wire, blocks, crashes>>
    BY <1>5 DEF WriteChainIndex
  <2> QED
    BY <1>2, <1>3, <2>2, <2>3, ProcStates, WritingKeeps, ZenonT(30)
<1>6. CASE LoadOrRebuildChainIndex(n, p)
  <2> DEFINE v == [pc |-> "build", blocks |-> chain[n]]
  <2>1. v \in ProcState /\ v.blocks \in Chains
    BY <1>2, <1>3, ProcStates
  <2>2. proc' = [proc EXCEPT ![n][p] = v] /\ UNCHANGED <<chain, version, index, wire, blocks, crashes>>
    BY <1>6 DEF LoadOrRebuildChainIndex
  <2> HIDE DEF v
  <2> QED
    BY <1>2, <1>3, <2>1, <2>2, WritingKeeps, Zenon
<1>7. CASE Crash(n, p)
  <2>1. proc' = [proc EXCEPT ![n][p] = Idle] /\ UNCHANGED <<chain, version, index, wire, blocks>>
    BY <1>7 DEF Crash
  <2>2. crashes' \in Nat
    BY <1>3, <1>7 DEF Crash
  <2> QED
    BY <1>2, <1>3, <2>1, <2>2, ProcStates, WritingKeeps, ZenonT(30)
<1> QED
  BY <1>4, <1>5, <1>6, <1>7, Zenon

LEMMA ExportChainPayloadKeeps ==
  ASSUME IInv, NEW n \in Nodes, ExportChainPayload(n)
  PROVE  IInv'
<1>1. TypeOK /\ Consistent(Chains, blocks) /\ \A m \in wire : Rooted(m.blocks, blocks)
  BY SMTT(30) DEF IInv
<1>2. /\ chain[n] # <<>> /\ chain[n][1] = GenesisBlock
      /\ wire' = wire \cup {[from |-> n, blocks |-> chain[n]]}
      /\ UNCHANGED <<chain, version, index, proc, blocks, crashes>>
  BY DEF ExportChainPayload
<1>3. chain[n] \in Chains
  BY ChainsHas
<1>4. Rooted(chain[n], blocks)
  BY <1>1, <1>2, <1>3, SMTT(30) DEF Consistent, Good, GenesisBlock, StaleBlock
<1>5. TypeOK'
  <2>1. wire' \subseteq [from : Nodes, blocks : Seq(Block)]
    BY <1>1, <1>2, SMTT(30) DEF TypeOK
  <2> QED
    BY <1>1, <1>2, <2>1, Zenon DEF TypeOK
<1>6. Chains' \subseteq Chains
  <2> SUFFICES ASSUME NEW c \in Chains', c \notin {m.blocks : m \in wire'} PROVE c \in Chains
    <3>1. \A m \in wire' : m.blocks \in Chains
      <4>1. \A m \in wire : m.blocks \in Chains
        BY ChainsHas, Zenon
      <4> QED
        BY ONLY <1>2, <1>3, <4>1
    <3> QED
      BY <3>1, Zenon
  <2> QED
    BY <1>2, Zenon DEF Chains
<1>7. Consistent(Chains', blocks')
  BY <1>1, <1>2, <1>6, Subset, Zenon
<1>8. \A m \in wire' : Rooted(m.blocks, blocks')
  BY <1>1, <1>2, <1>4, SMTT(30)
<1> QED
  BY <1>5, <1>7, <1>8, SMTT(30) DEF IInv

LEMMA NextIInv == IInv /\ [Next]_vars => IInv'
<1> SUFFICES ASSUME IInv, [Next]_vars PROVE IInv'
  OBVIOUS
<1>1. CASE UNCHANGED vars
  <2>1. chain' = chain /\ version' = version /\ index' = index /\ proc' = proc /\ wire' = wire
        /\ blocks' = blocks /\ crashes' = crashes
    BY <1>1, Zenon DEF vars
  <2>2. TypeOK'
    BY <2>1, Zenon DEF IInv, TypeOK
  <2>3. Chains' = Chains
    BY <2>1, Zenon DEF Chains
  <2> QED
    BY <2>1, <2>2, <2>3, Zenon DEF IInv
<1>2. ASSUME NEW n \in Nodes, ExportChainPayload(n) PROVE IInv'
  BY <1>2, ExportChainPayloadKeeps
<1>3. ASSUME NEW n \in Nodes, NEW p \in Procs[n], EnsureChainGenesis(n, p) PROVE IInv'
  BY <1>3, EnsureChainGenesisKeeps
<1>4. ASSUME NEW n \in Nodes, NEW p \in Procs[n], NEW b \in Bundles, AppendChainBlock(n, p, b)
      PROVE  IInv'
  BY <1>4, AppendChainBlockKeeps
<1>5. ASSUME NEW n \in Nodes, NEW p \in Procs[n], NEW m \in wire, MergeRemoteChainPayload(n, p, m)
      PROVE  IInv'
  BY <1>5, MergeRemoteChainPayloadKeeps, SMTT(30)
<1>6. ASSUME NEW n \in Nodes, NEW p \in Procs[n], SaveChainBlocks(n, p) PROVE IInv'
  BY <1>6, SaveChainBlocksKeeps
<1>7. ASSUME NEW n \in Nodes, NEW p \in Procs[n],
             \/ BuildChainIndexPayloads(n, p) \/ WriteChainIndex(n, p)
             \/ LoadOrRebuildChainIndex(n, p) \/ Crash(n, p)
      PROVE  IInv'
  BY <1>7, IndexingKeeps
<1> QED
  BY <1>1, <1>2, <1>3, <1>4, <1>5, <1>6, <1>7, Zenon DEF Next

LEMMA InvariantIInv == Spec => []IInv
<1>1. Init => IInv
  BY InitIInv
<1>2. IInv /\ [Next]_vars => IInv'
  BY NextIInv
<1> QED
  BY <1>1, <1>2, PTL DEF Spec

-----------------------------------------------------------------------------
LEMMA SavedIsRooted ==
  ASSUME IInv, NEW n \in Nodes, Saved(n)
  PROVE  Rooted(chain[n], blocks)
<1>1. Good(chain[n], blocks)
  BY ChainsHas, Zenon DEF IInv, Consistent
<1> QED
  BY <1>1, SMTT(30) DEF Good, Saved, IsStaleGenesisOnlyChain

(***************************************************************************)
(* No bundle and no nonce is ever in a chain file twice, with any number   *)
(* of nodes, of processes that overwrite each other's files, of payloads   *)
(* and of crashes (validate_chain_blocks, append_chain_block and           *)
(* merge_remote_chain_payload).                                            *)
(***************************************************************************)
THEOREM BundlesAreSpentOnce == Spec => []SpentOnce
<1>1. IInv => SpentOnce
  <2> SUFFICES ASSUME IInv, NEW n \in Nodes, Saved(n),
                      NEW i \in DOMAIN chain[n], NEW j \in DOMAIN chain[n], i # j
               PROVE  /\ chain[n][i].bundle # chain[n][j].bundle
                      /\ Nonce[chain[n][i].bundle] # Nonce[chain[n][j].bundle]
    BY Zenon DEF SpentOnce
  <2>1. DistinctBundles(chain[n]) /\ DistinctNonces(chain[n])
    BY SavedIsRooted, Zenon DEF Rooted, Validates
  <2> QED
    BY <2>1, Zenon DEF DistinctBundles, DistinctNonces
<1> QED
  BY <1>1, InvariantIInv, PTL

(***************************************************************************)
(* No address was overdrawn and no coin created or destroyed at any point  *)
(* of the history in a chain file, although validate_chain_blocks looks at *)
(* the final balances only.                                                *)
(***************************************************************************)
THEOREM HistoryStaysSolvent == Spec => []HistorySolvent
<1>1. IInv => HistorySolvent
  <2> SUFFICES ASSUME IInv, NEW n \in Nodes, Saved(n), NEW k \in 1 .. Len(chain[n])
               PROVE  Solvent(SubSeq(chain[n], 1, k))
    BY DEF HistorySolvent, Solvent
  <2> QED
    BY SavedIsRooted DEF Rooted
<1> QED
  BY <1>1, InvariantIInv, PTL

(***************************************************************************)
(* Two nodes that both have a block have the same history before it.       *)
(***************************************************************************)
THEOREM HistoryIsCommon == Spec => []CommonHistory
<1>1. IInv => CommonHistory
  <2> SUFFICES ASSUME IInv, NEW n \in Nodes, NEW m \in Nodes,
                      NEW i \in DOMAIN chain[n], NEW j \in DOMAIN chain[m],
                      chain[n][i].hash = chain[m][j].hash
               PROVE  i = j /\ SubSeq(chain[n], 1, i) = SubSeq(chain[m], 1, j)
    BY Zenon DEF CommonHistory
  <2>1. Agree(chain[n], chain[m])
    BY ChainsHas, Zenon DEF IInv, Consistent
  <2>2. i = j /\ \A k \in 1 .. i : chain[n][k] = chain[m][k]
    BY <2>1 DEF Agree
  <2>3. /\ chain[n] \in Seq(Block) /\ chain[m] \in Seq(Block)
        /\ i \in 1 .. Len(chain[n]) /\ i \in 1 .. Len(chain[m])
    BY <2>2 DEF IInv, TypeOK
  <2>4. /\ SubSeq(chain[n], 1, i) \in Seq(Block) /\ Len(SubSeq(chain[n], 1, i)) = i
        /\ \A k \in 1 .. i : SubSeq(chain[n], 1, i)[k] = chain[n][k]
    BY <2>3, SubSeqProperties, SMTT(30)
  <2>5. /\ SubSeq(chain[m], 1, i) \in Seq(Block) /\ Len(SubSeq(chain[m], 1, i)) = i
        /\ \A k \in 1 .. i : SubSeq(chain[m], 1, i)[k] = chain[m][k]
    BY <2>3, SubSeqProperties, SMTT(30)
  <2>6. SubSeq(chain[n], 1, i) = SubSeq(chain[m], 1, i)
    BY <2>2, <2>4, <2>5, SeqEqual, SMTT(30)
  <2> QED
    BY <2>2, <2>6, Zenon
<1> QED
  BY <1>1, InvariantIInv, PTL

(***************************************************************************)
(* A payload of the validator brings every node to the chain in it,        *)
(* whatever the node had and however old the payload is                    *)
(* (merge_remote_chain_payload, block by block or by                       *)
(* _adopt_authoritative_remote_fork).                                      *)
(***************************************************************************)
THEOREM ValidatorHasTheLastWord == Spec => []ValidatorDecides
<1>1. IInv => ValidatorDecides
  <2> SUFFICES ASSUME IInv, NEW n \in Nodes, NEW m \in wire
               PROVE  Merged(chain[n], m.blocks, TRUE) = m.blocks
    BY ZenonT(30) DEF ValidatorDecides
  <2>1. chain[n] \in Seq(Block) /\ Rooted(m.blocks, blocks)
    BY Zenon DEF IInv, TypeOK
  <2>2. Good(chain[n], blocks) /\ Agree(chain[n], m.blocks) /\ Agree(m.blocks, m.blocks)
    BY ChainsHas, Zenon DEF IInv, Consistent
  <2> QED
    BY <2>1, <2>2, MergedResult, Zenon
<1> QED
  BY <1>1, InvariantIInv, PTL

-----------------------------------------------------------------------------
(***************************************************************************)
(* What one process does to the files of its node.                         *)
(***************************************************************************)
LocalStep(n, p) ==
    \/ EnsureChainGenesis(n, p)
    \/ \E b \in Bundles : AppendChainBlock(n, p, b)
    \/ \E m \in wire : MergeRemoteChainPayload(n, p, m)
    \/ SaveChainBlocks(n, p)
    \/ BuildChainIndexPayloads(n, p)
    \/ WriteChainIndex(n, p)
    \/ LoadOrRebuildChainIndex(n, p)
    \/ Crash(n, p)

Alone(n) == \A p, q \in Procs[n] : p = q

LEMMA Elsewhere ==
  ASSUME TypeOK, NEW n \in Nodes, NEW p \in Procs[n], LocalStep(n, p), NEW k \in Nodes, k # n
  PROVE  chain'[k] = chain[k] /\ version'[k] = version[k] /\ index'[k] = index[k] /\ proc'[k] = proc[k]
<1>1. k \in DOMAIN chain /\ k \in DOMAIN version /\ k \in DOMAIN index /\ k \in DOMAIN proc
  BY Zenon DEF TypeOK
<1>2. CASE \E bs : WillSave(n, p, bs) /\ UNCHANGED <<chain, version, index>>
  BY <1>1, <1>2, SMTT(30) DEF WillSave
<1>3. CASE SaveChainBlocks(n, p)
  BY <1>1, <1>3, SMTT(30) DEF SaveChainBlocks
<1>4. CASE BuildChainIndexPayloads(n, p)
  BY <1>1, <1>4, SMTT(30) DEF BuildChainIndexPayloads
<1>5. CASE WriteChainIndex(n, p)
  BY <1>1, <1>5, SMTT(30) DEF WriteChainIndex
<1>6. CASE LoadOrRebuildChainIndex(n, p)
  BY <1>1, <1>6, SMTT(30) DEF LoadOrRebuildChainIndex
<1>7. CASE Crash(n, p)
  BY <1>1, <1>7, SMTT(30) DEF Crash
<1>8. CASE EnsureChainGenesis(n, p) \/ (\E b \in Bundles : AppendChainBlock(n, p, b))
            \/ (\E m \in wire : MergeRemoteChainPayload(n, p, m))
  BY <1>2, <1>8, Zenon DEF EnsureChainGenesis, AppendChainBlock, MergeRemoteChainPayload
<1> QED
  BY <1>3, <1>4, <1>5, <1>6, <1>7, <1>8, ZenonT(30) DEF LocalStep

\* The index of a node whose files only one process writes: what the process is about to index
\* or to write is what is in the chain file, and the index file is not ahead of the chain file.
IndexOK(n) ==
    /\ index[n].version <= version[n]
    /\ index[n].version = version[n] => index[n].blocks = chain[n]
    /\ \A p \in Procs[n] :
        /\ proc[n][p].pc = "build" => proc[n][p].blocks = chain[n]
        /\ proc[n][p].pc = "write" =>
                proc[n][p].index.version = version[n] /\ proc[n][p].index.blocks = chain[n]

IndexInv == \A n \in Nodes : Alone(n) => IndexOK(n)

\* What a validator is about to save goes on from what it has.
GrowInv ==
    \A n \in Authorized : \A p \in Procs[n] :
        Saved(n) /\ proc[n][p].pc = "save" => Continues(proc[n][p].blocks, chain[n])

LEMMA IndexKept ==
  ASSUME IInv, NEW n \in Nodes, IndexOK(n), NEW p \in Procs[n], \A q \in Procs[n] : q = p,
         LocalStep(n, p)
  PROVE  IndexOK(n)'
<1>1. /\ TypeOK /\ n \in DOMAIN chain /\ n \in DOMAIN version /\ n \in DOMAIN index
      /\ n \in DOMAIN proc /\ p \in DOMAIN proc[n] /\ proc[n][p] \in ProcState
      /\ version[n] \in Nat /\ index[n].version \in Int
  BY ZenonT(30) DEF IInv, TypeOK, Index
<1>2. /\ index[n].version <= version[n]
      /\ index[n].version = version[n] => index[n].blocks = chain[n]
      /\ proc[n][p].pc = "build" => proc[n][p].blocks = chain[n]
      /\ proc[n][p].pc = "write" =>
            proc[n][p].index.version = version[n] /\ proc[n][p].index.blocks = chain[n]
  BY ZenonT(30) DEF IndexOK
<1> SUFFICES /\ index'[n].version <= version'[n]
             /\ index'[n].version = version'[n] => index'[n].blocks = chain'[n]
             /\ proc'[n][p].pc = "build" => proc'[n][p].blocks = chain'[n]
             /\ proc'[n][p].pc = "write" =>
                   proc'[n][p].index.version = version'[n] /\ proc'[n][p].index.blocks = chain'[n]
  BY ZenonT(30) DEF IndexOK
<1>3. CASE \E bs : WillSave(n, p, bs) /\ UNCHANGED <<chain, version, index>>
  <2>1. proc'[n][p].pc = "save"
    BY <1>1, <1>3, SMTT(30) DEF WillSave
  <2> QED
    BY <1>2, <1>3, <2>1, Zenon
<1>4. CASE EnsureChainGenesis(n, p) \/ (\E b \in Bundles : AppendChainBlock(n, p, b))
            \/ (\E m \in wire : MergeRemoteChainPayload(n, p, m))
  BY <1>3, <1>4, ZenonT(30) DEF EnsureChainGenesis, AppendChainBlock, MergeRemoteChainPayload
<1>5. CASE SaveChainBlocks(n, p)
  <2>1. /\ proc[n][p].blocks \in Seq(Block)
        /\ proc[n][p] = [pc |-> "save", blocks |-> proc[n][p].blocks]
    BY <1>1, <1>5, ProcStates DEF SaveChainBlocks
  <2>2. proc'[n][p].pc = "build" /\ proc'[n][p].blocks = proc[n][p].blocks
    BY <1>1, <1>5, <2>1 DEF SaveChainBlocks
  <2>3. chain'[n] = proc[n][p].blocks /\ version'[n] = version[n] + 1 /\ index' = index
    BY <1>1, <1>5, SMTT(30) DEF SaveChainBlocks
  <2>4. index'[n].version <= version'[n] /\ index'[n].version # version'[n]
    BY <1>1, <1>2, <2>3
  <2> QED
    BY <2>2, <2>3, <2>4, Zenon
<1>6. CASE BuildChainIndexPayloads(n, p)
  <2>1. /\ proc'[n][p].pc = "write" /\ proc'[n][p].index.version = version[n]
        /\ proc'[n][p].index.blocks = proc[n][p].blocks
    BY <1>1, <1>6, Zenon DEF BuildChainIndexPayloads
  <2> QED
    BY <1>2, <1>6, <2>1, Zenon DEF BuildChainIndexPayloads
<1>7. CASE WriteChainIndex(n, p)
  <2>1. proc'[n][p].pc = "idle" /\ index'[n] = proc[n][p].index
    BY <1>1, <1>7, Zenon DEF WriteChainIndex, Idle
  <2> QED
    BY <1>1, <1>2, <1>7, <2>1, SMTT(30) DEF WriteChainIndex
<1>8. CASE LoadOrRebuildChainIndex(n, p)
  <2>1. proc'[n][p].pc = "build" /\ proc'[n][p].blocks = chain[n]
    BY <1>1, <1>8, SMTT(30) DEF LoadOrRebuildChainIndex
  <2> QED
    BY <1>2, <1>8, <2>1, Zenon DEF LoadOrRebuildChainIndex
<1>9. CASE Crash(n, p)
  <2>1. proc'[n][p].pc = "idle"
    BY <1>1, <1>9, SMTT(30) DEF Crash, Idle
  <2> QED
    BY <1>2, <1>9, <2>1, Zenon DEF Crash
<1> QED
  BY <1>4, <1>5, <1>6, <1>7, <1>8, <1>9, ZenonT(30) DEF LocalStep

LEMMA NextIsLocal ==
  ASSUME [Next]_vars
  PROVE  \/ UNCHANGED <<chain, version, index, proc>>
         \/ \E n \in Nodes : \E p \in Procs[n] : LocalStep(n, p)
<1>1. CASE UNCHANGED vars
  BY <1>1, Zenon DEF vars
<1>2. CASE \E n \in Nodes : ExportChainPayload(n)
  BY <1>2, ZenonT(30) DEF ExportChainPayload
<1>3. CASE \E n \in Nodes : \E p \in Procs[n] : LocalStep(n, p)
  BY <1>3, Zenon
<1> QED
  BY <1>1, <1>2, <1>3, ZenonT(30) DEF Next, LocalStep

(***************************************************************************)
(* On a node with a single process an index whose stamp is that of the     *)
(* chain file holds the balances of that file, whenever the process was    *)
(* interrupted and whatever the other nodes do (save_chain_blocks,         *)
(* load_or_rebuild_chain_index).                                           *)
(***************************************************************************)
THEOREM IndexStaysCurrent == Spec => []IndexCurrent
<1>1. Init => IndexInv
  <2> SUFFICES ASSUME Init, NEW n \in Nodes PROVE IndexOK(n)
    BY DEF IndexInv
  <2>1. index[n].version = -1 /\ version[n] = 0 /\ \A p \in Procs[n] : proc[n][p] = Idle
    BY Zenon DEF Init
  <2> QED
    BY ONLY <2>1 DEF IndexOK, Idle
<1>2. IInv /\ IndexInv /\ [Next]_vars => IndexInv'
  <2> SUFFICES ASSUME IInv, IndexInv, [Next]_vars, NEW k \in Nodes, Alone(k)
               PROVE  IndexOK(k)'
    BY DEF IndexInv, Alone
  <2>1. IndexOK(k) /\ TypeOK
    BY Zenon DEF IndexInv, IInv, Alone
  <2>2. CASE UNCHANGED <<chain, version, index, proc>>
    BY <2>1, <2>2, Zenon DEF IndexOK
  <2>3. ASSUME NEW n \in Nodes, NEW p \in Procs[n], LocalStep(n, p)
        PROVE  IndexOK(k)'
    <3>1. CASE k = n
      BY <2>1, <2>3, <3>1, IndexKept, Zenon DEF Alone
    <3>2. CASE k # n
      <4>1. chain'[k] = chain[k] /\ version'[k] = version[k] /\ index'[k] = index[k] /\ proc'[k] = proc[k]
        BY <2>1, <2>3, <3>2, Elsewhere, Zenon
      <4> QED
        BY <2>1, <4>1, Zenon DEF IndexOK
    <3> QED
      BY <3>1, <3>2, SMTT(30)
  <2> QED
    BY <2>2, <2>3, NextIsLocal, SMTT(30)
<1>3. IndexInv => IndexCurrent
  BY Zenon DEF IndexInv, IndexOK, IndexCurrent, IndexMatchesCurrentChainFile, Alone
<1> QED
  BY <1>1, <1>2, <1>3, InvariantIInv, PTL DEF Spec

-----------------------------------------------------------------------------
\* One node has the key of the validator, and one process uses it there.
OneValidator ==
    /\ \A a, b \in Authorized : a = b
    /\ \A n \in Authorized : Alone(n)

LEMMA ContinuesItself ==
  ASSUME NEW bs \in Seq(Block)
  PROVE  Continues(bs, bs)
  BY DEF Continues

LEMMA AppendContinues ==
  ASSUME NEW bs \in Seq(Block), NEW new \in Block
  PROVE  Continues(Append(bs, new), bs)
  BY AppendProperties DEF Continues

\* What the one process of the validator prepares goes on from the validator's chain: without
\* another signature it accepts no payload over a chain of its own.
LEMMA GrowKept ==
  ASSUME IInv, OneValidator, NEW n \in Authorized, NEW p \in Procs[n], LocalStep(n, p),
         Saved(n)', proc'[n][p].pc = "save"
  PROVE  Continues(proc'[n][p].blocks, chain'[n])
<1>1. /\ TypeOK /\ n \in Nodes /\ n \in DOMAIN proc /\ p \in DOMAIN proc[n]
      /\ chain[n] \in Seq(Block) /\ proc[n][p] \in ProcState
  BY AuthorizedAreNodes, Zenon DEF IInv, TypeOK
<1>2. ASSUME NEW bs, WillSave(n, p, bs) PROVE proc'[n][p].blocks = bs
  BY <1>1, <1>2, SMTT(30) DEF WillSave
<1>3. CASE EnsureChainGenesis(n, p)
  <2>1. ~Saved(n) /\ chain' = chain
    BY <1>3, Zenon DEF EnsureChainGenesis, Saved
  <2> QED
    BY <2>1, Zenon DEF Saved
<1>4. ASSUME NEW b \in Bundles, AppendChainBlock(n, p, b)
      PROVE  Continues(proc'[n][p].blocks, chain'[n])
  <2> DEFINE new == NewBlock(chain[n], b)
  <2>1. /\ chain' = chain /\ proc'[n][p].blocks = Append(chain[n], new)
        /\ chain[n] # <<>>
    BY <1>2, <1>4, ZenonT(30) DEF AppendChainBlock, Appendable
  <2>2. Tip(chain[n]) \in Block
    <3>1. chain[n] \in Seq(Block) /\ chain[n] # <<>>
      BY <1>1, <2>1, Zenon
    <3> QED
      BY ONLY <3>1 DEF Tip
  <2>3. new \in Block
    <3>1. blocks \in Nat
      BY <1>1, Zenon DEF TypeOK
    <3> QED
      BY ONLY <2>2, <3>1, b \in Bundles DEF NewBlock, Block, AllBundles
  <2> HIDE DEF new
  <2> QED
    BY <1>1, <2>1, <2>3, AppendContinues, Zenon
<1>5. ASSUME NEW m \in wire, MergeRemoteChainPayload(n, p, m)
      PROVE  FALSE
  <2>1. m.from # n /\ chain' = chain /\ Merged(chain[n], m.blocks, Signed(m)) # chain[n]
    BY <1>5, Zenon DEF MergeRemoteChainPayload
  <2>2. Signed(m) = FALSE
    BY <2>1, SMTT(30) DEF Signed, OneValidator
  <2>3. Rooted(chain[n], blocks) /\ Rooted(m.blocks, blocks)
    <3>1. Saved(n)
      BY <2>1, Zenon DEF Saved
    <3> QED
      BY <1>1, <3>1, SavedIsRooted, SMTT(30) DEF IInv
  <2>4. Good(chain[n], blocks) /\ Agree(chain[n], m.blocks) /\ Agree(m.blocks, m.blocks)
    BY <1>1, ChainsHas, Zenon DEF IInv, Consistent
  <2>5. Merged(chain[n], m.blocks, FALSE) = chain[n]
    BY <1>1, <2>3, <2>4, MergedResult, Zenon
  <2> QED
    BY <2>1, <2>2, <2>5, Zenon
<1>6. CASE SaveChainBlocks(n, p)
  <2>1. proc[n][p] = [pc |-> "save", blocks |-> proc[n][p].blocks]
    BY <1>1, <1>6, ProcStates, SMTT(30) DEF SaveChainBlocks
  <2>2. proc'[n][p].pc = "build"
    BY <1>1, <1>6, <2>1, SMTT(30) DEF SaveChainBlocks
  <2> QED
    BY <2>2, Zenon
<1>7. CASE BuildChainIndexPayloads(n, p) \/ LoadOrRebuildChainIndex(n, p)
  BY <1>1, <1>7, SMTT(30) DEF BuildChainIndexPayloads, LoadOrRebuildChainIndex
<1>8. CASE WriteChainIndex(n, p) \/ Crash(n, p)
  BY <1>1, <1>8, SMTT(30) DEF WriteChainIndex, Crash, Idle
<1> QED
  BY <1>3, <1>4, <1>5, <1>6, <1>7, <1>8, ZenonT(30) DEF LocalStep

\* One step: the validator's chain is replaced by one that goes on from it, or left alone.
LEMMA GrownStep ==
  ASSUME IInv, GrowInv, OneValidator, [Next]_vars
  PROVE  Grown /\ GrowInv'
<1>1. TypeOK /\ \A n \in Authorized : chain[n] \in Seq(Block)
  BY AuthorizedAreNodes, Zenon DEF IInv, TypeOK
<1>2. CASE UNCHANGED <<chain, version, index, proc>>
  <2>1. Grown
    BY <1>1, <1>2, ContinuesItself, SMTT(30) DEF Grown
  <2>2. GrowInv'
    BY <1>2, Zenon DEF GrowInv, Saved
  <2> QED
    BY <2>1, <2>2
<1>3. ASSUME NEW n \in Nodes, NEW p \in Procs[n], LocalStep(n, p)
      PROVE  Grown /\ GrowInv'
  <2>1. ASSUME NEW k \in Authorized, Saved(k) PROVE Continues(chain'[k], chain[k])
    <3>1. CASE k = n /\ SaveChainBlocks(n, p)
      <4>1. proc[n][p].pc = "save" /\ chain'[n] = proc[n][p].blocks
        BY <1>1, <3>1, SMTT(30) DEF SaveChainBlocks, TypeOK
      <4> QED
        BY <2>1, <3>1, <4>1, Zenon DEF GrowInv
    <3>2. CASE k = n /\ ~SaveChainBlocks(n, p)
      <4>1. chain' = chain
        BY <1>3, <3>2, Zenon DEF LocalStep, EnsureChainGenesis, AppendChainBlock, MergeRemoteChainPayload,
               BuildChainIndexPayloads, WriteChainIndex, LoadOrRebuildChainIndex, Crash
      <4> QED
        BY <1>1, <4>1, ContinuesItself, SMTT(30)
    <3>3. CASE k # n
      <4>1. chain'[k] = chain[k]
        BY <1>1, <1>3, <3>3, Elsewhere, AuthorizedAreNodes, ZenonT(30)
      <4> QED
        BY <1>1, <4>1, ContinuesItself, SMTT(30)
    <3> QED
      BY <3>1, <3>2, <3>3, SMTT(30)
  <2>2. ASSUME NEW k \in Authorized, NEW q \in Procs[k], Saved(k)', proc'[k][q].pc = "save"
        PROVE  Continues(proc'[k][q].blocks, chain'[k])
    <3>1. CASE k = n
      <4>1. q = p
        BY <3>1, SMTT(30) DEF OneValidator, Alone
      <4> QED
        BY <1>3, <2>2, <3>1, <4>1, GrowKept, Zenon
    <3>2. CASE k # n
      <4>1. chain'[k] = chain[k] /\ proc'[k] = proc[k]
        BY <1>1, <1>3, <3>2, Elsewhere, AuthorizedAreNodes, ZenonT(30)
      <4>2. Saved(k)
        BY <2>2, <4>1, SMTT(30) DEF Saved
      <4> QED
        BY <2>2, <4>1, <4>2, ZenonT(30) DEF GrowInv
    <3> QED
      BY <3>1, <3>2, SMTT(30)
  <2> QED
    BY <2>1, <2>2, ZenonT(30) DEF Grown, GrowInv
<1> QED
  BY <1>2, <1>3, NextIsLocal, SMTT(30)

(***************************************************************************)
(* The chain of the validator only grows, if one node has its key and one  *)
(* process uses it: no payload, however long, and no crash takes a block   *)
(* away from it (merge_remote_chain_payload).                              *)
(***************************************************************************)
THEOREM ValidatorOnlyGrows == OneValidator => (Spec => ValidatorGrows)
<1> SUFFICES ASSUME OneValidator PROVE Spec => ValidatorGrows
  OBVIOUS
<1>1. Init => GrowInv
  <2> SUFFICES ASSUME Init, NEW n \in Authorized, NEW p \in Procs[n] PROVE proc[n][p].pc # "save"
    BY SMTT(30) DEF GrowInv
  <2>1. proc[n][p] = Idle
    BY AuthorizedAreNodes, Zenon DEF Init
  <2> QED
    BY <2>1, SMTT(30) DEF Idle
<1>2. IInv /\ GrowInv /\ [Next]_vars => GrowInv'
  BY GrownStep
<1>3. IInv /\ GrowInv /\ [Next]_vars => Grown
  BY GrownStep
<1> QED
  BY <1>1, <1>2, <1>3, InvariantIInv, PTL DEF Spec, ValidatorGrows
=============================================================================
