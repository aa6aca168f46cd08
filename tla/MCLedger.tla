------------------------------ MODULE MCLedger ------------------------------
(***************************************************************************)
(* The books of two nodes, in settings that are checked side by side.      *)
(*                                                                         *)
(* The chains of a validator v and another node w: two addresses, one      *)
(* coin, and bundles that pay it, pay it back, pay it with a nonce that is *)
(* already used, and create a coin.  "shared" (with the constants of the   *)
(* configuration): two processes of w overwrite each other's files.        *)
(* "single": every node has one process, and one of them may crash.        *)
(*                                                                         *)
(* A settlement of node r ("serial"): r and v are the committee, and the   *)
(* threads of a node take turns.  Its variables are x1, x2, ... in the     *)
(* order they are declared in Settlement.                                  *)
(***************************************************************************)
EXTENDS Chain, TLC

VARIABLES setting, x1, x2, x3, x4, x5, x6, x7, x8, x9, x10, x11

settlementVars == <<x1, x2, x3, x4, x5, x6, x7, x8, x9, x10, x11>>

OneEach == [n \in Nodes |-> {1}]
MCProcs == [n \in Nodes |-> IF n \in Authorized THEN {1} ELSE {1, 2}]
MCDelta ==
    [genesis |-> [x |-> 1, y |-> 0], stale |-> [x |-> 2, y |-> 0],
     pay |-> [x |-> -1, y |-> 1], back |-> [x |-> 1, y |-> -1],
     again |-> [x |-> -1, y |-> 1], mint |-> [x |-> 0, y |-> 1]]
MCNonce == [b \in DOMAIN MCDelta |-> IF b = "again" THEN "pay" ELSE b]

AllKinds == {"pay", "back", "again", "mint"}

Single == INSTANCE Chain WITH
    Procs <- OneEach, Bundles <- AllKinds, MaxBlocks <- 3, MaxWrites <- 3, MaxCrashes <- 1

Parties == {"r", "v"}
Locals == {"l"}
Handlers == {"h"}
Both == ("r" :> 1) @@ ("v" :> 1)

Serial == INSTANCE Settlement WITH
    Nodes <- Parties, Requester <- "r", Home <- "v", Bond <- Both, Overlap <- FALSE,
    MaxTroubles <- 2, MaxCrashes <- 0,
    st <- x1, att <- x2, payout <- x3, ledger <- x4, credits <- x5, chain <- x6, able <- x7,
    th <- x8, calls <- x9, troubles <- x10, crashes <- x11

Off == "off"
SettlementOff ==
    /\ x1 = Off /\ x2 = Off /\ x3 = Off /\ x4 = Off /\ x5 = Off /\ x6 = Off /\ x7 = Off /\ x8 = Off
    /\ x9 = Off /\ x10 = Off /\ x11 = Off
Rests == Init /\ chain = [n \in Nodes |-> <<>>]

MCInit ==
    \/ setting = "shared" /\ Init /\ SettlementOff
    \/ setting = "single" /\ Single!Init /\ SettlementOff
    \/ setting = "serial" /\ Rests /\ Serial!Init

MCNext ==
    /\ UNCHANGED setting
    /\ \/ setting = "shared" /\ Next /\ UNCHANGED settlementVars
       \/ setting = "single" /\ Single!Next /\ UNCHANGED settlementVars
       \/ setting = "serial" /\ Serial!Next /\ UNCHANGED vars

all == <<setting, vars, settlementVars>>
MCSpec == MCInit /\ [][MCNext]_all

-----------------------------------------------------------------------------
\* No node debits its ledger twice while its threads take turns (apply_finalized_settlement).
AppliedOnce == setting = "serial" => Serial!AppliedOnce
=============================================================================
