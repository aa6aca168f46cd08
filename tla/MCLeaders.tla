----------------------------- MODULE MCLeaders ------------------------------
(***************************************************************************)
(* Who leads and who vouches, in settings that are checked side by side.   *)
(* "lease": three replicas of a validator that pass on its lease, with the *)
(* constants of the configuration.  "bond": operations on a validator's    *)
(* bond overlap, crash and lose a fork, with the constants of the          *)
(* configuration; "turns": they take turns.  "pair": the election of a     *)
(* master by two nodes, both of them candidates; the worker of one comes   *)
(* or goes and reclaims the master role.  The other components rest.       *)
(***************************************************************************)
EXTENDS ValidatorLease, ValidatorBond

VARIABLES
    setting,
    clock, session, seniority, connected, pending, worker, commands, campaigns, scope, done,
    took, won, chan, queued, links, made

electionVars ==
    <<clock, session, seniority, connected, pending, worker, commands, campaigns, scope, done,
      took, won, chan, queued, links, made>>

Two == {1, 2}
First == {1}

Pair == INSTANCE Election WITH
    Nodes <- Two, Candidates <- Two, Workers <- First, WorkerBonus <- 10, Reclaim <- TRUE,
    Timely <- FALSE, MaxClock <- 2, MaxCommands <- 0, MaxChanges <- 1

Turns == INSTANCE ValidatorBond WITH Overlap <- FALSE, MaxTroubles <- 0

Off == "off"
ElectionOff ==
    /\ clock = Off /\ session = Off /\ seniority = Off /\ connected = Off /\ pending = Off
    /\ worker = Off /\ commands = Off /\ campaigns = Off /\ scope = Off /\ done = Off
    /\ took = Off /\ won = Off /\ chan = Off /\ queued = Off /\ links = Off /\ made = Off
LeaseRests == Init /\ role["a"] = "active"

MCInit ==
    /\ BondInit
    /\ \/ setting = "lease" /\ Init /\ ElectionOff
       \/ setting \in {"bond", "turns"} /\ LeaseRests /\ ElectionOff
       \/ setting = "pair" /\ LeaseRests /\ Pair!Init

MCNext ==
    /\ UNCHANGED setting
    /\ \/ setting = "lease" /\ Next /\ UNCHANGED <<bondVars, electionVars>>
       \/ setting = "bond" /\ BondNext /\ UNCHANGED <<vars, electionVars>>
       \/ setting = "turns" /\ Turns!BondNext /\ UNCHANGED <<vars, electionVars>>
       \/ setting = "pair" /\ Pair!Next /\ UNCHANGED <<vars, bondVars>>

all == <<setting, vars, bondVars, electionVars>>
MCSpec == MCInit /\ [][MCNext]_all

-----------------------------------------------------------------------------
\* When both nodes are linked and nothing is outstanding they are in one session
\* (Election._election_receiver).
QuietAgreement == setting = "pair" => Pair!QuietAgreement

\* Chain, wallet, ledger and configuration agree on the bond between operations that take turns
\* (set_validator_mode, complete_validator_unbond, jail_validator).
BondBooksAgree == setting = "turns" => BooksAgree
=============================================================================
