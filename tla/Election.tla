------------------------------- MODULE Election -------------------------------
(***************************************************************************)
(* The election of the master of a session (cai/shared/election.py).       *)
(* Every node runs an Election object.  A campaign is a round: the node    *)
(* broadcasts a status that proposes a session, sleeps, and elects the     *)
(* largest of the proposals it has collected.  Campaigns are tasks of the  *)
(* event loop of their node; they are scheduled by the receivers of        *)
(* election messages and of connection messages, by the confirmation of a  *)
(* disconnect and by a change of the worker mode.                          *)
(*                                                                         *)
(* An action is what a task does between two points where it yields.       *)
(* TopicRouter also hands a node's messages to its own receiver, so a node *)
(* receives its own statuses (chan[n][n]).                                 *)
(***************************************************************************)
EXTENDS Integers, Sequences, SequencesExt

CONSTANTS
    Nodes,        \* the nodes; their order is the order of node ids
    Candidates,   \* the nodes with is_candidate
    Workers,      \* the nodes whose worker mode may be switched on
    WorkerBonus,  \* DEFAULT_WORKER_MASTER_SENIORITY_BONUS
    Reclaim,      \* DEFAULT_WORKER_MASTER_RECLAIM_ENABLED
    Timely,       \* a status is received before the sleep of its campaign ends
    MaxClock,     \* bound: the clock of a round
    MaxCommands,  \* bound: commands a node counts
    MaxChanges    \* bound: changes of links and of worker modes

VARIABLES
    clock,       \* Election.clock
    session,     \* Election.current_session
    seniority,   \* Election.seniority
    connected,   \* Election._connected_peers
    pending,     \* keys of Election._pending_disconnects
    worker,      \* Election._worker_execution_enabled
    commands,    \* Election.commands_seen
    campaigns,   \* campaigns[n]: the unfinished _campaign tasks of n, oldest first
    scope,       \* index of the task that owns _campaign_cancel_scope, 0 for None
    done,        \* index of the task that owns _campaign_done, 0 if it is set
    took,        \* took[n]: the receiver took a message while a campaign of n
                 \* waits for its turn in the event loop
    won,         \* won_clock of the last ElectionResult
    chan,        \* chan[s][r]: ElectionMessages from s to r
    queued,      \* queued[n]: ConnectionMessages not yet received
    links,       \* the pairs of nodes that are connected
    made         \* number of changes of links and of worker modes so far

campaignVars == <<campaigns, scope, done, took>>
nodeVars == <<clock, session, seniority, connected, pending, worker, commands, won>>
linkVars == <<queued, links, made>>
vars == <<nodeVars, campaignVars, chan, linkVars>>

Session == [master : Nodes, clock : Nat]
ElectionMessage == [clock : Nat, seniority : Int, commands : Nat, session : Session]
NoMessage == [clock |-> 0]
Phases == {"scheduled", "waiting", "sleeping", "woken"}

(***************************************************************************)
(* Of a list of candidates the code uses max(), which is the first of the  *)
(* largest, and len().                                                     *)
(***************************************************************************)
NoCandidates == [best |-> NoMessage, count |-> 0]

(***************************************************************************)
(* Election.run has held its first campaign, which resolves at once: every *)
(* node is its own master, elected from the one status in its list.        *)
(***************************************************************************)
Init ==
    /\ clock = [n \in Nodes |-> 0]
    /\ session = [n \in Nodes |-> [master |-> n, clock |-> 0]]
    /\ seniority = [n \in Nodes |-> IF n \in Candidates THEN 1 ELSE -1]
    /\ connected = [n \in Nodes |-> {}]
    /\ pending = [n \in Nodes |-> {}]
    /\ worker = [n \in Nodes |-> FALSE]
    /\ commands = [n \in Nodes |-> 0]
    /\ campaigns = [n \in Nodes |-> <<>>]
    /\ scope = [n \in Nodes |-> 0]
    /\ done = [n \in Nodes |-> 0]
    /\ took = [n \in Nodes |-> FALSE]
    /\ won = [n \in Nodes |-> 0]
    /\ chan = [s \in Nodes |-> [r \in Nodes |-> <<>>]]
    /\ queued = [n \in Nodes |-> <<>>]
    /\ links = {}
    /\ made = 0
-----------------------------------------------------------------------------
\* Mutant: the seniority is left out of the comparison.
LessBySession(a, b) ==
    \/ a.clock < b.clock
    \/ a.clock = b.clock /\ a.session.master < b.session.master

(***************************************************************************)
(* ElectionMessage.__lt__                                                  *)
(***************************************************************************)
Less(a, b) ==
    \/ a.clock < b.clock
    \/ a.clock = b.clock /\ a.seniority < b.seniority
    \/ /\ a.clock = b.clock /\ a.seniority = b.seniority
       /\ a.commands < b.commands
    \/ /\ a.clock = b.clock /\ a.seniority = b.seniority
       /\ a.commands = b.commands
       /\ a.session.master < b.session.master

(***************************************************************************)
(* candidates.append(m)                                                    *)
(***************************************************************************)
WithCandidate(cands, m) ==
    [best  |-> IF cands.count = 0 \/ Less(cands.best, m) THEN m ELSE cands.best,
     count |-> cands.count + 1]

(***************************************************************************)
(* Election._election_status, for given connected and pending peers.       *)
(***************************************************************************)
FallbackMaster(n, conn) ==
    IF seniority[n] < 0 /\ conn # {}
    THEN CHOOSE p \in conn : \A q \in conn : p <= q
    ELSE n

KeepCurrentMaster(n, conn, pend) ==
    LET m == session[n].master IN
    /\ ~(Reclaim /\ worker[n] /\ m # n)
    /\ ~(seniority[n] < 0 /\ m = n /\ conn # {})
    /\ m = n \/ m \in conn \/ m \in pend

ElectionStatus(n, c, conn, pend) ==
    [clock |-> c,
     seniority |-> seniority[n] +
        IF seniority[n] >= 0 /\ worker[n] THEN WorkerBonus ELSE 0,
     commands |-> commands[n],
     session |->
        IF KeepCurrentMaster(n, conn, pend) THEN session[n]
        ELSE [master |-> FallbackMaster(n, conn), clock |-> c]]

(***************************************************************************)
(* A status goes to the nodes a link leads to and to the node itself.      *)
(***************************************************************************)
Linked(s, r) == s = r \/ {s, r} \in links

Delivered(ch, s, msgs) ==
    [ch EXCEPT ![s] = [r \in Nodes |-> IF Linked(s, r) THEN @[r] \o msgs ELSE @[r]]]

(***************************************************************************)
(* tg.start_soon(self._campaign, candidates, ...): the task runs later.    *)
(* Its list is the one _candidates refers to.                              *)
(***************************************************************************)
Scheduled(cands) ==
    [phase |-> "scheduled", clock |-> 0, cands |-> cands, status |-> NoMessage,
     cancelled |-> FALSE, after |-> 0]

Schedule(n, cands) ==
    campaigns' = [campaigns EXCEPT ![n] = Append(@, Scheduled(cands))]

(***************************************************************************)
(* Election._start_new_campaign, without and with an initial candidate.    *)
(***************************************************************************)
StartNewCampaign(n) ==
    /\ clock[n] < MaxClock
    /\ clock' = [clock EXCEPT ![n] = @ + 1]
    /\ Schedule(n, NoCandidates)

StartNewCampaignWith(n, m) ==
    /\ clock[n] < MaxClock
    /\ clock' = [clock EXCEPT ![n] = @ + 1]
    /\ Schedule(n, WithCandidate(NoCandidates, [m EXCEPT !.clock = clock[n] + 1]))
-----------------------------------------------------------------------------
(***************************************************************************)
(* Election._election_receiver for one message.                            *)
(***************************************************************************)
CampaignActive(n) == scope[n] # 0

(***************************************************************************)
(* Some task of the list can run.  The event loop gives it its turn before *)
(* the receiver, which yields for every message, has its second one.       *)
(***************************************************************************)
Ready(tasks) ==
    \E i \in DOMAIN tasks :
        \/ tasks[i].phase \in {"scheduled", "woken"}
        \/ tasks[i].phase = "sleeping" /\ tasks[i].cancelled
        \/ tasks[i].phase = "waiting" /\ tasks[i].after = 0

JoinRound(n, m) ==
    /\ m.clock > clock[n]
    /\ clock' = [clock EXCEPT ![n] = m.clock]
    /\ Schedule(n, WithCandidate(NoCandidates, m))

DismissOld(n, m) ==
    /\ m.clock < clock[n]
    /\ UNCHANGED <<clock, campaigns>>

\* Mutant: what arrives after a round has settled is dropped.
FollowUpDropped(n, m) ==
    /\ m.clock = clock[n] /\ ~CampaignActive(n)
    /\ m.session # session[n]
    /\ UNCHANGED <<clock, campaigns>>

IgnoreSettled(n, m) ==
    /\ m.clock = clock[n] /\ ~CampaignActive(n)
    /\ m.session = session[n]
    /\ UNCHANGED <<clock, campaigns>>

FollowUp(n, m) ==
    /\ m.clock = clock[n] /\ ~CampaignActive(n)
    /\ m.session # session[n]
    /\ StartNewCampaignWith(n, m)

AddCandidate(n, m) ==
    /\ m.clock = clock[n] /\ CampaignActive(n)
    /\ campaigns' = [campaigns EXCEPT ![n][Len(campaigns[n])].cands = WithCandidate(@, m)]
    /\ UNCHANGED clock

ElectionReceiver(n, s) ==
    /\ chan[s][n] # <<>>
    /\ ~took[n]
    /\ LET m == Head(chan[s][n]) IN
        \/ JoinRound(n, m)
        \/ DismissOld(n, m)
        \/ IgnoreSettled(n, m)
        \/ FollowUp(n, m)
        \/ AddCandidate(n, m)
    /\ chan' = [chan EXCEPT ![s][n] = Tail(@)]
    /\ took' = [took EXCEPT ![n] = Ready(campaigns'[n])]
    /\ UNCHANGED <<session, seniority, connected, pending, worker, commands, won, scope,
                   done, linkVars>>
-----------------------------------------------------------------------------
(***************************************************************************)
(* Election._connection_receiver: the batch of all queued connection       *)
(* messages.  A peer that comes back during the grace period is sent the   *)
(* current status again; new peers start one campaign for the batch.       *)
(***************************************************************************)
OnConnectionMessage(n, st, m) ==
    LET p == m.peer IN
    IF m.up
    THEN [conn    |-> st.conn \cup {p},
          pend    |-> st.pend \ {p},
          changed |-> st.changed \/ p \notin st.conn,
          replay  |-> IF p \in st.conn /\ p \in st.pend
                      THEN Append(st.replay,
                                  ElectionStatus(n, clock[n], st.conn, st.pend \ {p}))
                      ELSE st.replay]
    ELSE [st EXCEPT !.pend = IF p \in st.conn THEN @ \cup {p} ELSE @]

ConnectionReceiver(n) ==
    LET start == [conn |-> connected[n], pend |-> pending[n], changed |-> FALSE,
                  replay |-> <<>>]
        end == FoldLeft(LAMBDA st, m : OnConnectionMessage(n, st, m), start, queued[n])
    IN
    /\ queued[n] # <<>>
    /\ queued' = [queued EXCEPT ![n] = <<>>]
    /\ connected' = [connected EXCEPT ![n] = end.conn]
    /\ pending' = [pending EXCEPT ![n] = end.pend]
    /\ chan' = Delivered(chan, n, end.replay)
    /\ \/ end.changed /\ StartNewCampaign(n)
       \/ ~end.changed /\ UNCHANGED <<clock, campaigns>>
    /\ UNCHANGED <<session, seniority, worker, commands, won, scope, done, took, links, made>>

(***************************************************************************)
(* Election._confirm_disconnect after the grace period.                    *)
(***************************************************************************)
ConfirmDisconnect(n, p) ==
    /\ p \in pending[n]
    /\ pending' = [pending EXCEPT ![n] = @ \ {p}]
    /\ connected' = [connected EXCEPT ![n] = @ \ {p}]
    /\ IF p \in connected[n] THEN StartNewCampaign(n)
                              ELSE UNCHANGED <<clock, campaigns>>
    /\ UNCHANGED <<session, seniority, worker, commands, won, scope, done, took, chan, linkVars>>

(***************************************************************************)
(* Election._watch_local_worker_mode when the configuration has changed.   *)
(***************************************************************************)
WatchLocalWorkerMode(n) ==
    /\ n \in Workers /\ made < MaxChanges
    /\ made' = made + 1
    /\ worker' = [worker EXCEPT ![n] = ~@]
    /\ StartNewCampaign(n)
    /\ UNCHANGED <<session, seniority, connected, pending, commands, won, scope, done, took, chan,
                   queued, links>>

(***************************************************************************)
(* Election._command_counter                                               *)
(***************************************************************************)
CommandCounter(n) ==
    /\ commands[n] < MaxCommands
    /\ commands' = [commands EXCEPT ![n] = @ + 1]
    /\ UNCHANGED <<clock, session, seniority, connected, pending, worker, won,
                   campaignVars, chan, linkVars>>
-----------------------------------------------------------------------------
(***************************************************************************)
(* Election._campaign.  Tasks of a node start, proceed and wake in the     *)
(* order in which they were scheduled.                                     *)
(***************************************************************************)
First(n, P(_)) ==
    {i \in DOMAIN campaigns[n] :
        P(campaigns[n][i]) /\ \A j \in 1 .. i - 1 : ~P(campaigns[n][j])}

(***************************************************************************)
(* A task has had its turn: the receiver may take its next message.        *)
(***************************************************************************)
Turn(n) == took' = [took EXCEPT ![n] = FALSE]

(***************************************************************************)
(* The task reads the clock, cancels the campaign in progress and waits    *)
(* for the latest campaign; waiting yields even if that one has ended.     *)
(***************************************************************************)
CampaignStart(n) ==
    \E i \in First(n, LAMBDA c : c.phase = "scheduled") :
        /\ campaigns' = [campaigns EXCEPT
                ![n] = [j \in DOMAIN @ |->
                    IF j = i THEN [@[j] EXCEPT !.phase = "waiting", !.clock = clock[n],
                                               !.after = done[n]]
                    ELSE IF j = scope[n] THEN [@[j] EXCEPT !.cancelled = TRUE]
                    ELSE @[j]]]
        /\ Turn(n)
        /\ UNCHANGED <<nodeVars, scope, done, chan, linkVars>>

(***************************************************************************)
(* The awaited campaign has ended: the task becomes the campaign, adds its *)
(* own status to its list, broadcasts it and sleeps.                       *)
(***************************************************************************)
CampaignProceed(n) ==
    \E i \in First(n, LAMBDA c : c.phase = "waiting" /\ c.after = 0) :
        LET status == ElectionStatus(n, campaigns[n][i].clock, connected[n], pending[n]) IN
        /\ campaigns' = [campaigns EXCEPT
                ![n][i] = [@ EXCEPT !.phase = "sleeping", !.status = status,
                                    !.cands = WithCandidate(@, status)]]
        /\ scope' = [scope EXCEPT ![n] = i]
        /\ done' = [done EXCEPT ![n] = i]
        /\ chan' = Delivered(chan, n, <<status>>)
        /\ Turn(n)
        /\ UNCHANGED <<nodeVars, linkVars>>

(***************************************************************************)
(* The sleep is over: the status is broadcast once more.  The sleep takes  *)
(* DEFAULT_ELECTION_TIMEOUT; with Timely, the network is faster than that. *)
(***************************************************************************)
CampaignWake(n) ==
    \E i \in First(n, LAMBDA c : c.phase = "sleeping") :
        /\ ~campaigns[n][i].cancelled
        /\ Timely => \A r \in Nodes : chan[n][r] = <<>>
        /\ campaigns' = [campaigns EXCEPT ![n][i].phase = "woken"]
        /\ chan' = Delivered(chan, n, <<campaigns[n][i].status>>)
        /\ Turn(n)
        /\ UNCHANGED <<nodeVars, scope, done, linkVars>>

\* Mutant: the event of the ended campaign is never set.
WithoutSetting(i, j) == IF j > i THEN j - 1 ELSE j

(***************************************************************************)
(* The finally clause: the scope is given up and the done event set.       *)
(***************************************************************************)
Without(i, j) == IF j > i THEN j - 1 ELSE IF j = i THEN 0 ELSE j

End(n, i) ==
    /\ campaigns' = [campaigns EXCEPT
            ![n] = [j \in DOMAIN RemoveAt(@, i) |->
                [RemoveAt(@, i)[j] EXCEPT !.after = Without(i, @)]]]
    /\ scope' = [scope EXCEPT ![n] = Without(i, @)]
    /\ done' = [done EXCEPT ![n] = Without(i, @)]
    /\ Turn(n)

(***************************************************************************)
(* The largest proposal is elected (Election.elect included) and the       *)
(* campaign ends.                                                          *)
(***************************************************************************)
CampaignElect(n) ==
    \E i \in First(n, LAMBDA c : c.phase = "woken") :
        LET cands == campaigns[n][i].cands
            elected == cands.best
        IN
        /\ ~campaigns[n][i].cancelled
        /\ seniority' = [seniority EXCEPT ![n] =
                IF elected.session.master = n /\ @ >= 0 /\ cands.count > @
                THEN cands.count ELSE @]
        /\ session' = [session EXCEPT ![n] = elected.session]
        /\ won' = [won EXCEPT ![n] = elected.clock]
        /\ End(n, i)
        /\ UNCHANGED <<clock, connected, pending, worker, commands, chan, linkVars>>

(***************************************************************************)
(* A cancelled campaign ends at its sleep.                                 *)
(***************************************************************************)
CampaignCancelled(n) ==
    \E i \in First(n, LAMBDA c : c.phase \in {"sleeping", "woken"} /\ c.cancelled) :
        /\ End(n, i)
        /\ UNCHANGED <<nodeVars, chan, linkVars>>
-----------------------------------------------------------------------------
(***************************************************************************)
(* The network: a link comes up or goes down, both ends are told, and a    *)
(* link that goes down loses what was in transit.                          *)
(***************************************************************************)
Tell(pair, up) ==
    [n \in Nodes |->
        IF n \in pair
        THEN Append(queued[n], [peer |-> CHOOSE p \in pair : p # n, up |-> up])
        ELSE queued[n]]

LinkUp(a, b) ==
    /\ made < MaxChanges /\ {a, b} \notin links
    /\ links' = links \cup {{a, b}}
    /\ queued' = Tell({a, b}, TRUE)
    /\ made' = made + 1
    /\ UNCHANGED <<nodeVars, campaignVars, chan>>

LinkDown(a, b) ==
    /\ made < MaxChanges /\ {a, b} \in links
    /\ links' = links \ {{a, b}}
    /\ queued' = Tell({a, b}, FALSE)
    /\ made' = made + 1
    /\ chan' = [chan EXCEPT ![a][b] = <<>>, ![b][a] = <<>>]
    /\ UNCHANGED <<nodeVars, campaignVars>>

CampaignStep(n) ==
    \/ CampaignStart(n)
    \/ CampaignProceed(n)
    \/ CampaignWake(n)
    \/ CampaignElect(n)
    \/ CampaignCancelled(n)

NodeStep(n) ==
    \/ \E s \in Nodes : ElectionReceiver(n, s)
    \/ ConnectionReceiver(n)
    \/ \E p \in Nodes : ConfirmDisconnect(n, p)
    \/ WatchLocalWorkerMode(n)
    \/ CommandCounter(n)
    \/ CampaignStep(n)

LinkStep == \E a, b \in Nodes : a < b /\ (LinkUp(a, b) \/ LinkDown(a, b))

(***************************************************************************)
(* The tasks that are ready at a node run within a few passes of its event *)
(* loop, during which nothing makes a trip over the network: steps of the  *)
(* other nodes are taken before or after.                                  *)
(***************************************************************************)
Calm(except) == \A m \in Nodes \ except : ~Ready(campaigns[m])

Next ==
    \/ \E n \in Nodes : Calm({n}) /\ NodeStep(n)
    \/ Calm({}) /\ LinkStep

Spec == Init /\ [][Next]_vars

(***************************************************************************)
(* The event loop of a node runs every task that is ready.                 *)
(***************************************************************************)
Fairness ==
    \A n \in Nodes :
        /\ WF_vars(Calm({n}) /\ CampaignStep(n))
        /\ WF_vars(Calm({n}) /\ ConnectionReceiver(n))
        /\ \A s \in Nodes : WF_vars(Calm({n}) /\ ElectionReceiver(n, s))

FairSpec == Spec /\ Fairness
-----------------------------------------------------------------------------
Campaign ==
    [phase : Phases, clock : Nat,
     cands : [best : ElectionMessage \cup {NoMessage}, count : Nat],
     status : ElectionMessage \cup {NoMessage}, cancelled : BOOLEAN, after : Nat]

(***************************************************************************)
(* Type correctness of the state of election.py.                           *)
(***************************************************************************)
TypeOK ==
    /\ clock \in [Nodes -> Nat]
    /\ session \in [Nodes -> Session]
    /\ seniority \in [Nodes -> Int]
    /\ connected \in [Nodes -> SUBSET Nodes]
    /\ pending \in [Nodes -> SUBSET Nodes]
    /\ worker \in [Nodes -> BOOLEAN]
    /\ commands \in [Nodes -> Nat]
    /\ campaigns \in [Nodes -> Seq(Campaign)]
    /\ scope \in [Nodes -> Nat]
    /\ done \in [Nodes -> Nat]
    /\ took \in [Nodes -> BOOLEAN]
    /\ won \in [Nodes -> Nat]
    /\ chan \in [Nodes -> [Nodes -> Seq(ElectionMessage)]]
    /\ queued \in [Nodes -> Seq([peer : Nodes, up : BOOLEAN])]
    /\ links \subseteq SUBSET Nodes
    /\ made \in Nat

Quiet ==
    /\ \A n \in Nodes : campaigns[n] = <<>> /\ queued[n] = <<>> /\ pending[n] = {}
    /\ \A s, r \in Nodes : chan[s][r] = <<>>

(***************************************************************************)
(* Agreement: when every pair of nodes is linked and no message, timer or  *)
(* campaign is outstanding, all nodes are in the same session, whatever    *)
(* the order in which rounds, late messages and rebroadcasts met.          *)
(***************************************************************************)
QuietAgreement ==
    Quiet /\ (\A a, b \in Nodes : Linked(a, b))
        => \A a, b \in Nodes : session[a] = session[b]

(***************************************************************************)
(* "Any master candidate will automatically win out over this node"        *)
(* (Election.__init__): a settled cluster with a candidate has a candidate *)
(* as its master.                                                          *)
(***************************************************************************)
CandidateWins ==
    Quiet /\ (\A a, b \in Nodes : Linked(a, b)) /\ Candidates # {}
        => \A n \in Nodes : session[n].master \in Candidates

(***************************************************************************)
(* A round that a node has entered ends: cancelling a campaign and waiting *)
(* for its done event never leaves the node without a result for its       *)
(* latest round.                                                           *)
(***************************************************************************)
RoundsEnd == \A n \in Nodes : clock[n] > won[n] ~> won[n] = clock[n]
=============================================================================
