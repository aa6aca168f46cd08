------------------------------- MODULE EventLog -------------------------------
(***************************************************************************)
(* How the events of a session reach every node.  A component hands an     *)
(* event to the EventRouter of its node (cai/routing/event_router.py),     *)
(* which numbers it and broadcasts it on LOCAL_EVENTS; the Master of the   *)
(* session (cai/master/main.py) resequences the events of each source,     *)
(* gives each the next index of its log and broadcasts it on               *)
(* GLOBAL_EVENTS; every EventRouter resequences those and releases them    *)
(* to the components of its node.  Lost events are repaired by the         *)
(* router's retries, by NACKs (RequestEventLog) and by the full sync a     *)
(* node asks for when its session changes (cai/main.py).                   *)
(*                                                                         *)
(* Every node starts as its own master.  Elections are the environment of  *)
(* this module: SessionTransition(n, m) is what Node._elect_loop does with *)
(* a result that names m.  A session is identified here by its master      *)
(* alone, because that is all the code compares: Master._event_processor   *)
(* and EventRouter._run_ext_in look at master_node_id and not at the       *)
(* election clock.  `inc` numbers the Master objects a node has created,   *)
(* which the program cannot see.                                           *)
(***************************************************************************)
EXTENDS OrderedBuffer, Integers, Sequences

CONSTANTS
    Nodes,      \* the nodes of the cluster
    Electable,  \* the nodes that elections name as masters
    BatchSize,  \* Master._event_log_sync_batch_size
    MaxGen,     \* bound: EventRouter objects a node creates
    MaxInc,     \* bound: Master objects a node creates
    MaxEvents,  \* bound: events all routers ingest
    MaxLosses   \* bound: messages the network loses

ASSUME EventLogAssumption ==
    /\ Electable \subseteq Nodes
    /\ BatchSize \in Nat \ {0}
    /\ MaxGen \in Nat \ {0}
    /\ MaxInc \in Nat \ {0}
    /\ MaxEvents \in Nat
    /\ MaxLosses \in Nat

VARIABLES
    \* EventRouter of node n
    gen,        \* gen[n]: which EventRouter object this is
    session,    \* session[n]: session_id.master_node_id
    sent,       \* sent[n]: idx of _ingest, events numbered so far
    out,        \* out[n]: keys of out_for_delivery
    store,      \* store[n], next[n]: buf of _run_ext_in
    next,
    released,   \* released[n]: the events sent to internal_outbound
    nack,       \* nack[n]: since_idx of the sleeping _nack_request
    \* Master of node n
    master,     \* master[n]: Node.master is not None
    logs,       \* logs[n]: the logs of all Master objects of n, oldest first
    mstore,     \* mstore[n][o], mnext[n][o]: _multi_buffer.stores[o]
    mnext,
    \* the network
    localEvents,   \* localEvents[n]: on their way to the Master of n
    globalEvents,  \* globalEvents[n]: on their way to the router of n
    requests,      \* requests[n]: RequestEventLog commands on their way to n
    ingested,   \* what the bounds count
    losses,
    failed      \* nodes whose router raised the assertion of ingest

routerVars  == <<gen, session, sent, out, store, next, released, nack>>
masterVars  == <<master, logs, mstore, mnext>>
networkVars == <<localEvents, globalEvents, requests, ingested, losses>>
vars == <<routerVars, masterVars, networkVars, failed>>

(***************************************************************************)
(* An event is named by the sender that numbered it (EventRouter.sender    *)
(* draws a fresh SystemId) and its number there.                           *)
(***************************************************************************)
Origins == Nodes \X (1 .. MaxGen)
Event == [origin : Origins, idx : Nat]
GlobalEvent == [origin : Nodes, inc : Nat, idx : Nat, event : Event]

NoNack == -1
EmptyStore == [i \in {} |-> {}]
Origin(n) == <<n, gen[n]>>
Inc(m) == Len(logs[m])
Log(m) == logs[m][Inc(m)]

(***************************************************************************)
(* Node.create: every node starts with a Master and a router of its own.   *)
(***************************************************************************)
Init ==
    /\ gen = [n \in Nodes |-> 1]
    /\ session = [n \in Nodes |-> n]
    /\ sent = [n \in Nodes |-> 0]
    /\ out = [n \in Nodes |-> {}]
    /\ store = [n \in Nodes |-> EmptyStore]
    /\ next = [n \in Nodes |-> 0]
    /\ released = [n \in Nodes |-> <<>>]
    /\ nack = [n \in Nodes |-> NoNack]
    /\ master = [n \in Nodes |-> TRUE]
    /\ logs = [n \in Nodes |-> << <<>> >>]
    /\ mstore = [n \in Nodes |-> [o \in Origins |-> EmptyStore]]
    /\ mnext = [n \in Nodes |-> [o \in Origins |-> 0]]
    /\ localEvents = [n \in Nodes |-> {}]
    /\ globalEvents = [n \in Nodes |-> {}]
    /\ requests = [n \in Nodes |-> {}]
    /\ ingested = 0
    /\ losses = 0
    /\ failed = {}
-----------------------------------------------------------------------------
(***************************************************************************)
(* Publication on a topic (Router, TopicRouter): a message reaches the     *)
(* receivers that exist; Master objects receive LOCAL_EVENTS and COMMANDS, *)
(* every router receives GLOBAL_EVENTS.  A Master drops the events of      *)
(* sessions of other masters when it receives them; neither side of that   *)
(* comparison ever changes, so here they never reach it.                   *)
(***************************************************************************)
OwnSession(m, s) == m = s

PublishLocal(s, e) ==
    localEvents' = [m \in Nodes |->
        IF master[m] /\ OwnSession(m, s) THEN localEvents[m] \cup {e} ELSE localEvents[m]]

PublishGlobal(gs) ==
    globalEvents' = [n \in Nodes |-> globalEvents[n] \cup gs]

Masters == {m \in Nodes : master[m]}

PublishRequest(since, to) ==
    requests' = [m \in Nodes |->
        IF m \in to THEN requests[m] \cup {since} ELSE requests[m]]

LocalForwarderEvent(n, i) == [origin |-> Origin(n), idx |-> i]

(***************************************************************************)
(* EventRouter._ingest: number the event, broadcast it, remember it until  *)
(* the master's broadcast of it is seen.                                   *)
(***************************************************************************)
IngestEvent(n) ==
    /\ n \notin failed
    /\ ingested < MaxEvents
    /\ ingested' = ingested + 1
    /\ sent' = [sent EXCEPT ![n] = @ + 1]
    /\ PublishLocal(session[n], LocalForwarderEvent(n, sent[n]))
    /\ out' = [out EXCEPT ![n] = @ \cup {sent[n]}]
    /\ UNCHANGED <<gen, session, store, next, released, nack>>
    /\ UNCHANGED <<masterVars, globalEvents, requests, losses, failed>>

\* Mutant: the retry numbers the event anew.
SimpleRetryRenumbered(n, i) ==
    /\ n \notin failed
    /\ i \in out[n]
    /\ PublishLocal(session[n], LocalForwarderEvent(n, i + 1))
    /\ UNCHANGED <<routerVars, masterVars, globalEvents, requests, ingested, losses, failed>>

(***************************************************************************)
(* EventRouter._simple_retry: broadcast again an event that was not seen   *)
(* back within five seconds.                                               *)
(***************************************************************************)
SimpleRetry(n, i) ==
    /\ n \notin failed
    /\ i \in out[n]
    /\ PublishLocal(session[n], LocalForwarderEvent(n, i))
    /\ UNCHANGED <<routerVars, masterVars, globalEvents, requests, ingested, losses, failed>>
-----------------------------------------------------------------------------
(***************************************************************************)
(* Master._send_event                                                      *)
(***************************************************************************)
GlobalForwarderEvent(m, log, i) ==
    [origin |-> m, inc |-> Inc(m), idx |-> i, event |-> log[i + 1]]

GlobalRange(m, log, from, to) ==
    {GlobalForwarderEvent(m, log, i) : i \in from .. to - 1}

\* Mutant: events are logged in the order in which they arrive.
ProcessLocalEventUnordered(m, e) ==
    LET log == Append(Log(m), e) IN
    /\ master[m]
    /\ e \in localEvents[m]
    /\ localEvents' = [localEvents EXCEPT ![m] = @ \ {e}]
    /\ logs' = [logs EXCEPT ![m][Inc(m)] = log]
    /\ PublishGlobal(GlobalRange(m, log, Len(Log(m)), Len(log)))
    /\ UNCHANGED <<routerVars, master, mstore, mnext, requests, ingested, losses, failed>>

(***************************************************************************)
(* Master._event_processor: the events of each source are resequenced, and *)
(* whatever becomes available is appended to the log and broadcast under   *)
(* its index.                                                              *)
(***************************************************************************)
ProcessLocalEvent(m, e) ==
    LET o == e.origin
        filled == Ingest(mstore[m][o], mnext[m][o], e.idx, e)
    IN
    /\ master[m]
    /\ e \in localEvents[m]
    /\ localEvents' = [localEvents EXCEPT ![m] = @ \ {e}]
    /\ \E k \in DrainRange(filled, mnext[m][o]) :
        LET log == Log(m) \o Drained(filled, mnext[m][o], k) IN
        /\ DrainStops(filled, mnext[m][o], k)
        /\ mstore' = [mstore EXCEPT ![m][o] = Remaining(filled, mnext[m][o], k)]
        /\ mnext' = [mnext EXCEPT ![m][o] = k]
        /\ logs' = [logs EXCEPT ![m][Inc(m)] = log]
        /\ PublishGlobal(GlobalRange(m, log, Len(Log(m)), Len(log)))
    /\ UNCHANGED <<routerVars, master, requests, ingested, losses, failed>>

Smaller(x, y) == IF x < y THEN x ELSE y

\* Mutant: enumerate starts one too high, so events move up an index.
ReplayedOffByOne(m, since) ==
    {[g EXCEPT !.idx = @ + 1] : g \in
        GlobalRange(m, Log(m), since, Smaller(since + BatchSize, Len(Log(m))))}

(***************************************************************************)
(* Master._command_processor, case RequestEventLog: replay one batch of    *)
(* the log, each event under its index.                                    *)
(***************************************************************************)
Replayed(m, since) ==
    GlobalRange(m, Log(m), since, Smaller(since + BatchSize, Len(Log(m))))

ReplayEventLog(m) ==
    /\ master[m]
    /\ \E since \in requests[m] :
        /\ requests' = [requests EXCEPT ![m] = @ \ {since}]
        /\ PublishGlobal(Replayed(m, since))
    /\ UNCHANGED <<routerVars, masterVars, localEvents, ingested, losses, failed>>
-----------------------------------------------------------------------------
\* Mutant: an event is recognised by node and number, whichever router sent it.
AcknowledgedByNumber(n, g) ==
    IF g.event.origin[1] = n THEN {g.event.idx} ELSE {}

\* Mutant: the index after the missing one is requested.
NackAfterMissing(n, k) ==
    IF k > next[n] THEN NoNack
    ELSE IF nack[n] = NoNack THEN next[n] + 1 ELSE nack[n]

\* Mutant: the request reaches back two indices.
NackTwoBefore(n, k) ==
    IF k > next[n] THEN NoNack
    ELSE IF nack[n] = NoNack THEN next[n] - 2 ELSE nack[n]

(***************************************************************************)
(* EventRouter._run_ext_in for one message.  Messages of other masters are *)
(* dropped.  Otherwise the event is buffered and is no longer out for      *)
(* delivery; what the buffer releases goes to the components; a release    *)
(* cancels the sleeping NACK, and a message that releases nothing starts   *)
(* one unless one is sleeping.                                             *)
(***************************************************************************)
Accepts(n, g) == g.origin = session[n]

Acknowledged(n, g) ==
    IF g.event.origin = Origin(n) THEN {g.event.idx} ELSE {}

NackAfter(n, k) ==
    IF k > next[n] THEN NoNack
    ELSE IF nack[n] = NoNack THEN next[n] ELSE nack[n]

Drop(n, g) ==
    /\ ~Accepts(n, g)
    /\ UNCHANGED <<routerVars, failed>>

FailAssertion(n, g) ==
    /\ Accepts(n, g)
    /\ Conflicts(store[n], next[n], g.idx, g.event)
    /\ failed' = failed \cup {n}
    /\ UNCHANGED routerVars

Accept(n, g) ==
    LET filled == Ingest(store[n], next[n], g.idx, g.event) IN
    /\ Accepts(n, g)
    /\ ~Conflicts(store[n], next[n], g.idx, g.event)
    /\ \E k \in DrainRange(filled, next[n]) :
        /\ DrainStops(filled, next[n], k)
        /\ store' = [store EXCEPT ![n] = Remaining(filled, next[n], k)]
        /\ next' = [next EXCEPT ![n] = k]
        /\ released' = [released EXCEPT ![n] = @ \o Drained(filled, next[n], k)]
        /\ nack' = [nack EXCEPT ![n] = NackAfter(n, k)]
    /\ out' = [out EXCEPT ![n] = @ \ Acknowledged(n, g)]
    /\ UNCHANGED <<gen, session, sent, failed>>

ReceiveGlobal(n, g) ==
    /\ n \notin failed
    /\ g \in globalEvents[n]
    /\ globalEvents' = [globalEvents EXCEPT ![n] = @ \ {g}]
    /\ Drop(n, g) \/ FailAssertion(n, g) \/ Accept(n, g)
    /\ UNCHANGED <<masterVars, localEvents, requests, ingested, losses>>

(***************************************************************************)
(* EventRouter._nack_request after its delay: ask for the log from the     *)
(* index that was missing when it was started.                             *)
(***************************************************************************)
NackRequest(n) ==
    /\ n \notin failed
    /\ nack[n] # NoNack
    /\ nack' = [nack EXCEPT ![n] = NoNack]
    /\ PublishRequest(nack[n], Masters)
    /\ UNCHANGED <<gen, session, sent, out, store, next, released>>
    /\ UNCHANGED <<masterVars, localEvents, globalEvents, ingested, losses, failed>>
-----------------------------------------------------------------------------
\* Mutant: the new router goes on with the buffer of the old one.
NewEventRouterOldBuffer(n, m) ==
    /\ gen' = [gen EXCEPT ![n] = @ + 1]
    /\ session' = [session EXCEPT ![n] = m]
    /\ sent' = [sent EXCEPT ![n] = 0]
    /\ out' = [out EXCEPT ![n] = {}]
    /\ released' = [released EXCEPT ![n] = <<>>]
    /\ nack' = [nack EXCEPT ![n] = NoNack]
    /\ UNCHANGED <<store, next>>

(***************************************************************************)
(* A fresh EventRouter for node n and the session of m.                    *)
(***************************************************************************)
NewEventRouter(n, m) ==
    /\ gen' = [gen EXCEPT ![n] = @ + 1]
    /\ session' = [session EXCEPT ![n] = m]
    /\ sent' = [sent EXCEPT ![n] = 0]
    /\ out' = [out EXCEPT ![n] = {}]
    /\ store' = [store EXCEPT ![n] = EmptyStore]
    /\ next' = [next EXCEPT ![n] = 0]
    /\ released' = [released EXCEPT ![n] = <<>>]
    /\ nack' = [nack EXCEPT ![n] = NoNack]

NewMaster(n) ==
    /\ Inc(n) < MaxInc
    /\ logs' = [logs EXCEPT ![n] = Append(@, <<>>)]
    /\ mstore' = [mstore EXCEPT ![n] = [o \in Origins |-> EmptyStore]]
    /\ mnext' = [mnext EXCEPT ![n] = [o \in Origins |-> 0]]

(***************************************************************************)
(* Node._elect_loop for a result whose session differs from the router's   *)
(* and names m: the router is replaced, n's Master is created, kept or     *)
(* shut down, and a node with a remote master asks for the whole log.  A   *)
(* session of the same master with another clock is such a result too.     *)
(***************************************************************************)
SessionTransition(n, m) ==
    /\ n \notin failed
    /\ gen[n] < MaxGen
    /\ NewEventRouter(n, m)
    /\ master' = [master EXCEPT ![n] = (m = n)]
    /\ \/ m = n /\ ~master[n] /\ NewMaster(n)
       \/ ~(m = n /\ ~master[n]) /\ UNCHANGED <<logs, mstore, mnext>>
    /\ \/ m = n /\ UNCHANGED requests
       \/ m # n /\ PublishRequest(0, Masters \ {n})
    /\ UNCHANGED <<localEvents, globalEvents, ingested, losses, failed>>

(***************************************************************************)
(* The process of node n dies and is started again: Node.create with an    *)
(* empty DiskEventLog, the old file having been rotated away.              *)
(***************************************************************************)
Restart(n) ==
    /\ gen[n] < MaxGen
    /\ NewEventRouter(n, n)
    /\ NewMaster(n)
    /\ master' = [master EXCEPT ![n] = TRUE]
    /\ failed' = failed \ {n}
    /\ UNCHANGED networkVars

(***************************************************************************)
(* The network loses a message (NoPeersSubscribedToTopicError,             *)
(* MessageTooLargeError, a full queue of a peer).                          *)
(***************************************************************************)
Lose(n) ==
    /\ losses < MaxLosses
    /\ losses' = losses + 1
    /\ \/ /\ \E e \in localEvents[n] :
                localEvents' = [localEvents EXCEPT ![n] = @ \ {e}]
          /\ UNCHANGED <<globalEvents, requests>>
       \/ /\ \E g \in globalEvents[n] :
                globalEvents' = [globalEvents EXCEPT ![n] = @ \ {g}]
          /\ UNCHANGED <<localEvents, requests>>
       \/ /\ \E s \in requests[n] :
                requests' = [requests EXCEPT ![n] = @ \ {s}]
          /\ UNCHANGED <<localEvents, globalEvents>>
    /\ UNCHANGED <<routerVars, masterVars, ingested, failed>>

Next ==
    \E n \in Nodes :
        \/ IngestEvent(n)
        \/ \E i \in out[n] : SimpleRetry(n, i)
        \/ \E e \in localEvents[n] : ProcessLocalEvent(n, e)
        \/ ReplayEventLog(n)
        \/ \E g \in globalEvents[n] : ReceiveGlobal(n, g)
        \/ NackRequest(n)
        \/ \E m \in Electable : SessionTransition(n, m)
        \/ Restart(n)
        \/ Lose(n)

Spec == Init /\ [][Next]_vars

(***************************************************************************)
(* The fairness of the event loop and of a network that loses only         *)
(* finitely many messages: each queued message is received (the channels   *)
(* are FIFO), a command is served, a sleeping NACK wakes up and an event   *)
(* that stays out for delivery is sent again.                              *)
(***************************************************************************)
ReceiveIndex(n, m, i) ==
    \E g \in globalEvents[n] : g.origin = m /\ g.idx = i /\ ReceiveGlobal(n, g)

RetryFairness ==
    \A n \in Nodes, i \in 0 .. MaxEvents - 1 :
        /\ WF_vars(SimpleRetry(n, i))
        /\ \A o \in Origins : WF_vars(ProcessLocalEvent(n, [origin |-> o, idx |-> i]))

NackFairness ==
    \A n \in Nodes :
        /\ WF_vars(ReplayEventLog(n))
        /\ WF_vars(NackRequest(n))
        /\ \A m \in Nodes, i \in 0 .. MaxEvents - 1 : WF_vars(ReceiveIndex(n, m, i))

RetrySpec == Spec /\ RetryFairness
NackSpec  == Spec /\ NackFairness
-----------------------------------------------------------------------------
(***************************************************************************)
(* The variables have their types.                                         *)
(***************************************************************************)
IsStore(s) == DOMAIN s \subseteq Nat /\ \A i \in DOMAIN s : s[i] \in Event

TypeOK ==
    /\ gen \in [Nodes -> 1 .. MaxGen]
    /\ session \in [Nodes -> Nodes]
    /\ sent \in [Nodes -> Nat]
    /\ out \in [Nodes -> SUBSET Nat]
    /\ next \in [Nodes -> Nat]
    /\ released \in [Nodes -> Seq(Event)]
    /\ nack \in [Nodes -> Nat \cup {NoNack}]
    /\ master \in [Nodes -> BOOLEAN]
    /\ logs \in [Nodes -> Seq(Seq(Event))]
    /\ \A n \in Nodes : Inc(n) \in 1 .. MaxInc
    /\ mnext \in [Nodes -> [Origins -> Nat]]
    /\ localEvents \in [Nodes -> SUBSET Event]
    /\ globalEvents \in [Nodes -> SUBSET GlobalEvent]
    /\ requests \in [Nodes -> SUBSET Nat]
    /\ ingested \in 0 .. MaxEvents
    /\ losses \in 0 .. MaxLosses
    /\ failed \subseteq Nodes
    /\ DOMAIN store = Nodes
    /\ \A n \in Nodes : IsStore(store[n])
    /\ DOMAIN mstore = Nodes
    /\ \A n \in Nodes : DOMAIN mstore[n] = Origins
    /\ \A n \in Nodes, o \in Origins : IsStore(mstore[n][o])

(***************************************************************************)
(* What a router released under an index is what some Master object of its *)
(* session's master logged under that index: loss, reordering and replays  *)
(* never put an event in another place of the sequence (_run_ext_in).      *)
(***************************************************************************)
LoggedAt(m, i, e) ==
    \E k \in 1 .. Inc(m) : i \in 1 .. Len(logs[m][k]) /\ logs[m][k][i] = e

ReleasedWasLogged ==
    \A n \in Nodes : \A i \in 1 .. Len(released[n]) :
        LoggedAt(session[n], i, released[n][i])

(***************************************************************************)
(* What makes that inductive: every broadcast on its way, and every event  *)
(* that waits in a buffer, is in a log under the index it carries, and a   *)
(* router has released as many events as its buffer has handed out.        *)
(***************************************************************************)
WasLogged(g) ==
    /\ g.inc \in 1 .. Inc(g.origin)
    /\ g.idx + 1 \in 1 .. Len(logs[g.origin][g.inc])
    /\ logs[g.origin][g.inc][g.idx + 1] = g.event

MessagesWereLogged == \A n \in Nodes : \A g \in globalEvents[n] : WasLogged(g)

StoredWasLogged ==
    \A n \in Nodes : \A i \in DOMAIN store[n] :
        i >= next[n] /\ LoggedAt(session[n], i + 1, store[n][i])

ReleasedCount == \A n \in Nodes : Len(released[n]) = next[n]

RouterInv ==
    /\ TypeOK
    /\ MessagesWereLogged
    /\ StoredWasLogged
    /\ ReleasedCount
    /\ ReleasedWasLogged

(***************************************************************************)
(* While the master of a session has created one Master object, what each  *)
(* of its routers has released is a prefix of that Master's log.           *)
(***************************************************************************)
IsPrefixOf(s, t) == Len(s) <= Len(t) /\ \A i \in 1 .. Len(s) : s[i] = t[i]

ReleasedIsPrefix ==
    \A n \in Nodes : Inc(session[n]) = 1 =>
        IsPrefixOf(released[n], logs[session[n]][1])

(***************************************************************************)
(* The assertion of OrderedBuffer.ingest can only fail for a router whose  *)
(* master has created a second Master object: a single log never gives two *)
(* events the same index.                                                  *)
(***************************************************************************)
ConflictNeedsTwoMasters == \A n \in failed : Inc(session[n]) > 1

(***************************************************************************)
(* The assertion as it stands in OrderedBuffer.ingest: "Received different *)
(* messages with identical indices, probable race condition" never occurs. *)
(***************************************************************************)
NoConflictingIndices == failed = {}

(***************************************************************************)
(* A log holds the events of each sender in the order they were numbered,  *)
(* from the first, without a gap and without a duplicate: retries are      *)
(* absorbed by _multi_buffer (_event_processor).                           *)
(***************************************************************************)
InSenderOrder(log) ==
    \A j \in 1 .. Len(log) :
        /\ \A c \in 0 .. log[j].idx - 1 : \E i \in 1 .. j - 1 :
                log[i] = [origin |-> log[j].origin, idx |-> c]
        /\ \A i \in 1 .. j - 1 : log[i] # log[j]

SenderOrder == \A m \in Nodes : \A k \in 1 .. Inc(m) : InSenderOrder(logs[m][k])

(***************************************************************************)
(* An event handed to a router is still out for delivery, and so will be   *)
(* sent again, or is in a log of the master of the router's session:       *)
(* out_for_delivery forgets no event before it is logged.                  *)
(***************************************************************************)
InSomeLog(m, e) ==
    \E k \in 1 .. Inc(m) : \E j \in 1 .. Len(logs[m][k]) : logs[m][k][j] = e

NothingForgotten ==
    \A n \in Nodes : \A i \in 0 .. sent[n] - 1 :
        i \in out[n] \/ InSomeLog(session[n], LocalForwarderEvent(n, i))

(***************************************************************************)
(* No event stays out for delivery for ever without being logged by the    *)
(* Master of its router's session, however often its messages are lost     *)
(* (_simple_retry, _event_processor).  The Master is the first its node    *)
(* creates: a second one waits for the sender's event 0, which the sender  *)
(* no longer sends once the first one has logged it.                       *)
(***************************************************************************)
LoggedBy(n, i) ==
    \E j \in 1 .. Len(Log(session[n])) :
        Log(session[n])[j] = [origin |-> Origin(n), idx |-> i]

OutIsLogged ==
    \A n \in Nodes, i \in 0 .. MaxEvents - 1 :
        ~<>[](/\ i \in out[n] /\ ~LoggedBy(n, i)
              /\ master[session[n]] /\ Inc(session[n]) = 1)

(***************************************************************************)
(* A router that has noticed that an index of its master's log is missing  *)
(* does not stay behind it for ever: the NACK it sends is answered by a    *)
(* replay that contains the index, if the network does not lose them       *)
(* (_nack_request, RequestEventLog).                                       *)
(***************************************************************************)
NackFor(n, i) ==
    /\ nack[n] = i
    /\ master[session[n]]
    /\ i < Len(Log(session[n]))

NackRepairs ==
    \A n \in Nodes, g \in 1 .. MaxGen, i \in 0 .. MaxEvents - 1 :
        (gen[n] = g /\ NackFor(n, i))
            ~> (gen[n] # g \/ next[n] > i \/ ~master[session[n]])

(***************************************************************************)
(* While no node creates a second Master object, routers and masters keep  *)
(* the promise of OrderedLog: loss, reordering, retries, NACKs and replays *)
(* are invisible to the components (_run_ext_in, _event_processor).        *)
(***************************************************************************)
Abstract == INSTANCE OrderedLog WITH
    Events  <- Event,
    log     <- [m \in Nodes |-> logs[m][1]],
    follows <- session,
    seen    <- released

ImplementsOrderedLog == Abstract!Spec
=============================================================================
