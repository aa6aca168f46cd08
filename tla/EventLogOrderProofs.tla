-------------------------- MODULE EventLogOrderProofs --------------------------
(***************************************************************************)
(* Proofs about EventLog for every set of nodes and every bound: that no   *)
(* event is forgotten, that the log of a Master keeps the order of every   *)
(* sender, and that the network implements OrderedLog.                     *)
(***************************************************************************)
EXTENDS EventLogProofs
-----------------------------------------------------------------------------
(***************************************************************************)
(* How a step can change the numbering of a router and what it has out for *)
(* delivery: by numbering one more event, by accepting a broadcast, or by  *)
(* being replaced.                                                         *)
(***************************************************************************)
LEMMA DeliverySteps ==
    ASSUME TypeOK, [Next]_vars
    PROVE  \/ UNCHANGED <<gen, session, sent, out>>
           \/ \E n \in Nodes : IngestEvent(n)
           \/ \E n \in Nodes : \E g \in globalEvents[n] : Accept(n, g)
           \/ \E n \in Nodes : \E m \in Nodes : NewEventRouter(n, m)
<1>1. CASE UNCHANGED vars
  BY <1>1 DEF vars, routerVars
<1>2. CASE Next
  <2>1. PICK n \in Nodes :
          \/ IngestEvent(n)
          \/ \E i \in out[n] : SimpleRetry(n, i)
          \/ \E e \in localEvents[n] : ProcessLocalEvent(n, e)
          \/ ReplayEventLog(n)
          \/ \E g \in globalEvents[n] : ReceiveGlobal(n, g)
          \/ NackRequest(n)
          \/ \E m \in Electable : SessionTransition(n, m)
          \/ Restart(n)
          \/ Lose(n)
    BY <1>2, Zenon DEF Next
  <2>2. CASE IngestEvent(n)
    BY <2>2
  <2>3. CASE \E i \in out[n] : SimpleRetry(n, i)
    BY <2>3 DEF SimpleRetry, routerVars
  <2>4. CASE \E e \in localEvents[n] : ProcessLocalEvent(n, e)
    BY <2>4, Zenon DEF ProcessLocalEvent, routerVars
  <2>5. CASE ReplayEventLog(n)
    BY <2>5, Zenon DEF ReplayEventLog, routerVars
  <2>6. CASE \E g \in globalEvents[n] : ReceiveGlobal(n, g)
    BY <2>6, Zenon DEF ReceiveGlobal, Drop, FailAssertion, routerVars
  <2>7. CASE NackRequest(n)
    BY <2>7, Zenon DEF NackRequest
  <2>8. CASE \E m \in Electable : SessionTransition(n, m)
    BY <2>8, EventLogAssumption DEF SessionTransition
  <2>9. CASE Restart(n)
    BY <2>9 DEF Restart
  <2>10. CASE Lose(n)
    BY <2>10 DEF Lose, routerVars
  <2> QED BY <2>1, <2>2, <2>3, <2>4, <2>5, <2>6, <2>7, <2>8, <2>9, <2>10, Zenon
<1> QED BY <1>1, <1>2

(***************************************************************************)
(* An event that is in a log stays in it.                                  *)
(***************************************************************************)
LEMMA InSomeLogGrows ==
    ASSUME LogsGrow, NEW m \in Nodes, NEW e, logs[m] \in Seq(Seq(Event)), InSomeLog(m, e)
    PROVE  \E k \in 1 .. Len(logs'[m]) : \E j \in 1 .. Len(logs'[m][k]) : logs'[m][k][j] = e
<1>1. PICK k \in 1 .. Len(logs[m]) : \E j \in 1 .. Len(logs[m][k]) : logs[m][k][j] = e
  BY DEF InSomeLog, Inc
<1>2. PICK j \in 1 .. Len(logs[m][k]) : logs[m][k][j] = e
  BY <1>1
<1>3. j \in Nat /\ LoggedAt(m, j, e)
  <2>1. Len(logs[m][k]) \in Nat
    BY DEF LogsGrow
  <2> QED BY <1>2, <2>1 DEF LoggedAt, Inc
<1>4. LoggedAt(m, j, e)'
  BY <1>3, LoggedAtGrows
<1> QED BY <1>4 DEF LoggedAt, Inc

(***************************************************************************)
(* out_for_delivery forgets no event before it is logged, so every event   *)
(* handed to a router is sent again until it is in a log.                  *)
(***************************************************************************)
THEOREM NothingForgottenCorrect == Spec => []NothingForgotten
<1>1. Init => NothingForgotten
  BY DEF Init, NothingForgotten
<1>2. RouterInv /\ NothingForgotten /\ [Next]_vars => NothingForgotten'
  <2> DEFINE Named(n, i) == [origin |-> <<n, gen[n]>>, idx |-> i]
             Named1(n, i) == [origin |-> <<n, gen'[n]>>, idx |-> i]
             InNow(m, e) == \E k \in 1 .. Len(logs'[m]) : \E j \in 1 .. Len(logs'[m][k]) : logs'[m][k][j] = e
  <2> SUFFICES ASSUME RouterInv, NothingForgotten, [Next]_vars,
                      NEW n \in Nodes, NEW i \in 0 .. sent'[n] - 1, i \notin out'[n]
               PROVE  InNow(session'[n], Named1(n, i))
    BY DEF NothingForgotten, InSomeLog, Inc, LocalForwarderEvent, Origin
  <2>1. TypeOK /\ TypeOK' /\ LogsGrow
    BY TypeStep, GrowStep DEF RouterInv
  <2>2. /\ sent[n] \in Nat /\ sent'[n] \in Nat
        /\ session[n] \in Nodes
        /\ logs[session[n]] \in Seq(Seq(Event))
        /\ DOMAIN sent = Nodes /\ DOMAIN out = Nodes /\ DOMAIN session = Nodes /\ DOMAIN gen = Nodes
    BY <2>1, Zenon DEF TypeOK
  <2>3. ASSUME InSomeLog(session[n], Named(n, i)), session'[n] = session[n], gen'[n] = gen[n]
        PROVE  InNow(session'[n], Named1(n, i))
    <3>1. InNow(session[n], Named(n, i))
      BY <2>1, <2>2, <2>3, InSomeLogGrows
    <3> QED BY <2>3, <3>1, Zenon
  <2>4. ASSUME i \in 0 .. sent[n] - 1, i \notin out[n]
        PROVE  InSomeLog(session[n], Named(n, i))
    BY <2>4 DEF NothingForgotten, LocalForwarderEvent, Origin
  <2> HIDE DEF InNow, Named, Named1
  <2>5. CASE UNCHANGED <<gen, session, sent, out>>
    BY <2>3, <2>4, <2>5, Zenon
  <2>6. CASE \E p \in Nodes : IngestEvent(p)
    <3>1. PICK p \in Nodes : /\ sent' = [sent EXCEPT ![p] = @ + 1]
                              /\ out' = [out EXCEPT ![p] = @ \cup {sent[p]}]
                              /\ UNCHANGED <<gen, session>>
      BY <2>6, Zenon DEF IngestEvent
    <3>2. i \in 0 .. sent[n] - 1 /\ i \notin out[n]
      BY <2>2, <3>1
    <3> QED BY <2>3, <2>4, <3>1, <3>2, Zenon
  <2>7. CASE \E p \in Nodes : \E g \in globalEvents[p] : Accept(p, g)
    <3>1. PICK p \in Nodes : \E g \in globalEvents[p] : Accept(p, g)
      BY <2>7
    <3>2. PICK g \in globalEvents[p] : Accept(p, g)
      BY <3>1
    <3>3. /\ out' = [out EXCEPT ![p] = @ \ Acknowledged(p, g)]
          /\ UNCHANGED <<gen, session, sent>>
          /\ g.origin = session[p]
      BY <3>2, Zenon DEF Accept, Accepts
    <3>4. CASE i \in out[n]
      <4>1. p = n /\ i \in Acknowledged(n, g)
        BY <2>2, <3>3, <3>4, Zenon
      <4>2. g.event.origin = <<n, gen[n]>> /\ g.event.idx = i
        BY <4>1 DEF Acknowledged, Origin
      <4>3. g \in GlobalEvent
        BY <2>1, <3>2, Zenon DEF TypeOK
      <4>4. g.event \in Event
        BY <4>3 DEF GlobalEvent
      <4>5. g.event = Named(n, i)
        BY <4>2, <4>4 DEF Event, Named
      <4>6. InSomeLog(session[n], g.event)
        BY <3>3, <4>1 DEF RouterInv, MessagesWereLogged, WasLogged, InSomeLog
      <4> QED BY <2>3, <3>3, <4>5, <4>6, Zenon
    <3> QED BY <2>3, <2>4, <3>3, <3>4, Zenon
  <2>8. CASE \E p \in Nodes : \E m \in Nodes : NewEventRouter(p, m)
    <3>1. PICK p \in Nodes : \E m \in Nodes : NewEventRouter(p, m)
      BY <2>8
    <3>2. /\ sent' = [sent EXCEPT ![p] = 0]
          /\ out' = [out EXCEPT ![p] = {}]
          /\ \E m \in Nodes : session' = [session EXCEPT ![p] = m]
          /\ gen' = [gen EXCEPT ![p] = @ + 1]
      BY <3>1, Zenon DEF NewEventRouter
    <3>3. p # n /\ sent'[n] = sent[n] /\ out'[n] = out[n] /\ session'[n] = session[n] /\ gen'[n] = gen[n]
      BY <2>2, <3>2
    <3> QED BY <2>3, <2>4, <3>3
  <2> QED BY <2>1, <2>5, <2>6, <2>7, <2>8, DeliverySteps, Zenon
<1> QED BY <1>1, <1>2, RouterInvariant, PTL DEF Spec
-----------------------------------------------------------------------------
(***************************************************************************)
(* A step of the network as a component sees it, when no node creates a    *)
(* second Master object.                                                   *)
(***************************************************************************)
LEMMA VisibleSteps ==
    ASSUME TypeOK, MaxInc = 1, [Next]_vars
    PROVE  \/ UNCHANGED <<logs, session, released>>
           \/ \E n \in Nodes : \E e \in localEvents[n] : ProcessLocalEvent(n, e)
           \/ \E n \in Nodes : \E g \in globalEvents[n] : Accept(n, g) /\ UNCHANGED logs
           \/ \E n \in Nodes : \E m \in Nodes : NewEventRouter(n, m) /\ UNCHANGED logs
<1>1. CASE UNCHANGED vars
  BY <1>1 DEF vars, routerVars, masterVars
<1>2. CASE Next
  <2>0. \A p \in Nodes : ~NewMaster(p)
    BY DEF NewMaster, TypeOK
  <2>1. PICK n \in Nodes :
          \/ IngestEvent(n)
          \/ \E i \in out[n] : SimpleRetry(n, i)
          \/ \E e \in localEvents[n] : ProcessLocalEvent(n, e)
          \/ ReplayEventLog(n)
          \/ \E g \in globalEvents[n] : ReceiveGlobal(n, g)
          \/ NackRequest(n)
          \/ \E m \in Electable : SessionTransition(n, m)
          \/ Restart(n)
          \/ Lose(n)
    BY <1>2, Zenon DEF Next
  <2>2. CASE IngestEvent(n)
    BY <2>2 DEF IngestEvent, masterVars
  <2>3. CASE \E i \in out[n] : SimpleRetry(n, i)
    BY <2>3, Zenon DEF SimpleRetry, routerVars, masterVars
  <2>4. CASE \E e \in localEvents[n] : ProcessLocalEvent(n, e)
    BY <2>4
  <2>5. CASE ReplayEventLog(n)
    BY <2>5 DEF ReplayEventLog, routerVars, masterVars
  <2>6. CASE \E g \in globalEvents[n] : ReceiveGlobal(n, g)
    BY <2>6 DEF ReceiveGlobal, Drop, FailAssertion, routerVars, masterVars
  <2>7. CASE NackRequest(n)
    BY <2>7, Zenon DEF NackRequest, masterVars
  <2>8. CASE \E m \in Electable : SessionTransition(n, m)
    BY <2>0, <2>8, EventLogAssumption DEF SessionTransition
  <2>9. CASE Restart(n)
    BY <2>0, <2>9 DEF Restart
  <2>10. CASE Lose(n)
    BY <2>10 DEF Lose, routerVars, masterVars
  <2> QED BY <2>1, <2>2, <2>3, <2>4, <2>5, <2>6, <2>7, <2>8, <2>9, <2>10, Zenon
<1> QED BY <1>1, <1>2

\* Without a restart of the master object every node has one log.
LEMMA OneLog ==
    ASSUME TypeOK, MaxInc = 1, NEW q \in Nodes
    PROVE  Inc(q) = 1 /\ Len(logs[q]) = 1 /\ logs[q][1] \in Seq(Event)
<1>1. logs[q] \in Seq(Seq(Event)) /\ Inc(q) \in 1 .. MaxInc
  BY DEF TypeOK
<1>2. Inc(q) \in 1 .. 1
  BY <1>1
<1>3. Inc(q) = 1
  BY <1>2
<1>4. Len(logs[q]) = 1
  BY <1>3 DEF Inc
<1> QED
  BY <1>1, <1>3, <1>4

(***************************************************************************)
(* What _event_processor appends is an Order step of OrderedLog.           *)
(***************************************************************************)
LEMMA ProcessIsOrder ==
    ASSUME TypeOK, TypeOK', MaxInc = 1, NEW m \in Nodes, NEW e \in localEvents[m], ProcessLocalEvent(m, e)
    PROVE  Abstract!Order(m)
<1>1. PICK es \in Seq(Event) : logs' = [logs EXCEPT ![m][Inc(m)] = Log(m) \o es]
  BY ProcessFacts
<1>2. \A q \in Nodes : Len(logs[q]) = 1
  BY OneLog
<1>3. /\ logs[m][1] \in Seq(Event) /\ logs'[m][1] = logs[m][1] \o es
      /\ \A q \in Nodes : q # m => logs'[q][1] = logs[q][1]
  <2>1. Inc(m) = 1 /\ Log(m) = logs[m][1]
    BY <1>2 DEF Inc, Log
  <2>2. /\ Log(m) \in Seq(Event) /\ logs'[m][Inc(m)] = Log(m) \o es
        /\ \A q \in Nodes : \A k \in 1 .. Len(logs[q]) :
              (q # m \/ k # Inc(m)) => logs'[q][k] = logs[q][k]
    BY <1>1, AppendFacts, Zenon
  <2>3. logs[m][1] \in Seq(Event) /\ logs'[m][1] = logs[m][1] \o es
    BY <2>1, <2>2, Zenon
  <2>4. ASSUME NEW q \in Nodes, q # m PROVE logs'[q][1] = logs[q][1]
    <3>1. 1 \in 1 .. Len(logs[q])
      <4>1. Len(logs[q]) = 1
        BY <1>2, Zenon
      <4> QED
        BY <4>1
    <3> QED
      BY <3>1, <2>2, <2>4, Zenon
  <2> QED
    BY <2>3, <2>4, Zenon
<1>4. /\ logs[m][1] \o es \in Seq(Event) /\ Len(logs[m][1]) <= Len(logs[m][1] \o es)
      /\ \A i \in 1 .. Len(logs[m][1]) : (logs[m][1] \o es)[i] = logs[m][1][i]
  BY <1>3, ConcatProperties
<1>5. UNCHANGED <<session, released>>
  BY Zenon DEF ProcessLocalEvent, routerVars
<1>6. [q \in Nodes |-> logs'[q][1]] = [[q \in Nodes |-> logs[q][1]] EXCEPT ![m] = logs'[m][1]]
  BY <1>3, Zenon
<1> QED
  BY <1>3, <1>4, <1>5, <1>6, Zenon DEF Abstract!Order

(***************************************************************************)
(* What _run_ext_in releases is a See step of OrderedLog: the longer       *)
(* sequence is again a prefix of the master's log.                         *)
(***************************************************************************)
LEMMA AcceptIsSee ==
    ASSUME RouterInv, RouterInv', MaxInc = 1, NEW n \in Nodes, NEW g \in globalEvents[n],
           Accept(n, g), UNCHANGED logs
    PROVE  Abstract!See(n)
<1> DEFINE log == logs[session[n]][1]
           rel == released'[n]
<1>1. /\ session' = session /\ TypeOK /\ TypeOK'
      /\ \A p \in Nodes \ {n} : released'[p] = released[p]
  BY AcceptKeeps DEF RouterInv
<1>2. Len(released[n]) = next[n] /\ Len(rel) = next'[n] /\ next[n] <= next'[n]
  <2>1. Len(released[n]) = next[n] /\ Len(rel) = next'[n]
    BY DEF RouterInv, ReleasedCount
  <2>2. g.idx \in Nat /\ g.event \in Event /\ IsStore(store[n]) /\ next[n] \in Nat /\ DOMAIN next = Nodes
    <3>1. TypeOK
      BY <1>1
    <3>2. g \in GlobalEvent /\ IsStore(store[n]) /\ next[n] \in Nat /\ DOMAIN next = Nodes
      BY <3>1, Zenon DEF TypeOK
    <3> QED
      BY <3>2 DEF GlobalEvent
  <2> DEFINE filled == Ingest(store[n], next[n], g.idx, g.event)
  <2>3. IsStore(filled)
    BY <2>2, IngestStore
  <2>4. PICK k \in DrainRange(filled, next[n]) : DrainStops(filled, next[n], k) /\ next' = [next EXCEPT ![n] = k]
    BY Zenon DEF Accept
  <2> HIDE DEF filled
  <2>5. k >= next[n]
    BY <2>2, <2>3, <2>4, DrainFacts, Zenon
  <2> QED
    BY <2>1, <2>2, <2>4, <2>5
<1>3. log \in Seq(Event) /\ rel \in Seq(Event) /\ released \in [Nodes -> Seq(Event)] /\ released' \in [Nodes -> Seq(Event)]
  <2>1. session[n] \in Nodes /\ released \in [Nodes -> Seq(Event)]
    BY <1>1, Zenon DEF TypeOK
  <2>2. released' \in [Nodes -> Seq(Event)]
    BY <1>1, Zenon DEF TypeOK
  <2>3. log \in Seq(Event)
    BY <1>1, <2>1, OneLog, Zenon
  <2> QED
    BY <2>1, <2>2, <2>3
<1>4. \A i \in 1 .. Len(rel) : i \in 1 .. Len(log) /\ log[i] = rel[i]
  <2>1. \A i \in 1 .. Len(rel) : LoggedAt(session[n], i, rel[i])
    BY AcceptKeeps
  <2>2. Len(logs[session[n]]) = 1
    <3>1. session[n] \in Nodes
      BY <1>1, Zenon DEF TypeOK
    <3> QED
      BY <1>1, <3>1, OneLog
  <2> QED
    BY <2>1, <2>2 DEF LoggedAt, Inc
<1> HIDE DEF log, rel
<1>5. Len(rel) \in Len(released[n]) .. Len(log)
  <2>1. Len(rel) \in Nat /\ Len(log) \in Nat /\ Len(released[n]) \in Nat
    BY <1>3
  <2>2. Len(released[n]) <= Len(rel)
    BY <1>2
  <2>3. CASE Len(rel) = 0
    BY <2>1, <2>2, <2>3
  <2>4. CASE Len(rel) # 0
    <3>1. Len(rel) \in 1 .. Len(rel)
      BY <2>1, <2>4
    <3>2. Len(rel) \in 1 .. Len(log)
      BY <1>4, <3>1
    <3> QED
      BY <2>1, <2>2, <3>2
  <2> QED
    BY <2>3, <2>4
<1>6. SubSeq(log, 1, Len(rel)) = rel
  <2>1. Len(rel) \in Nat /\ Len(log) \in Nat /\ Len(released[n]) \in Nat
    BY <1>3
  <2>2. Len(SubSeq(log, 1, Len(rel))) = Len(rel) /\ SubSeq(log, 1, Len(rel)) \in Seq(Event)
    BY <1>3, <1>4, <1>5, <2>1
  <2>3. \A i \in 1 .. Len(rel) : SubSeq(log, 1, Len(rel))[i] = rel[i]
    BY <1>3, <1>4, <1>5, <2>1
  <2> QED
    BY <1>3, <2>2, <2>3, SeqEqual
<1>7. released' = [released EXCEPT ![n] = rel]
  BY <1>1, <1>3 DEF rel
<1>8. session[n] \in Nodes
  BY <1>1, Zenon DEF TypeOK
<1> QED
  BY <1>1, <1>5, <1>6, <1>7, <1>8, Zenon DEF Abstract!See, log

(***************************************************************************)
(* The routers and masters implement OrderedLog for every set of nodes,    *)
(* batch size, number of events, routers and losses, while no node creates *)
(* a second Master object (_run_ext_in, _event_processor, _elect_loop).    *)
(***************************************************************************)
THEOREM RefinesOrderedLog == ASSUME MaxInc = 1 PROVE Spec => ImplementsOrderedLog
<1>1. Init => Abstract!Init
  BY DEF Init, Abstract!Init
<1>2. RouterInv /\ RouterInv' /\ [Next]_vars => [Abstract!Next]_(Abstract!vars)
  <2> SUFFICES ASSUME RouterInv, RouterInv', [Next]_vars PROVE [Abstract!Next]_(Abstract!vars)
    OBVIOUS
  <2>1. TypeOK /\ TypeOK'
    BY DEF RouterInv
  <2>2. CASE UNCHANGED <<logs, session, released>>
    BY <2>2 DEF Abstract!vars
  <2>3. ASSUME NEW n \in Nodes, NEW e \in localEvents[n], ProcessLocalEvent(n, e)
        PROVE  Abstract!Next
    BY <2>1, <2>3, ProcessIsOrder DEF Abstract!Next
  <2>4. ASSUME NEW n \in Nodes, NEW g \in globalEvents[n], Accept(n, g), UNCHANGED logs
        PROVE  Abstract!Next
    BY <2>4, AcceptIsSee DEF Abstract!Next
  <2>5. ASSUME NEW n \in Nodes, NEW m \in Nodes, NewEventRouter(n, m), UNCHANGED logs
        PROVE  Abstract!Next
    <3>1. Abstract!Follow(n, m)
      BY <2>5 DEF NewEventRouter, Abstract!Follow
    <3> QED
      BY <3>1 DEF Abstract!Next
  <2> QED
    BY <2>1, <2>2, <2>3, <2>4, <2>5, VisibleSteps
<1> QED
  BY <1>1, <1>2, RouterInvariant, PTL DEF Spec, ImplementsOrderedLog, Abstract!Spec

-----------------------------------------------------------------------------
(***************************************************************************)
(* The resequencing buffers of a Master and its log: the events of a       *)
(* source that are in the log are those below the index that its buffer    *)
(* releases next, and a buffer holds every event under its own number.     *)
(***************************************************************************)
Counted(log, nx) ==
    \A o \in Origins : \A i \in Nat :
        (\E j \in 1 .. Len(log) : log[j] = [origin |-> o, idx |-> i]) <=> i < nx[o]

OwnNumbers(st) ==
    \A o \in Origins : \A i \in DOMAIN st[o] : st[o][i] = [origin |-> o, idx |-> i]

SenderInv ==
    \A m \in Nodes :
        /\ \A k \in 1 .. Inc(m) : InSenderOrder(logs[m][k])
        /\ Counted(Log(m), mnext[m])
        /\ OwnNumbers(mstore[m])

(***************************************************************************)
(* The next events of one source, appended to a log that has all the       *)
(* events before them.                                                     *)
(***************************************************************************)
LEMMA AppendInOrder ==
    ASSUME NEW log \in Seq(Event), InSenderOrder(log), NEW nx \in [Origins -> Nat], Counted(log, nx),
           NEW o \in Origins, NEW k \in Nat, k >= nx[o], NEW es \in Seq(Event), Len(es) = k - nx[o],
           \A i \in 1 .. Len(es) : es[i] = [origin |-> o, idx |-> nx[o] + i - 1]
    PROVE  InSenderOrder(log \o es) /\ Counted(log \o es, [nx EXCEPT ![o] = k])
<1> DEFINE L == Len(log)
           new == log \o es
           s == nx[o]
<1>1. /\ L \in Nat /\ s \in Nat /\ Len(es) \in Nat
      /\ \A j \in 1 .. L : log[j] \in Event
  BY ElementOfSeq
<1>2. /\ new \in Seq(Event) /\ Len(new) = L + (k - s)
      /\ \A j \in 1 .. L : new[j] = log[j]
      /\ \A i \in 1 .. k - s : new[L + i] = [origin |-> o, idx |-> s + i - 1]
  BY <1>1, ConcatProperties
<1>k. k >= s
  OBVIOUS
<1> HIDE DEF new, L, s
<1>3. ASSUME NEW j \in 1 .. Len(new)
      PROVE  /\ \A c \in 0 .. new[j].idx - 1 : \E i \in 1 .. j - 1 :
                    new[i] = [origin |-> new[j].origin, idx |-> c]
             /\ \A i \in 1 .. j - 1 : new[i] # new[j]
  <2>1. CASE j \in 1 .. L
    <3>1. new[j] = log[j] /\ \A i \in 1 .. j - 1 : new[i] = log[i]
      BY <1>1, <1>2, <2>1, SMTT(30)
    <3>2. /\ \A c \in 0 .. log[j].idx - 1 : \E i \in 1 .. j - 1 :
                log[i] = [origin |-> log[j].origin, idx |-> c]
          /\ \A i \in 1 .. j - 1 : log[i] # log[j]
      BY <2>1 DEF InSenderOrder, L
    <3> QED
      BY <3>1, <3>2, Zenon
  <2>2. CASE j > L
    <3> DEFINE q == j - L
    <3>1. q \in 1 .. k - s /\ j = L + q
      BY <1>1, <1>2, <2>2
    <3> HIDE DEF q
    <3>2. new[j] = [origin |-> o, idx |-> s + q - 1]
      BY <1>2, <3>1, Zenon
    <3>3. ASSUME NEW c \in 0 .. s + q - 2
          PROVE  \E i \in 1 .. j - 1 : new[i] = [origin |-> o, idx |-> c]
      <4>1. CASE c < s
        <5>1. PICK i \in 1 .. L : log[i] = [origin |-> o, idx |-> c]
          BY <4>1, <1>1 DEF Counted, L, s
        <5>2. i \in 1 .. j - 1 /\ new[i] = log[i]
          BY <5>1, <1>1, <1>2, <2>2, SMTT(30)
        <5> QED
          BY <5>1, <5>2, Zenon
      <4>2. CASE c >= s
        <5>1. c - s + 1 \in 1 .. k - s /\ L + (c - s + 1) \in 1 .. j - 1
          BY <4>2, <1>1, <3>1
        <5>2. new[L + (c - s + 1)] = [origin |-> o, idx |-> s + (c - s + 1) - 1]
          BY <5>1, <1>2
        <5>3. s + (c - s + 1) - 1 = c
          <6>1. c \in Int
            OBVIOUS
          <6> QED
            BY <6>1, <1>1
        <5> QED
          BY <5>1, <5>2, <5>3, Zenon
      <4> QED
        BY <4>1, <4>2, <1>1, <3>1, SMTT(30)
    <3>4. ASSUME NEW i \in 1 .. j - 1
          PROVE  new[i] # new[j]
      <4>1. CASE i \in 1 .. L
        <5>1. new[i] = log[i]
          BY <4>1, <1>2
        <5>2. ~(s + q - 1 < s) /\ s + q - 1 \in Nat
          BY <1>1, <3>1
        <5>3. log[i] # [origin |-> o, idx |-> s + q - 1]
          BY <4>1, <5>2 DEF Counted, L, s
        <5> QED
          BY <3>2, <5>1, <5>3, Zenon
      <4>2. CASE i > L
        <5>1. i - L \in 1 .. k - s /\ i = L + (i - L) /\ s + (i - L) - 1 # s + q - 1
          BY <4>2, <1>1, <3>1
        <5>2. new[i] = [origin |-> o, idx |-> s + (i - L) - 1]
          BY <5>1, <1>2, Zenon
        <5>3. new[i].idx # new[j].idx
          BY <3>2, <5>1, <5>2
        <5> QED
          BY <5>3
      <4> QED
        BY <4>1, <4>2, <1>1, <3>1
    <3>5. new[j].idx - 1 = s + q - 2 /\ new[j].origin = o
      BY <3>2, <1>1, <3>1
    <3>6. \A c \in 0 .. new[j].idx - 1 : \E i \in 1 .. j - 1 :
              new[i] = [origin |-> new[j].origin, idx |-> c]
      BY <3>3, <3>5
    <3> QED
      BY <3>4, <3>6
  <2>3. j \in 1 .. L \/ j > L
    <3>1. j \in Nat /\ j >= 1
      OBVIOUS
    <3> QED
      BY <1>1, <3>1
  <2> QED
    BY <2>1, <2>2, <2>3, Zenon
<1>4. InSenderOrder(new)
  BY <1>3, Zenon DEF InSenderOrder
<1>5. ASSUME NEW u \in Origins, NEW i \in Nat
      PROVE  (\E j \in 1 .. Len(new) : new[j] = [origin |-> u, idx |-> i]) <=> i < [nx EXCEPT ![o] = k][u]
  <2>1. ASSUME i < [nx EXCEPT ![o] = k][u]
        PROVE  \E j \in 1 .. Len(new) : new[j] = [origin |-> u, idx |-> i]
    <3>1. CASE i < nx[u]
      <4>1. PICK j \in 1 .. L : log[j] = [origin |-> u, idx |-> i]
        BY <3>1 DEF Counted, L
      <4>2. new[j] = log[j]
        BY <1>2, <4>1
      <4>3. j \in 1 .. L + (k - s)
        BY <1>1, <1>k, <4>1
      <4> QED
        BY <1>2, <4>1, <4>2, <4>3
    <3>2. CASE ~(i < nx[u])
      <4>1. u = o /\ i < k /\ i >= s
        <5>1. u = o
          BY <2>1, <3>2
        <5>2. i < k
          BY <5>1, <2>1
        <5>3. i >= s
          BY <5>1, <3>2, <1>1 DEF s
        <5> QED
          BY <5>1, <5>2, <5>3
      <4>2. i - s + 1 \in 1 .. k - s /\ L + (i - s + 1) \in 1 .. Len(new) /\ s + (i - s + 1) - 1 = i
        <5>1. i - s + 1 \in 1 .. k - s /\ s + (i - s + 1) - 1 = i
          BY <4>1, <1>1, SMTT(30)
        <5>2. L + (i - s + 1) \in 1 .. L + (k - s)
          BY <5>1, <1>1
        <5> QED
          BY <5>1, <5>2, <1>2
      <4>3. new[L + (i - s + 1)] = [origin |-> o, idx |-> s + (i - s + 1) - 1]
        BY <4>2, <1>2
      <4> QED
        BY <4>1, <4>2, <4>3, Zenon
    <3> QED
      BY <3>1, <3>2
  <2>2. ASSUME NEW j \in 1 .. Len(new), new[j] = [origin |-> u, idx |-> i]
        PROVE  i < [nx EXCEPT ![o] = k][u]
    <3>1. CASE j \in 1 .. L
      <4>1. i < nx[u]
        <5>1. log[j] = [origin |-> u, idx |-> i]
          BY <2>2, <3>1, <1>2, Zenon
        <5> QED
          BY <5>1, <3>1, Zenon DEF Counted, L
      <4> QED
        BY <4>1
    <3>2. CASE j > L
      <4>1. j - L \in 1 .. k - s /\ j = L + (j - L)
        BY <3>2, <1>1, <1>2
      <4>2. new[j] = [origin |-> o, idx |-> s + (j - L) - 1]
        BY <4>1, <1>2, Zenon
      <4>3. u = o /\ i = s + (j - L) - 1
        BY <2>2, <4>2
      <4> QED
        BY <4>1, <4>3, <1>1, <1>k
    <3> QED
      BY <3>1, <3>2, <1>1, <1>2
  <2> QED
    BY <2>1, <2>2, Zenon
<1>6. Counted(new, [nx EXCEPT ![o] = k])
  BY <1>5, Zenon DEF Counted
<1> QED
  BY <1>4, <1>6 DEF new

(***************************************************************************)
(* _event_processor: what _multi_buffer releases are the next events of    *)
(* one source.                                                             *)
(***************************************************************************)
LEMMA SenderProcess ==
    ASSUME TypeOK, SenderInv, NEW m \in Nodes, NEW e \in localEvents[m], ProcessLocalEvent(m, e)
    PROVE  SenderInv'
<1> DEFINE o == e.origin
           st == mstore[m][o]
           nx == mnext[m][o]
           filled == Ingest(st, nx, e.idx, e)
<1>1. e \in Event /\ o \in Origins /\ e.idx \in Nat /\ e = [origin |-> o, idx |-> e.idx]
  BY DEF TypeOK, Event
<1>2. IsStore(st) /\ nx \in Nat /\ mnext[m] \in [Origins -> Nat]
  BY <1>1 DEF TypeOK
<1>3. /\ Counted(Log(m), mnext[m])
      /\ OwnNumbers(mstore[m])
      /\ \A k \in 1 .. Inc(m) : InSenderOrder(logs[m][k])
  BY Zenon DEF SenderInv
<1>4. \A i \in DOMAIN st : st[i] = [origin |-> o, idx |-> i]
  BY <1>1, <1>3 DEF OwnNumbers
<1>5. PICK k \in DrainRange(filled, nx) :
        /\ DrainStops(filled, nx, k)
        /\ mstore' = [mstore EXCEPT ![m][o] = Remaining(filled, nx, k)]
        /\ mnext' = [mnext EXCEPT ![m][o] = k]
        /\ logs' = [logs EXCEPT ![m][Inc(m)] = Log(m) \o Drained(filled, nx, k)]
  BY Zenon DEF ProcessLocalEvent
<1> HIDE DEF st, nx
<1>6. IsStore(filled) /\ \A i \in DOMAIN filled : filled[i] = [origin |-> o, idx |-> i]
  <2>1. /\ IsStore(filled)
        /\ \A j \in DOMAIN filled :
              (j \in DOMAIN st /\ filled[j] = st[j]) \/ (j = e.idx /\ filled[j] = e /\ e.idx >= nx)
    BY <1>1, <1>2, IngestStore, Zenon
  <2> HIDE DEF filled
  <2> QED
    BY <1>1, <1>4, <2>1
<1> HIDE DEF filled
<1> DEFINE es == Drained(filled, nx, k)
           rest == Remaining(filled, nx, k)
<1>7. /\ k \in Nat /\ k >= nx
      /\ es \in Seq(Event) /\ Len(es) = k - nx
      /\ \A i \in 1 .. k - nx : nx + i - 1 \in DOMAIN filled /\ es[i] = filled[nx + i - 1]
      /\ DOMAIN rest = DOMAIN filled \ (nx .. k - 1)
      /\ \A j \in DOMAIN rest : rest[j] = filled[j]
  <2>1. IsStore(filled) /\ nx \in Nat /\ k \in DrainRange(filled, nx) /\ DrainStops(filled, nx, k)
    BY <1>2, <1>5, <1>6
  <2>2. /\ k \in Nat /\ k >= nx
        /\ es \in Seq(Event)
        /\ Len(es) = k - nx
        /\ \A i \in 1 .. k - nx : nx + i - 1 \in DOMAIN filled /\ es[i] = filled[nx + i - 1]
        /\ IsStore(rest)
        /\ DOMAIN rest = DOMAIN filled \ (nx .. k - 1)
        /\ \A j \in DOMAIN rest : rest[j] = filled[j]
    BY <2>1, DrainFacts, Zenon
  <2> HIDE DEF es, rest
  <2> QED
    BY <2>2
<1> HIDE DEF es, rest
<1>8. logs' = [logs EXCEPT ![m][Inc(m)] = Log(m) \o es]
  BY <1>5 DEF es
<1>9. /\ Log(m) \in Seq(Event)
      /\ Inc(m) \in 1 .. Len(logs[m])
      /\ \A q \in Nodes : Len(logs'[q]) = Len(logs[q])
      /\ \A q \in Nodes : \A i \in 1 .. Len(logs[q]) :
           (q # m \/ i # Inc(m)) => logs'[q][i] = logs[q][i]
      /\ logs'[m][Inc(m)] = Log(m) \o es
  BY <1>7, <1>8, AppendFacts, Zenon
<1>10. InSenderOrder(Log(m) \o es) /\ Counted(Log(m) \o es, [mnext[m] EXCEPT ![o] = k])
  <2>1. \A i \in 1 .. Len(es) : es[i] = [origin |-> o, idx |-> nx + i - 1]
    BY <1>6, <1>7, Zenon
  <2>2. InSenderOrder(Log(m))
    BY <1>3, <1>9, Zenon DEF Log, Inc
  <2>3. nx = mnext[m][o]
    BY DEF nx
  <2> QED
    BY <1>1, <1>2, <1>3, <1>7, <1>9, <2>1, <2>2, <2>3, AppendInOrder, Zenon
<1>11. mnext'[m] = [mnext[m] EXCEPT ![o] = k] /\ \A q \in Nodes \ {m} : mnext'[q] = mnext[q]
  BY <1>5, Zenon DEF TypeOK
<1>12. OwnNumbers(mstore'[m])
  <2>1. \A i \in DOMAIN rest : rest[i] = [origin |-> o, idx |-> i]
    BY <1>6, <1>7, Zenon
  <2>2. mstore'[m][o] = rest /\ \A u \in Origins \ {o} : mstore'[m][u] = mstore[m][u]
    BY <1>1, <1>5, Zenon DEF TypeOK, rest
  <2> SUFFICES ASSUME NEW u \in Origins, NEW i \in DOMAIN mstore'[m][u]
               PROVE  mstore'[m][u][i] = [origin |-> u, idx |-> i]
    BY Zenon DEF OwnNumbers
  <2>3. CASE u = o
    BY <2>1, <2>2, <2>3, Zenon
  <2>4. CASE u # o
    BY <1>3, <2>2, <2>4, ZenonT(30) DEF OwnNumbers
  <2> QED
    BY <2>3, <2>4, Zenon
<1>13. \A q \in Nodes \ {m} : mstore'[q] = mstore[q]
  BY <1>5, Zenon DEF TypeOK
<1>14. ASSUME NEW q \in Nodes
       PROVE  /\ \A i \in 1 .. Len(logs'[q]) : InSenderOrder(logs'[q][i])
              /\ Counted(logs'[q][Len(logs'[q])], mnext'[q])
              /\ OwnNumbers(mstore'[q])
  <2>1. CASE q = m
    <3>1. logs'[q][Len(logs'[q])] = Log(m) \o es
      BY <1>9, <2>1, Zenon DEF Inc
    <3>2. ASSUME NEW i \in 1 .. Len(logs'[q]) PROVE InSenderOrder(logs'[q][i])
      <4>1. CASE i = Inc(m)
        BY <4>1, <1>9, <1>10, <2>1, Zenon
      <4>2. CASE i # Inc(m)
        BY <4>2, <1>3, <1>9, <2>1, Zenon DEF Inc
      <4> QED
        BY <4>1, <4>2
    <3> QED
      BY <3>1, <3>2, <1>10, <1>11, <1>12, <2>1, Zenon
  <2>2. CASE q # m
    <3>1. /\ \A i \in 1 .. Len(logs[q]) : InSenderOrder(logs[q][i])
          /\ Counted(logs[q][Len(logs[q])], mnext[q])
          /\ OwnNumbers(mstore[q])
      BY Zenon DEF SenderInv, Inc, Log
    <3>2. /\ Len(logs'[q]) = Len(logs[q])
          /\ \A i \in 1 .. Len(logs[q]) : logs'[q][i] = logs[q][i]
          /\ Len(logs[q]) \in 1 .. Len(logs[q])
      <4>1. Len(logs[q]) \in Nat /\ Len(logs[q]) >= 1
        BY DEF TypeOK, Inc
      <4>2. \A i \in 1 .. Len(logs[q]) : logs'[q][i] = logs[q][i]
        BY <1>9, <2>2, Zenon
      <4> QED
        BY <1>9, <4>1, <4>2, SMTT(30)
    <3>3. mnext'[q] = mnext[q] /\ mstore'[q] = mstore[q]
      BY <1>11, <1>13, <2>2, ZenonT(30)
    <3> QED
      BY <3>1, <3>2, <3>3, Zenon
  <2> QED
    BY <2>1, <2>2, Zenon
<1> QED
  BY <1>14, ZenonT(30) DEF SenderInv, Inc, Log

(***************************************************************************)
(* A new Master starts with an empty log and empty buffers.                *)
(***************************************************************************)
LEMMA SenderNewMaster ==
    ASSUME TypeOK, SenderInv, NEW n \in Nodes, NewMaster(n)
    PROVE  SenderInv'
<1>0. logs \in [Nodes -> Seq(Seq(Event))]
  BY Zenon DEF TypeOK
<1>1. \A q \in Nodes : logs[q] \in Seq(Seq(Event)) /\ Len(logs[q]) \in Nat
  BY ONLY <1>0
<1>2. /\ Len(Append(logs[n], <<>>)) = Len(logs[n]) + 1
      /\ \A k \in 1 .. Len(logs[n]) : Append(logs[n], <<>>)[k] = logs[n][k]
      /\ Append(logs[n], <<>>)[Len(logs[n]) + 1] = <<>>
  BY <1>1
<1>3. /\ logs' = [logs EXCEPT ![n] = Append(logs[n], <<>>)]
      /\ mstore' = [mstore EXCEPT ![n] = [o \in Origins |-> EmptyStore]]
      /\ mnext' = [mnext EXCEPT ![n] = [o \in Origins |-> 0]]
  BY DEF NewMaster
<1>4. /\ logs'[n] = Append(logs[n], <<>>)
      /\ mnext'[n] = [o \in Origins |-> 0]
      /\ mstore'[n] = [o \in Origins |-> EmptyStore]
      /\ \A q \in Nodes \ {n} : logs'[q] = logs[q] /\ mnext'[q] = mnext[q] /\ mstore'[q] = mstore[q]
  BY <1>3, Zenon DEF TypeOK
<1>5. InSenderOrder(<<>>)
  BY DEF InSenderOrder
<1>6. Counted(<<>>, [o \in Origins |-> 0])
  BY DEF Counted
<1>7. OwnNumbers([o \in Origins |-> EmptyStore])
  BY DEF OwnNumbers, EmptyStore
<1>8. ASSUME NEW q \in Nodes
      PROVE  /\ \A i \in 1 .. Len(logs'[q]) : InSenderOrder(logs'[q][i])
             /\ Counted(logs'[q][Len(logs'[q])], mnext'[q])
             /\ OwnNumbers(mstore'[q])
  <2>1. /\ \A i \in 1 .. Len(logs[q]) : InSenderOrder(logs[q][i])
        /\ Counted(logs[q][Len(logs[q])], mnext[q])
        /\ OwnNumbers(mstore[q])
    BY DEF SenderInv, Inc, Log
  <2>2. CASE q = n
    <3>1. Len(logs'[q]) = Len(logs[q]) + 1 /\ logs'[q][Len(logs'[q])] = <<>>
      BY <1>2, <1>4, <2>2, Zenon
    <3>2. ASSUME NEW i \in 1 .. Len(logs'[q]) PROVE InSenderOrder(logs'[q][i])
      <4>1. CASE i = Len(logs'[q])
        BY <4>1, <3>1, <1>5
      <4>2. CASE i # Len(logs'[q])
        <5>1. i \in 1 .. Len(logs[n])
          BY <4>2, <3>1, <1>1, <2>2
        <5> QED
          BY <5>1, <1>2, <1>4, <2>1, <2>2, Zenon
      <4> QED
        BY <4>1, <4>2, Zenon
    <3>3. Counted(logs'[q][Len(logs'[q])], mnext'[q]) /\ OwnNumbers(mstore'[q])
      BY <3>1, <1>4, <1>6, <1>7, <2>2, Zenon
    <3> QED
      BY <3>2, <3>3, Zenon
  <2>3. CASE q # n
    BY <2>1, <2>3, <1>4, Zenon
  <2> QED
    BY <2>2, <2>3
<1> QED
  BY <1>8, Zenon DEF SenderInv, Inc, Log

(***************************************************************************)
(* No other step touches the logs or the buffers of a Master.              *)
(***************************************************************************)
LEMMA SenderStep == TypeOK /\ SenderInv /\ [Next]_vars => SenderInv'
<1> SUFFICES ASSUME TypeOK, SenderInv, [Next]_vars PROVE SenderInv'
  OBVIOUS
<1>1. \/ \E n \in Nodes : \E e \in localEvents[n] : ProcessLocalEvent(n, e)
      \/ \E n \in Nodes : NewMaster(n)
      \/ UNCHANGED <<logs, mstore, mnext>>
  BY ZenonT(30) DEF Next, vars, masterVars, IngestEvent, SimpleRetry, ReplayEventLog, ReceiveGlobal,
         NackRequest, SessionTransition, Restart, Lose
<1>2. CASE \E n \in Nodes : \E e \in localEvents[n] : ProcessLocalEvent(n, e)
  BY <1>2, SenderProcess
<1>3. CASE \E n \in Nodes : NewMaster(n)
  BY <1>3, SenderNewMaster
<1>4. CASE UNCHANGED <<logs, mstore, mnext>>
  BY <1>4, Zenon DEF SenderInv, Inc, Log
<1> QED
  BY <1>1, <1>2, <1>3, <1>4

(***************************************************************************)
(* Every log of every Master holds the events of each source from the      *)
(* first, in the source's order, without a gap and without a duplicate,    *)
(* for any number of nodes, events, losses, routers and Masters:           *)
(* _event_processor numbers only what _multi_buffer releases, and a retry  *)
(* of an event that is already logged is absorbed.                         *)
(***************************************************************************)
THEOREM SenderOrderCorrect == Spec => []SenderOrder
<1>1. Init => SenderInv
  <2> SUFFICES ASSUME Init PROVE SenderInv
    OBVIOUS
  <2>1. ASSUME NEW m \in Nodes
        PROVE  logs[m] = << <<>> >> /\ mstore[m] = [o \in Origins |-> EmptyStore]
               /\ mnext[m] = [o \in Origins |-> 0]
    BY DEF Init
  <2>2. InSenderOrder(<<>>) /\ Counted(<<>>, [o \in Origins |-> 0])
    BY SMTT(30) DEF InSenderOrder, Counted
  <2>3. OwnNumbers([o \in Origins |-> EmptyStore])
    BY Zenon DEF OwnNumbers, EmptyStore
  <2> QED
    BY <2>1, <2>2, <2>3 DEF SenderInv, Inc, Log
<1>2. SenderInv => SenderOrder
  BY Zenon DEF SenderInv, SenderOrder
<1> QED
  BY <1>1, <1>2, SenderStep, TypeCorrect, PTL DEF Spec
=============================================================================
