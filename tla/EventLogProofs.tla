---------------------------- MODULE EventLogProofs ----------------------------
(***************************************************************************)
(* Proofs about EventLog for every set of nodes and every bound: types,    *)
(* what the routers release and when the assertion of ingest can fail.     *)
(***************************************************************************)
EXTENDS EventLog, SequenceTheorems, TLAPS

(***************************************************************************)
(* A step of the network only adds to the logs: Master objects append to   *)
(* their log (_event_processor) and new objects start new logs.            *)
(***************************************************************************)
LogsGrow ==
    \A m \in Nodes :
        /\ Len(logs'[m]) \in Nat
        /\ Len(logs[m]) <= Len(logs'[m])
        /\ \A k \in 1 .. Len(logs[m]) :
            /\ Len(logs[m][k]) \in Nat
            /\ Len(logs'[m][k]) \in Nat
            /\ Len(logs[m][k]) <= Len(logs'[m][k])
            /\ \A i \in 1 .. Len(logs[m][k]) : logs'[m][k][i] = logs[m][k][i]

(***************************************************************************)
(* What OrderedBuffer.ingest leaves is a store of events.                  *)
(***************************************************************************)
LEMMA IngestStore ==
    ASSUME NEW s, IsStore(s), NEW nx \in Nat, NEW i \in Nat, NEW e \in Event
    PROVE  LET f == Ingest(s, nx, i, e) IN
           /\ IsStore(f)
           /\ DOMAIN f \subseteq DOMAIN s \cup {i}
           /\ \A j \in DOMAIN f : (j \in DOMAIN s /\ f[j] = s[j]) \/ (j = i /\ f[j] = e /\ i >= nx)
BY DEF IsStore, Ingest

(***************************************************************************)
(* The drain loop stops at or above the index it starts from, returns a    *)
(* sequence of the entries up to there and leaves the others.              *)
(***************************************************************************)
LEMMA DrainFacts ==
    ASSUME NEW s, IsStore(s), NEW nx \in Nat,
           NEW k \in DrainRange(s, nx), DrainStops(s, nx, k)
    PROVE  /\ k \in Nat /\ k >= nx
           /\ Drained(s, nx, k) \in Seq(Event)
           /\ Len(Drained(s, nx, k)) = k - nx
           /\ \A i \in 1 .. k - nx :
                nx + i - 1 \in DOMAIN s /\ Drained(s, nx, k)[i] = s[nx + i - 1]
           /\ IsStore(Remaining(s, nx, k))
           /\ DOMAIN Remaining(s, nx, k) = DOMAIN s \ (nx .. k - 1)
           /\ \A j \in DOMAIN Remaining(s, nx, k) : Remaining(s, nx, k)[j] = s[j]
<1>1. k \in Nat /\ k >= nx
  BY DEF DrainRange, IsStore
<1>2. \A i \in 1 .. k - nx : nx + i - 1 \in DOMAIN s
  BY <1>1 DEF DrainStops
<1>3. Drained(s, nx, k) \in [1 .. k - nx -> Event]
  BY <1>1, <1>2, Zenon DEF Drained, IsStore
<1>4. Drained(s, nx, k) \in Seq(Event) /\ Len(Drained(s, nx, k)) = k - nx
  BY <1>1, <1>3
<1>5. \A i \in 1 .. k - nx : Drained(s, nx, k)[i] = s[nx + i - 1]
  BY DEF Drained
<1> QED
  BY <1>1, <1>2, <1>4, <1>5, Zenon DEF Remaining, IsStore

(***************************************************************************)
(* Every initial state has the declared types (Node.create).               *)
(***************************************************************************)
LEMMA TypeInit == Init => TypeOK
<1> SUFFICES ASSUME Init PROVE TypeOK
  OBVIOUS
<1>1. << <<>> >> \in Seq(Seq(Event)) /\ Len(<< <<>> >>) = 1
  OBVIOUS
<1>2. IsStore(EmptyStore)
  BY DEF IsStore, EmptyStore
<1> QED
  BY <1>1, <1>2, EventLogAssumption DEF Init, TypeOK, Inc, NoNack, Origins

(***************************************************************************)
(* The name a router gives to an event is an event.                        *)
(***************************************************************************)
LEMMA LocalIsEvent ==
    ASSUME TypeOK, NEW n \in Nodes, NEW i \in Nat
    PROVE  LocalForwarderEvent(n, i) \in Event
BY DEF TypeOK, LocalForwarderEvent, Origin, Event, Origins

(***************************************************************************)
(* A replayed or freshly logged range is a set of well-formed broadcasts.  *)
(***************************************************************************)
LEMMA RangeIsGlobal ==
    ASSUME TypeOK, NEW m \in Nodes, NEW log \in Seq(Event),
           NEW from \in Nat, NEW to \in Nat, to <= Len(log)
    PROVE  GlobalRange(m, log, from, to) \subseteq GlobalEvent
<1> SUFFICES ASSUME NEW i \in from .. to - 1
             PROVE  GlobalForwarderEvent(m, log, i) \in GlobalEvent
  BY DEF GlobalRange
<1>1. i \in Nat /\ i + 1 \in 1 .. Len(log)
  OBVIOUS
<1>2. Inc(m) \in Nat
  BY EventLogAssumption, SMTT(30) DEF TypeOK
<1> QED
  BY <1>1, <1>2 DEF GlobalForwarderEvent, GlobalEvent

(***************************************************************************)
(* What a replay sends lies within the log.                                *)
(***************************************************************************)
LEMMA ReplayedBounds ==
    ASSUME TypeOK, NEW m \in Nodes, NEW since \in Nat
    PROVE  /\ Log(m) \in Seq(Event)
           /\ Smaller(since + BatchSize, Len(Log(m))) \in Nat
           /\ Smaller(since + BatchSize, Len(Log(m))) <= Len(Log(m))
<1>1. Log(m) \in Seq(Event)
  BY EventLogAssumption DEF TypeOK, Log, Inc
<1> QED
  BY <1>1, EventLogAssumption DEF Smaller

(***************************************************************************)
(* ProcessLocalEvent keeps the types.                                      *)
(***************************************************************************)
LEMMA TypeProcess ==
    ASSUME TypeOK, NEW m \in Nodes, NEW e \in localEvents[m], ProcessLocalEvent(m, e)
    PROVE  TypeOK'
<1> DEFINE o == e.origin
           filled == Ingest(mstore[m][o], mnext[m][o], e.idx, e)
<1>1. e \in Event /\ o \in Origins /\ e.idx \in Nat
  BY DEF TypeOK, Event
<1>2. IsStore(mstore[m][o]) /\ mnext[m][o] \in Nat
  BY <1>1 DEF TypeOK
<1>3. IsStore(filled)
  BY <1>1, <1>2, IngestStore
<1> HIDE DEF filled
<1>4. PICK k \in DrainRange(filled, mnext[m][o]) :
        /\ DrainStops(filled, mnext[m][o], k)
        /\ mstore' = [mstore EXCEPT ![m][o] = Remaining(filled, mnext[m][o], k)]
        /\ mnext' = [mnext EXCEPT ![m][o] = k]
        /\ logs' = [logs EXCEPT ![m][Inc(m)] = Log(m) \o Drained(filled, mnext[m][o], k)]
        /\ PublishGlobal(GlobalRange(m, Log(m) \o Drained(filled, mnext[m][o], k),
               Len(Log(m)), Len(Log(m) \o Drained(filled, mnext[m][o], k))))
  BY Zenon DEF ProcessLocalEvent, filled
<1> DEFINE log == Log(m) \o Drained(filled, mnext[m][o], k)
<1>5. /\ k \in Nat
      /\ Drained(filled, mnext[m][o], k) \in Seq(Event)
      /\ IsStore(Remaining(filled, mnext[m][o], k))
  BY <1>2, <1>3, <1>4, DrainFacts, Zenon
<1>6. Log(m) \in Seq(Event) /\ Inc(m) \in 1 .. Len(logs[m]) /\ logs[m] \in Seq(Seq(Event))
  BY EventLogAssumption DEF TypeOK, Log, Inc
<1>7. log \in Seq(Event) /\ Len(log) \in Nat /\ Len(Log(m)) \in Nat
  BY <1>5, <1>6
<1>8. /\ logs' \in [Nodes -> Seq(Seq(Event))]
      /\ \A n \in Nodes : Len(logs'[n]) = Len(logs[n])
  BY <1>4, <1>6, <1>7, SMTT(30) DEF TypeOK
<1>9. globalEvents' \in [Nodes -> SUBSET GlobalEvent]
  <2>1. GlobalRange(m, log, Len(Log(m)), Len(log)) \subseteq GlobalEvent
    <3> HIDE DEF log
    <3>1. Len(log) <= Len(log)
      BY <1>7
    <3> QED BY <1>7, <3>1, RangeIsGlobal
  <2> QED BY <2>1, <1>4 DEF PublishGlobal, TypeOK
<1>10. localEvents' \in [Nodes -> SUBSET Event]
  BY Zenon DEF ProcessLocalEvent, TypeOK
<1>11. /\ DOMAIN mstore' = Nodes
       /\ \A n \in Nodes : DOMAIN mstore'[n] = Origins
       /\ \A n \in Nodes, q \in Origins : IsStore(mstore'[n][q])
  BY <1>1, <1>4, <1>5, Zenon DEF TypeOK
<1>12. mnext' \in [Nodes -> [Origins -> Nat]]
  BY <1>1, <1>4, <1>5, Zenon DEF TypeOK
<1>13. UNCHANGED <<routerVars, master, requests, ingested, losses, failed>>
  BY Zenon DEF ProcessLocalEvent
<1> QED
  BY <1>8, <1>9, <1>10, <1>11, <1>12, <1>13, Zenon DEF TypeOK, routerVars, Inc

(***************************************************************************)
(* ReceiveGlobal keeps the types.                                          *)
(***************************************************************************)
LEMMA TypeReceive ==
    ASSUME TypeOK, NEW n \in Nodes, NEW g \in globalEvents[n], ReceiveGlobal(n, g)
    PROVE  TypeOK'
<1>1. globalEvents' \in [Nodes -> SUBSET GlobalEvent]
  BY SMTT(30) DEF ReceiveGlobal, TypeOK
<1>2. UNCHANGED <<master, logs, mstore, mnext, localEvents, requests, ingested, losses>>
  BY DEF ReceiveGlobal, masterVars
<1>3. CASE Drop(n, g)
  BY <1>1, <1>2, <1>3, Zenon DEF Drop, routerVars, TypeOK, Inc
<1>4. CASE FailAssertion(n, g)
  BY <1>1, <1>2, <1>4, Zenon DEF FailAssertion, routerVars, TypeOK, Inc
<1>5. CASE Accept(n, g)
  <2> DEFINE filled == Ingest(store[n], next[n], g.idx, g.event)
  <2>1. g.idx \in Nat /\ g.event \in Event
    BY SMTT(30) DEF TypeOK, GlobalEvent
  <2>2. IsStore(store[n]) /\ next[n] \in Nat
    BY DEF TypeOK
  <2>3. IsStore(filled)
    BY <2>1, <2>2, IngestStore
  <2> HIDE DEF filled
  <2>4. PICK k \in DrainRange(filled, next[n]) :
          /\ DrainStops(filled, next[n], k)
          /\ store' = [store EXCEPT ![n] = Remaining(filled, next[n], k)]
          /\ next' = [next EXCEPT ![n] = k]
          /\ released' = [released EXCEPT ![n] = @ \o Drained(filled, next[n], k)]
          /\ nack' = [nack EXCEPT ![n] = NackAfter(n, k)]
    BY <1>5, Zenon DEF Accept, filled
  <2>5. /\ k \in Nat
        /\ Drained(filled, next[n], k) \in Seq(Event)
        /\ IsStore(Remaining(filled, next[n], k))
    BY <2>2, <2>3, <2>4, DrainFacts, Zenon
  <2>6. NackAfter(n, k) \in Nat \cup {NoNack}
    BY <2>5 DEF NackAfter, TypeOK
  <2>7. /\ released' \in [Nodes -> Seq(Event)]
        /\ next' \in [Nodes -> Nat]
        /\ nack' \in [Nodes -> Nat \cup {NoNack}]
    BY <2>4, <2>5, <2>6 DEF TypeOK
  <2>8. DOMAIN store' = Nodes /\ \A p \in Nodes : IsStore(store'[p])
    BY <2>4, <2>5, Zenon DEF TypeOK
  <2>9. out' \in [Nodes -> SUBSET Nat] /\ UNCHANGED <<gen, session, sent, failed>>
    BY <1>5, Zenon DEF Accept, TypeOK
  <2> QED BY <1>1, <1>2, <2>7, <2>8, <2>9, Zenon DEF TypeOK, Inc
<1> QED BY <1>3, <1>4, <1>5 DEF ReceiveGlobal

(***************************************************************************)
(* A new router, and a new Master, have the types of their fields.         *)
(***************************************************************************)
LEMMA NewRouterType ==
    ASSUME TypeOK, NEW n \in Nodes, NEW m \in Nodes, gen[n] < MaxGen, NewEventRouter(n, m)
    PROVE  /\ gen' \in [Nodes -> 1 .. MaxGen]
           /\ session' \in [Nodes -> Nodes]
           /\ sent' \in [Nodes -> Nat]
           /\ out' \in [Nodes -> SUBSET Nat]
           /\ next' \in [Nodes -> Nat]
           /\ released' \in [Nodes -> Seq(Event)]
           /\ nack' \in [Nodes -> Nat \cup {NoNack}]
           /\ DOMAIN store' = Nodes
           /\ \A p \in Nodes : IsStore(store'[p])
<1>1. IsStore(EmptyStore)
  BY DEF IsStore, EmptyStore
<1>2. gen \in [Nodes -> 1 .. MaxGen]
  BY Zenon DEF TypeOK
<1>3. gen[n] + 1 \in 1 .. MaxGen
  BY <1>2, EventLogAssumption
<1>4. gen' \in [Nodes -> 1 .. MaxGen]
  BY <1>2, <1>3 DEF NewEventRouter
<1>5. /\ session' \in [Nodes -> Nodes]
      /\ sent' \in [Nodes -> Nat]
      /\ out' \in [Nodes -> SUBSET Nat]
      /\ next' \in [Nodes -> Nat]
      /\ released' \in [Nodes -> Seq(Event)]
      /\ nack' \in [Nodes -> Nat \cup {NoNack}]
  BY SMTT(30) DEF NewEventRouter, TypeOK
<1>6. DOMAIN store' = Nodes /\ \A p \in Nodes : IsStore(store'[p])
  BY <1>1, Zenon DEF NewEventRouter, TypeOK
<1> QED BY <1>4, <1>5, <1>6

LEMMA NewMasterType ==
    ASSUME TypeOK, NEW n \in Nodes, NewMaster(n)
    PROVE  /\ logs' \in [Nodes -> Seq(Seq(Event))]
           /\ \A p \in Nodes : Len(logs'[p]) \in 1 .. MaxInc
           /\ mnext' \in [Nodes -> [Origins -> Nat]]
           /\ DOMAIN mstore' = Nodes
           /\ \A p \in Nodes : DOMAIN mstore'[p] = Origins
           /\ \A p \in Nodes, o \in Origins : IsStore(mstore'[p][o])
<1>1. IsStore(EmptyStore)
  BY DEF IsStore, EmptyStore
<1>2. /\ Append(logs[n], <<>>) \in Seq(Seq(Event))
      /\ Len(Append(logs[n], <<>>)) = Len(logs[n]) + 1
  BY DEF TypeOK
<1>3. Len(logs[n]) + 1 \in 1 .. MaxInc
  BY EventLogAssumption DEF TypeOK, NewMaster, Inc
<1> QED BY <1>1, <1>2, <1>3, Zenon DEF NewMaster, TypeOK, Inc

(***************************************************************************)
(* Every step keeps the types.                                             *)
(***************************************************************************)
LEMMA TypeStep == TypeOK /\ [Next]_vars => TypeOK'
<1> SUFFICES ASSUME TypeOK, [Next]_vars PROVE TypeOK'
  OBVIOUS
<1> USE EventLogAssumption
<1>1. ASSUME NEW n \in Nodes, IngestEvent(n) PROVE TypeOK'
  <2>1. LocalForwarderEvent(n, sent[n]) \in Event
    BY LocalIsEvent, Zenon DEF TypeOK
  <2> HIDE DEF LocalForwarderEvent
  <2>2. /\ localEvents' \in [Nodes -> SUBSET Event]
        /\ sent' \in [Nodes -> Nat]
        /\ out' \in [Nodes -> SUBSET Nat]
        /\ ingested' \in 0 .. MaxEvents
    BY <1>1, <2>1, SMTT(30) DEF IngestEvent, PublishLocal, TypeOK
  <2> QED BY <1>1, <2>2, Zenon DEF IngestEvent, TypeOK, masterVars, Inc
<1>2. ASSUME NEW n \in Nodes, NEW i \in out[n], SimpleRetry(n, i) PROVE TypeOK'
  <2>1. LocalForwarderEvent(n, i) \in Event
    BY LocalIsEvent, Zenon DEF TypeOK
  <2>2. localEvents' \in [Nodes -> SUBSET Event]
    BY <1>2, <2>1, Zenon DEF SimpleRetry, PublishLocal, TypeOK
  <2> QED BY <1>2, <2>2, Zenon DEF SimpleRetry, TypeOK, masterVars, routerVars, Inc
<1>3. ASSUME NEW m \in Nodes, ReplayEventLog(m) PROVE TypeOK'
  <2>1. PICK since \in requests[m] :
          /\ requests' = [requests EXCEPT ![m] = @ \ {since}]
          /\ PublishGlobal(Replayed(m, since))
    BY <1>3, Zenon DEF ReplayEventLog
  <2>2. since \in Nat
    BY Zenon DEF TypeOK
  <2>3. Replayed(m, since) \subseteq GlobalEvent
    BY <2>2, ReplayedBounds, RangeIsGlobal, Zenon DEF Replayed
  <2>4. /\ globalEvents' \in [Nodes -> SUBSET GlobalEvent]
        /\ requests' \in [Nodes -> SUBSET Nat]
    BY <2>1, <2>3 DEF PublishGlobal, TypeOK
  <2> QED BY <1>3, <2>4, Zenon DEF ReplayEventLog, TypeOK, masterVars, routerVars, Inc
<1>4. ASSUME NEW n \in Nodes, NackRequest(n) PROVE TypeOK'
  <2>1. /\ nack' \in [Nodes -> Nat \cup {NoNack}]
        /\ requests' \in [Nodes -> SUBSET Nat]
    BY <1>4, Zenon DEF NackRequest, PublishRequest, TypeOK
  <2> QED BY <1>4, <2>1, Zenon DEF NackRequest, TypeOK, masterVars, Inc
<1>5. ASSUME NEW n \in Nodes, NEW m \in Electable, SessionTransition(n, m) PROVE TypeOK'
  <2>1. m \in Nodes
    OBVIOUS
  <2>2. gen[n] < MaxGen /\ NewEventRouter(n, m)
    BY <1>5 DEF SessionTransition
  <2>3. master' \in [Nodes -> BOOLEAN] /\ requests' \in [Nodes -> SUBSET Nat]
    <3>1. master' \in [Nodes -> BOOLEAN]
      BY <1>5, Zenon DEF SessionTransition, TypeOK
    <3>2. CASE UNCHANGED requests
      BY <3>1, <3>2, Zenon DEF TypeOK
    <3>3. CASE PublishRequest(0, Masters \ {n})
      <4>1. requests \in [Nodes -> SUBSET Nat]
        BY Zenon DEF TypeOK
      <4>2. requests' \in [Nodes -> SUBSET Nat]
        BY <3>3, <4>1 DEF PublishRequest
      <4> QED BY <3>1, <4>2
    <3> QED BY <1>5, <3>2, <3>3 DEF SessionTransition
  <2>4. UNCHANGED <<localEvents, globalEvents, ingested, losses, failed>>
    BY <1>5 DEF SessionTransition
  <2>5. CASE NewMaster(n)
    BY <2>1, <2>2, <2>3, <2>4, <2>5, NewRouterType, NewMasterType, Zenon DEF TypeOK, Inc
  <2>6. CASE UNCHANGED <<logs, mstore, mnext>>
    BY <2>1, <2>2, <2>3, <2>4, <2>6, NewRouterType, Zenon DEF TypeOK, Inc
  <2> QED BY <1>5, <2>5, <2>6 DEF SessionTransition
<1>6. ASSUME NEW n \in Nodes, Restart(n) PROVE TypeOK'
  <2>1. gen[n] < MaxGen /\ NewEventRouter(n, n) /\ NewMaster(n)
    BY <1>6 DEF Restart
  <2>2. /\ master' \in [Nodes -> BOOLEAN]
        /\ failed' \subseteq Nodes
        /\ UNCHANGED <<localEvents, globalEvents, requests, ingested, losses>>
    BY <1>6, Zenon DEF Restart, TypeOK, networkVars
  <2> QED BY <2>1, <2>2, NewRouterType, NewMasterType, Zenon DEF TypeOK, Inc
<1>7. ASSUME NEW n \in Nodes, Lose(n) PROVE TypeOK'
  <2>1. /\ localEvents' \in [Nodes -> SUBSET Event]
        /\ globalEvents' \in [Nodes -> SUBSET GlobalEvent]
        /\ requests' \in [Nodes -> SUBSET Nat]
        /\ losses' \in 0 .. MaxLosses
    <3>1. losses' \in 0 .. MaxLosses
      BY <1>7 DEF Lose, TypeOK
    <3>2. CASE \E e \in localEvents[n] : localEvents' = [localEvents EXCEPT ![n] = @ \ {e}]
               /\ UNCHANGED <<globalEvents, requests>>
      BY <3>1, <3>2 DEF TypeOK
    <3>3. CASE \E g \in globalEvents[n] : globalEvents' = [globalEvents EXCEPT ![n] = @ \ {g}]
               /\ UNCHANGED <<localEvents, requests>>
      BY <3>1, <3>3 DEF TypeOK
    <3>4. CASE \E s \in requests[n] : requests' = [requests EXCEPT ![n] = @ \ {s}]
               /\ UNCHANGED <<localEvents, globalEvents>>
      BY <3>1, <3>4, SMTT(30) DEF TypeOK
    <3> QED BY <1>7, <3>2, <3>3, <3>4 DEF Lose
  <2> QED BY <1>7, <2>1, Zenon DEF Lose, TypeOK, masterVars, routerVars, Inc
<1>8. CASE UNCHANGED vars
  BY <1>8, Zenon DEF TypeOK, vars, routerVars, masterVars, networkVars, Inc
<1> QED
  BY <1>1, <1>2, <1>3, <1>4, <1>5, <1>6, <1>7, <1>8, TypeProcess, TypeReceive DEF Next

(***************************************************************************)
(* The variables of EventLog always have their types.                      *)
(***************************************************************************)
THEOREM TypeCorrect == Spec => []TypeOK
BY TypeInit, TypeStep, PTL DEF Spec
-----------------------------------------------------------------------------
(***************************************************************************)
(* What _event_processor does to the logs and to the network: it appends   *)
(* some events to the current log and broadcasts exactly those.            *)
(***************************************************************************)
LEMMA ProcessFacts ==
    ASSUME TypeOK, NEW m \in Nodes, NEW e \in localEvents[m], ProcessLocalEvent(m, e)
    PROVE  \E es \in Seq(Event) :
              /\ logs' = [logs EXCEPT ![m][Inc(m)] = Log(m) \o es]
              /\ PublishGlobal(GlobalRange(m, Log(m) \o es, Len(Log(m)), Len(Log(m) \o es)))
<1> DEFINE o == e.origin
           filled == Ingest(mstore[m][o], mnext[m][o], e.idx, e)
<1>1. e \in Event /\ o \in Origins /\ e.idx \in Nat
  BY DEF TypeOK, Event
<1>2. IsStore(mstore[m][o]) /\ mnext[m][o] \in Nat
  BY <1>1 DEF TypeOK
<1>3. IsStore(filled)
  BY <1>1, <1>2, IngestStore
<1> HIDE DEF filled
<1>4. PICK k \in DrainRange(filled, mnext[m][o]) :
        /\ DrainStops(filled, mnext[m][o], k)
        /\ logs' = [logs EXCEPT ![m][Inc(m)] = Log(m) \o Drained(filled, mnext[m][o], k)]
        /\ PublishGlobal(GlobalRange(m, Log(m) \o Drained(filled, mnext[m][o], k),
               Len(Log(m)), Len(Log(m) \o Drained(filled, mnext[m][o], k))))
  BY Zenon DEF ProcessLocalEvent, filled
<1>5. Drained(filled, mnext[m][o], k) \in Seq(Event)
  BY <1>2, <1>3, <1>4, DrainFacts, ZenonT(30)
<1> QED BY <1>4, <1>5, Zenon

(***************************************************************************)
(* The current log of a master, before and after events are appended.      *)
(***************************************************************************)
LEMMA AppendFacts ==
    ASSUME TypeOK, NEW m \in Nodes, NEW es \in Seq(Event),
           logs' = [logs EXCEPT ![m][Inc(m)] = Log(m) \o es]
    PROVE  /\ Log(m) \in Seq(Event)
           /\ Inc(m) \in 1 .. Len(logs[m])
           /\ \A q \in Nodes : Len(logs'[q]) = Len(logs[q])
           /\ \A q \in Nodes : \A k \in 1 .. Len(logs[q]) :
                (q # m \/ k # Inc(m)) => logs'[q][k] = logs[q][k]
           /\ logs'[m][Inc(m)] = Log(m) \o es
<1>1. Log(m) \in Seq(Event) /\ Inc(m) \in 1 .. Len(logs[m]) /\ logs[m] \in Seq(Seq(Event))
  BY EventLogAssumption DEF TypeOK, Log, Inc
<1>2. logs \in [Nodes -> Seq(Seq(Event))] /\ logs' = [logs EXCEPT ![m][Inc(m)] = Log(m) \o es]
  BY Zenon DEF TypeOK
<1> QED BY ONLY <1>1, <1>2, m \in Nodes

(***************************************************************************)
(* Logs only grow.                                                         *)
(***************************************************************************)
LEMMA GrowStep == TypeOK /\ [Next]_vars => LogsGrow
<1> SUFFICES ASSUME TypeOK, [Next]_vars PROVE LogsGrow
  BY Zenon
<1>9. logs \in [Nodes -> Seq(Seq(Event))]
  BY Zenon DEF TypeOK
<1>0. \A q \in Nodes : logs[q] \in Seq(Seq(Event)) /\ Len(logs[q]) \in Nat
  BY ONLY <1>9
<1>1. ASSUME UNCHANGED logs PROVE LogsGrow
  <2>1. \A q \in Nodes : \A k \in 1 .. Len(logs[q]) : Len(logs[q][k]) \in Nat
    BY <1>0
  <2> QED BY <1>0, <1>1, <2>1 DEF LogsGrow
<1>2. ASSUME NEW n \in Nodes, NewMaster(n) PROVE LogsGrow
  <2>1. /\ Len(Append(logs[n], <<>>)) = Len(logs[n]) + 1
        /\ \A k \in 1 .. Len(logs[n]) : Append(logs[n], <<>>)[k] = logs[n][k]
    BY <1>0
  <2>2. \A q \in Nodes : \A k \in 1 .. Len(logs[q]) : Len(logs[q][k]) \in Nat
    BY <1>0
  <2>3. logs' = [logs EXCEPT ![n] = Append(logs[n], <<>>)]
    BY <1>2 DEF NewMaster
  <2>4. \A q \in Nodes :
           /\ Len(logs'[q]) \in Nat
           /\ Len(logs[q]) <= Len(logs'[q])
           /\ \A k \in 1 .. Len(logs[q]) : logs'[q][k] = logs[q][k]
    BY ONLY <1>9, <1>0, <2>1, <2>3, n \in Nodes
  <2> QED BY <2>2, <2>4 DEF LogsGrow
<1>3. ASSUME NEW m \in Nodes, NEW e \in localEvents[m], ProcessLocalEvent(m, e)
      PROVE  LogsGrow
  <2>1. PICK es \in Seq(Event) : logs' = [logs EXCEPT ![m][Inc(m)] = Log(m) \o es]
    BY <1>3, ProcessFacts
  <2>2. /\ Log(m) \in Seq(Event)
        /\ Inc(m) \in 1 .. Len(logs[m])
        /\ \A q \in Nodes : Len(logs'[q]) = Len(logs[q])
        /\ \A q \in Nodes : \A k \in 1 .. Len(logs[q]) :
             (q # m \/ k # Inc(m)) => logs'[q][k] = logs[q][k]
        /\ logs'[m][Inc(m)] = Log(m) \o es
    BY <2>1, AppendFacts, Zenon
  <2>3. /\ Len(Log(m)) <= Len(Log(m) \o es)
        /\ \A i \in 1 .. Len(Log(m)) : (Log(m) \o es)[i] = Log(m)[i]
    BY <2>2
  <2>4. \A q \in Nodes : \A k \in 1 .. Len(logs[q]) : Len(logs[q][k]) \in Nat
    BY <1>0
  <2>5. logs[m][Inc(m)] = Log(m)
    BY DEF Log
  <2>6. \A q \in Nodes : \A k \in 1 .. Len(logs[q]) :
           (q = m /\ k = Inc(m)) \/ logs'[q][k] = logs[q][k]
    BY <2>2
  <2>7. Len(Log(m)) \in Nat /\ Len(Log(m) \o es) \in Nat
    BY <2>2
  <2>8. ASSUME NEW q \in Nodes, NEW k \in 1 .. Len(logs[q])
        PROVE  /\ Len(logs[q][k]) \in Nat
               /\ Len(logs'[q][k]) \in Nat
               /\ Len(logs[q][k]) <= Len(logs'[q][k])
               /\ \A i \in 1 .. Len(logs[q][k]) : logs'[q][k][i] = logs[q][k][i]
    <3>1. CASE q = m /\ k = Inc(m)
      BY <3>1, <2>2, <2>3, <2>4, <2>5, <2>7
    <3>2. CASE logs'[q][k] = logs[q][k]
      BY <3>2, <2>4
    <3> QED BY <3>1, <3>2, <2>6
  <2>9. \A q \in Nodes : Len(logs'[q]) \in Nat /\ Len(logs[q]) <= Len(logs'[q])
    BY <1>0, <2>2
  <2> QED BY <2>8, <2>9, Zenon DEF LogsGrow
<1>4. CASE \E n \in Nodes : \E e \in localEvents[n] : ProcessLocalEvent(n, e)
  BY <1>3, <1>4
<1>5. CASE \E n \in Nodes : NewMaster(n)
  BY <1>2, <1>5
<1>6. CASE UNCHANGED logs
  BY <1>1, <1>6
<1>7. \/ \E n \in Nodes : \E e \in localEvents[n] : ProcessLocalEvent(n, e)
      \/ \E n \in Nodes : NewMaster(n)
      \/ UNCHANGED logs
  BY ZenonT(30) DEF Next, vars, masterVars, IngestEvent, SimpleRetry, ReplayEventLog, ReceiveGlobal,
         NackRequest, SessionTransition, Restart, Lose
<1> QED BY <1>4, <1>5, <1>6, <1>7, Zenon

(***************************************************************************)
(* What was logged stays logged.                                           *)
(***************************************************************************)
LEMMA LoggedAtGrows ==
    ASSUME LogsGrow, NEW m \in Nodes, NEW i \in Nat, NEW e,
           logs[m] \in Seq(Seq(Event)), LoggedAt(m, i, e)
    PROVE  LoggedAt(m, i, e)'
<1>1. PICK k \in 1 .. Len(logs[m]) : i \in 1 .. Len(logs[m][k]) /\ logs[m][k][i] = e
  BY DEF LoggedAt, Inc
<1>2. Len(logs[m]) \in Nat /\ Len(logs'[m]) \in Nat /\ Len(logs[m]) <= Len(logs'[m])
  BY DEF LogsGrow
<1>3. /\ Len(logs[m][k]) \in Nat
      /\ Len(logs'[m][k]) \in Nat
      /\ Len(logs[m][k]) <= Len(logs'[m][k])
      /\ \A j \in 1 .. Len(logs[m][k]) : logs'[m][k][j] = logs[m][k][j]
  BY Zenon DEF LogsGrow
<1>4. k \in 1 .. Len(logs'[m])
  BY <1>2
<1>5. i \in 1 .. Len(logs'[m][k]) /\ logs'[m][k][i] = e
  BY <1>1, <1>3, SMTT(30)
<1> QED BY <1>4, <1>5 DEF LoggedAt, Inc

LEMMA WasLoggedGrows ==
    ASSUME LogsGrow, NEW g \in GlobalEvent, logs[g.origin] \in Seq(Seq(Event)), WasLogged(g)
    PROVE  WasLogged(g)'
<1> DEFINE m == g.origin
           k == g.inc
<1>1. m \in Nodes /\ k \in Nat /\ g.idx \in Nat
  BY DEF GlobalEvent
<1>2. k \in 1 .. Len(logs[m]) /\ g.idx + 1 \in 1 .. Len(logs[m][k]) /\ logs[m][k][g.idx + 1] = g.event
  BY DEF WasLogged, Inc
<1>3. Len(logs[m]) \in Nat /\ Len(logs'[m]) \in Nat /\ Len(logs[m]) <= Len(logs'[m])
  BY <1>1 DEF LogsGrow
<1>4. /\ Len(logs[m][k]) \in Nat
      /\ Len(logs'[m][k]) \in Nat
      /\ Len(logs[m][k]) <= Len(logs'[m][k])
      /\ \A j \in 1 .. Len(logs[m][k]) : logs'[m][k][j] = logs[m][k][j]
  BY <1>1, <1>2, Zenon DEF LogsGrow
<1>5. k \in 1 .. Len(logs'[m])
  BY <1>2, <1>3
<1>6. g.idx + 1 \in 1 .. Len(logs'[m][k]) /\ logs'[m][k][g.idx + 1] = g.event
  <2> DEFINE a == Len(logs[m][k])
             b == Len(logs'[m][k])
             j == g.idx + 1
  <2>1. a \in Nat /\ b \in Nat /\ a <= b /\ j \in 1 .. a
    BY <1>2, <1>4, Zenon
  <2>2. logs'[m][k][j] = logs[m][k][j]
    BY <1>4, <2>1, Zenon
  <2> HIDE DEF a, b
  <2>3. j \in 1 .. b
    BY <2>1
  <2> QED BY <1>2, <2>2, <2>3 DEF b
<1> QED BY <1>5, <1>6 DEF WasLogged, Inc

(***************************************************************************)
(* The broadcasts of a range of the current log are in that log.           *)
(***************************************************************************)
LEMMA RangeWasLogged ==
    ASSUME TypeOK, NEW m \in Nodes, NEW log \in Seq(Event),
           NEW from \in Nat, NEW to \in Nat, to <= Len(log),
           Inc(m) \in 1 .. Len(logs'[m]), logs'[m][Inc(m)] = log,
           NEW g \in GlobalRange(m, log, from, to)
    PROVE  WasLogged(g)'
<1>1. PICK i \in from .. to - 1 : g = GlobalForwarderEvent(m, log, i)
  BY DEF GlobalRange
<1>2. g.origin = m /\ g.inc = Inc(m) /\ g.idx = i /\ g.event = log[i + 1]
  BY <1>1 DEF GlobalForwarderEvent
<1>3. i + 1 \in 1 .. Len(log)
  OBVIOUS
<1>4. g.inc \in 1 .. Len(logs'[g.origin])
  BY <1>2
<1>5. logs'[g.origin][g.inc] = log
  BY <1>2
<1> QED BY <1>2, <1>3, <1>4, <1>5 DEF WasLogged, Inc

(***************************************************************************)
(* Every step keeps the broadcasts on their way faithful to the logs.      *)
(***************************************************************************)
LEMMA MessagesStep == TypeOK /\ MessagesWereLogged /\ [Next]_vars => MessagesWereLogged'
<1> SUFFICES ASSUME TypeOK, MessagesWereLogged, [Next]_vars PROVE MessagesWereLogged'
  OBVIOUS
<1>1. LogsGrow
  BY GrowStep
<1>2. ASSUME NEW n \in Nodes, NEW g \in globalEvents[n] PROVE WasLogged(g)'
  <2>1. g \in GlobalEvent /\ logs[g.origin] \in Seq(Seq(Event)) /\ WasLogged(g)
    BY SMTT(30) DEF TypeOK, MessagesWereLogged, GlobalEvent
  <2> QED BY <1>1, <2>1, WasLoggedGrows
<1>3. CASE \E m \in Nodes : \E e \in localEvents[m] : ProcessLocalEvent(m, e)
  <2>1. PICK m \in Nodes : \E e \in localEvents[m] : ProcessLocalEvent(m, e)
    BY <1>3
  <2>2. PICK es \in Seq(Event) :
              /\ logs' = [logs EXCEPT ![m][Inc(m)] = Log(m) \o es]
              /\ PublishGlobal(GlobalRange(m, Log(m) \o es, Len(Log(m)), Len(Log(m) \o es)))
    BY <2>1, ProcessFacts
  <2> DEFINE log == Log(m) \o es
  <2>3. Log(m) \in Seq(Event) /\ Inc(m) \in 1 .. Len(logs'[m]) /\ logs'[m][Inc(m)] = log
    BY <2>2, AppendFacts, Zenon
  <2>4. log \in Seq(Event) /\ Len(log) \in Nat /\ Len(Log(m)) \in Nat /\ Len(log) <= Len(log)
    BY <2>3
  <2>5. \A n \in Nodes : globalEvents'[n] =
           globalEvents[n] \cup GlobalRange(m, log, Len(Log(m)), Len(log))
    BY <2>2 DEF PublishGlobal
  <2> HIDE DEF log
  <2>6. \A g \in GlobalRange(m, log, Len(Log(m)), Len(log)) : WasLogged(g)'
    BY <2>3, <2>4, RangeWasLogged
  <2> QED BY <1>2, <2>5, <2>6, Zenon DEF MessagesWereLogged
<1>4. CASE \E m \in Nodes : ReplayEventLog(m)
  <2>1. PICK m \in Nodes : ReplayEventLog(m)
    BY <1>4
  <2>2. PICK since \in requests[m] : PublishGlobal(Replayed(m, since))
    BY <2>1 DEF ReplayEventLog
  <2>3. since \in Nat
    BY Zenon DEF TypeOK
  <2>4. UNCHANGED logs
    BY <2>1, Zenon DEF ReplayEventLog, masterVars
  <2>5. Inc(m) \in 1 .. Len(logs'[m]) /\ logs'[m][Inc(m)] = Log(m)
    BY <2>4, EventLogAssumption DEF TypeOK, Inc, Log
  <2>6. \A g \in Replayed(m, since) : WasLogged(g)'
    BY <2>3, <2>5, ReplayedBounds, RangeWasLogged, Zenon DEF Replayed
  <2>7. \A n \in Nodes : globalEvents'[n] = globalEvents[n] \cup Replayed(m, since)
    BY <2>2, Zenon DEF PublishGlobal
  <2> QED BY <1>2, <2>6, <2>7, Zenon DEF MessagesWereLogged
<1>5. CASE \A n \in Nodes : globalEvents'[n] \subseteq globalEvents[n]
  BY <1>2, <1>5 DEF MessagesWereLogged
<1>6. \/ \E m \in Nodes : \E e \in localEvents[m] : ProcessLocalEvent(m, e)
      \/ \E m \in Nodes : ReplayEventLog(m)
      \/ \A n \in Nodes : globalEvents'[n] \subseteq globalEvents[n]
  <2>1. globalEvents \in [Nodes -> SUBSET GlobalEvent]
    BY Zenon DEF TypeOK
  <2>2. ASSUME NEW n \in Nodes, NEW S, globalEvents' = [globalEvents EXCEPT ![n] = @ \ S]
        PROVE  \A p \in Nodes : globalEvents'[p] \subseteq globalEvents[p]
    BY <2>1, <2>2
  <2> QED
    BY <2>2, ZenonT(30) DEF Next, vars, networkVars, IngestEvent, SimpleRetry, ReceiveGlobal, NackRequest,
         SessionTransition, Restart, Lose
<1> QED BY <1>3, <1>4, <1>5, <1>6
-----------------------------------------------------------------------------
(***************************************************************************)
(* How a step can change what a router has buffered and released: by one   *)
(* message it accepts, or by being replaced.                               *)
(***************************************************************************)
LEMMA RouterSteps ==
    ASSUME TypeOK, [Next]_vars
    PROVE  \/ UNCHANGED <<session, store, next, released>>
           \/ \E n \in Nodes : \E g \in globalEvents[n] : Accept(n, g)
           \/ \E n \in Nodes : \E m \in Nodes : NewEventRouter(n, m)
<1>1. CASE UNCHANGED vars
  BY <1>1 DEF vars, routerVars
<1>2. CASE Next
  <2>1. PICK n \in Nodes :
          \/ IngestEvent(n)
          \/ \E i \in out[n] : SimpleRetry(n, i)
          \/ \E e \in localEvents[n] : ProcessLocalEvent(n, e)
          \/ ReplayEventLog(n)
          \/ \E g \in globalEvents[n] : ReceiveGlobal(n, g)
          \/ NackRequest(n)
          \/ \E m \in Electable : SessionTransition(n, m)
          \/ Restart(n)
          \/ Lose(n)
    BY <1>2, Zenon DEF Next
  <2>2. CASE IngestEvent(n)
    BY <2>2, Zenon DEF IngestEvent
  <2>3. CASE \E i \in out[n] : SimpleRetry(n, i)
    BY <2>3, Zenon DEF SimpleRetry, routerVars
  <2>4. CASE \E e \in localEvents[n] : ProcessLocalEvent(n, e)
    BY <2>4, Zenon DEF ProcessLocalEvent, routerVars
  <2>5. CASE ReplayEventLog(n)
    BY <2>5, Zenon DEF ReplayEventLog, routerVars
  <2>6. CASE \E g \in globalEvents[n] : ReceiveGlobal(n, g)
    BY <2>6, Zenon DEF ReceiveGlobal, Drop, FailAssertion, routerVars
  <2>7. CASE NackRequest(n)
    BY <2>7, Zenon DEF NackRequest
  <2>8. CASE \E m \in Electable : SessionTransition(n, m)
    BY <2>8, EventLogAssumption, Zenon DEF SessionTransition
  <2>9. CASE Restart(n)
    BY <2>9, Zenon DEF Restart
  <2>10. CASE Lose(n)
    BY <2>10 DEF Lose, routerVars
  <2> QED BY <2>1, <2>2, <2>3, <2>4, <2>5, <2>6, <2>7, <2>8, <2>9, <2>10, Zenon
<1> QED BY <1>1, <1>2, Zenon

(***************************************************************************)
(* What ingesting (i, e) and draining up to k leaves in a buffer that held *)
(* s and hands out after rel: the stored entries and the new one, each at  *)
(* its own index.                                                          *)
(***************************************************************************)
KeepsPlaces(s, nx, i, e, rel, rest, longer, k) ==
    /\ k \in Nat
    /\ \A j \in DOMAIN rest :
         /\ j \in Nat /\ j >= k
         /\ (j \in DOMAIN s /\ rest[j] = s[j]) \/ (j = i /\ rest[j] = e)
    /\ Len(longer) = k
    /\ \A j \in 1 .. k :
         \/ j \in 1 .. nx /\ longer[j] = rel[j]
         \/ j - 1 \in DOMAIN s /\ longer[j] = s[j - 1]
         \/ j - 1 = i /\ longer[j] = e

(***************************************************************************)
(* OrderedBuffer.ingest followed by drain_indexed keeps every event at the *)
(* index it came with.                                                     *)
(***************************************************************************)
LEMMA BufferStep ==
    ASSUME NEW s, IsStore(s), NEW nx \in Nat, \A j \in DOMAIN s : j >= nx,
           NEW i \in Nat, NEW e \in Event,
           NEW rel \in Seq(Event), Len(rel) = nx,
           NEW f, f = Ingest(s, nx, i, e),
           NEW k \in DrainRange(f, nx), DrainStops(f, nx, k)
    PROVE  KeepsPlaces(s, nx, i, e, rel, Remaining(f, nx, k), rel \o Drained(f, nx, k), k)
<1> DEFINE drained == Drained(f, nx, k)
           rest == Remaining(f, nx, k)
           longer == rel \o drained
<1>1. /\ IsStore(f)
      /\ \A j \in DOMAIN f : (j \in DOMAIN s /\ f[j] = s[j]) \/ (j = i /\ f[j] = e /\ i >= nx)
  BY IngestStore
<1>2. /\ k \in Nat /\ k >= nx
      /\ drained \in Seq(Event)
      /\ Len(drained) = k - nx
      /\ \A j \in 1 .. k - nx : nx + j - 1 \in DOMAIN f /\ drained[j] = f[nx + j - 1]
      /\ IsStore(rest)
      /\ DOMAIN rest = DOMAIN f \ (nx .. k - 1)
      /\ \A j \in DOMAIN rest : rest[j] = f[j]
  <2> HIDE DEF rest, drained
  <2> QED BY ONLY <1>1, DrainFacts, nx \in Nat, k \in DrainRange(f, nx), DrainStops(f, nx, k), ZenonT(30) DEF rest, drained
<1> HIDE DEF drained, rest
<1>3. /\ Len(longer) = Len(rel) + Len(drained)
      /\ \A j \in 1 .. Len(rel) + Len(drained) :
            longer[j] = IF j <= Len(rel) THEN rel[j] ELSE drained[j - Len(rel)]
  <2>1. drained \in Seq(Event)
    BY <1>2, Zenon
  <2> QED BY ONLY rel \in Seq(Event), <2>1, ConcatProperties
<1> HIDE DEF longer
<1>4. Len(longer) = k
  BY <1>2, <1>3
<1>5. \A j \in DOMAIN f : j \in Nat /\ j >= nx
  BY <1>1, Zenon DEF IsStore
<1>6. \A j \in DOMAIN rest : j \in Nat /\ j >= k
  BY <1>2, <1>5, SMTT(30)
<1>7. ASSUME NEW j \in 1 .. k
      PROVE  \/ j \in 1 .. nx /\ longer[j] = rel[j]
             \/ j - 1 \in DOMAIN s /\ longer[j] = s[j - 1]
             \/ j - 1 = i /\ longer[j] = e
  <2>0. nx \in Nat /\ Len(rel) = nx /\ k \in Nat /\ k >= nx /\ Len(drained) = k - nx
    BY <1>2, Zenon
  <2>1. CASE j <= nx
    BY ONLY <1>3, <2>0, <2>1, j \in 1 .. k
  <2>2. CASE j > nx
    <3>1. longer[j] = drained[j - nx] /\ j - nx \in 1 .. k - nx
      BY ONLY <1>3, <2>0, <2>2, j \in 1 .. k
    <3>2. nx + (j - nx) - 1 = j - 1
      BY ONLY <2>0, j \in 1 .. k
    <3>3. j - 1 \in DOMAIN f /\ longer[j] = f[j - 1]
      BY <1>2, <3>1, <3>2, Zenon
    <3> QED BY <1>1, <3>3, Zenon
  <2> QED BY ONLY <2>0, <2>1, <2>2, j \in 1 .. k
<1>8. KeepsPlaces(s, nx, i, e, rel, rest, longer, k)
  BY <1>1, <1>2, <1>4, <1>6, <1>7, Zenon DEF KeepsPlaces
<1> QED BY <1>8 DEF rest, longer, drained

(***************************************************************************)
(* A router that accepts a broadcast of its master buffers and releases    *)
(* only events that are logged at their indices (_run_ext_in).             *)
(***************************************************************************)
LEMMA AcceptKeeps ==
    ASSUME RouterInv, NEW n \in Nodes, NEW g \in globalEvents[n], Accept(n, g)
    PROVE  /\ session' = session
           /\ \A p \in Nodes \ {n} : /\ store'[p] = store[p]
                                     /\ next'[p] = next[p]
                                     /\ released'[p] = released[p]
           /\ \A i \in DOMAIN store'[n] :
                i \in Nat /\ i >= next'[n] /\ LoggedAt(session[n], i + 1, store'[n][i])
           /\ Len(released'[n]) = next'[n]
           /\ \A i \in 1 .. Len(released'[n]) : LoggedAt(session[n], i, released'[n][i])
<1> DEFINE filled == Ingest(store[n], next[n], g.idx, g.event)
<1>1. PICK k \in DrainRange(filled, next[n]) :
        /\ DrainStops(filled, next[n], k)
        /\ store' = [store EXCEPT ![n] = Remaining(filled, next[n], k)]
        /\ next' = [next EXCEPT ![n] = k]
        /\ released' = [released EXCEPT ![n] = @ \o Drained(filled, next[n], k)]
  BY Zenon DEF Accept
<1>2. session' = session /\ g.origin = session[n]
  BY ZenonT(30) DEF Accept, Accepts
<1>3. /\ IsStore(store[n]) /\ DOMAIN store = Nodes
      /\ next[n] \in Nat /\ DOMAIN next = Nodes
      /\ released[n] \in Seq(Event) /\ DOMAIN released = Nodes
      /\ session[n] \in Nodes
      /\ g \in GlobalEvent
  BY Zenon DEF RouterInv, TypeOK
<1>4. g.idx \in Nat /\ g.event \in Event /\ g.inc \in Nat
  BY <1>3, Zenon DEF GlobalEvent
<1>5. LoggedAt(session[n], g.idx + 1, g.event)
  BY <1>2, Zenon DEF RouterInv, MessagesWereLogged, WasLogged, LoggedAt
<1>6. \A i \in DOMAIN store[n] : i >= next[n] /\ LoggedAt(session[n], i + 1, store[n][i])
  BY Zenon DEF RouterInv, StoredWasLogged
<1>7. Len(released[n]) = next[n] /\ \A i \in 1 .. Len(released[n]) : LoggedAt(session[n], i, released[n][i])
  BY Zenon DEF RouterInv, ReleasedCount, ReleasedWasLogged
<1>8. /\ next'[n] = k
      /\ store'[n] = Remaining(filled, next[n], k)
      /\ released'[n] = released[n] \o Drained(filled, next[n], k)
      /\ \A p \in Nodes \ {n} : /\ store'[p] = store[p]
                                /\ next'[p] = next[p]
                                /\ released'[p] = released[p]
  BY <1>1, <1>3, Zenon
<1> DEFINE rest == Remaining(filled, next[n], k)
           longer == released[n] \o Drained(filled, next[n], k)
<1>9. /\ k \in Nat
      /\ \A j \in DOMAIN rest :
           /\ j \in Nat /\ j >= k
           /\ (j \in DOMAIN store[n] /\ rest[j] = store[n][j]) \/ (j = g.idx /\ rest[j] = g.event)
      /\ Len(longer) = k
      /\ \A j \in 1 .. k :
           \/ j \in 1 .. next[n] /\ longer[j] = released[n][j]
           \/ j - 1 \in DOMAIN store[n] /\ longer[j] = store[n][j - 1]
           \/ j - 1 = g.idx /\ longer[j] = g.event
  <2>1. /\ IsStore(store[n]) /\ next[n] \in Nat /\ \A j \in DOMAIN store[n] : j >= next[n]
        /\ g.idx \in Nat /\ g.event \in Event
        /\ released[n] \in Seq(Event) /\ Len(released[n]) = next[n]
    BY <1>3, <1>4, <1>6, <1>7, Zenon
  <2>2. filled = Ingest(store[n], next[n], g.idx, g.event)
    BY Zenon
  <2>3. k \in DrainRange(filled, next[n]) /\ DrainStops(filled, next[n], k)
    BY <1>1, Zenon
  <2> HIDE DEF filled
  <2>4. KeepsPlaces(store[n], next[n], g.idx, g.event, released[n], rest, longer, k)
    BY ONLY <2>1, <2>2, <2>3, BufferStep, ZenonT(30)
  <2> HIDE DEF rest, longer
  <2> QED BY ONLY <2>4, Zenon DEF KeepsPlaces
<1>10. store'[n] = rest /\ released'[n] = longer
  BY <1>8, Zenon
<1> HIDE DEF rest, longer
<1>11. \A j \in DOMAIN rest : LoggedAt(session[n], j + 1, rest[j])
  BY <1>5, <1>6, <1>9, Zenon
<1>12. ASSUME NEW j \in 1 .. k PROVE LoggedAt(session[n], j, longer[j])
  <2>1. CASE j \in 1 .. next[n] /\ longer[j] = released[n][j]
    BY <1>7, <2>1, Zenon
  <2>2. CASE j - 1 \in DOMAIN store[n] /\ longer[j] = store[n][j - 1]
    <3>1. LoggedAt(session[n], (j - 1) + 1, store[n][j - 1])
      BY <1>6, <2>2, Zenon
    <3>2. (j - 1) + 1 = j
      BY ONLY <1>9, j \in 1 .. k
    <3> QED BY <2>2, <3>1, <3>2, Zenon
  <2>3. CASE j - 1 = g.idx /\ longer[j] = g.event
    <3>1. g.idx + 1 = j
      BY ONLY <1>9, <2>3, j \in 1 .. k
    <3> QED BY <1>5, <2>3, <3>1, Zenon
  <2> QED BY <1>9, <2>1, <2>2, <2>3, Zenon
<1> QED
  BY <1>2, <1>8, <1>9, <1>10, <1>11, <1>12, Zenon

(***************************************************************************)
(* Every step preserves the invariant of the routers.                      *)
(***************************************************************************)
LEMMA RouterStep == RouterInv /\ [Next]_vars => RouterInv'
<1> SUFFICES ASSUME RouterInv, [Next]_vars PROVE RouterInv'
  OBVIOUS
<1>1. TypeOK /\ TypeOK' /\ MessagesWereLogged'
  BY TypeStep, MessagesStep DEF RouterInv
<1>2. LogsGrow
  BY <1>1, GrowStep
<1>3. ASSUME NEW m \in Nodes, NEW i \in Nat, NEW e, LoggedAt(m, i, e)
      PROVE  LoggedAt(m, i, e)'
  <2>1. logs[m] \in Seq(Seq(Event))
    BY <1>1, Zenon DEF TypeOK
  <2> QED BY <1>2, <1>3, <2>1, LoggedAtGrows
<1> DEFINE Fine(p) ==
        /\ \A i \in DOMAIN store'[p] :
             i \in Nat /\ i >= next'[p] /\ LoggedAt(session'[p], i + 1, store'[p][i])
        /\ Len(released'[p]) = next'[p]
        /\ \A i \in 1 .. Len(released'[p]) : LoggedAt(session'[p], i, released'[p][i])
<1>4. ASSUME NEW p \in Nodes, session'[p] = session[p], store'[p] = store[p],
             next'[p] = next[p], released'[p] = released[p]
      PROVE  Fine(p)
  <2>1. \A i \in DOMAIN store[p] : i \in Nat
    BY Zenon DEF RouterInv, TypeOK, IsStore
  <2>2. /\ \A i \in DOMAIN store[p] : i >= next[p] /\ LoggedAt(session[p], i + 1, store[p][i])
        /\ Len(released[p]) = next[p]
        /\ \A i \in 1 .. Len(released[p]) : LoggedAt(session[p], i, released[p][i])
    BY ZenonT(30) DEF RouterInv, StoredWasLogged, ReleasedCount, ReleasedWasLogged
  <2> QED BY ONLY <1>4, <2>1, <2>2, ZenonT(30)
<1>5. ASSUME NEW n \in Nodes, NEW g \in globalEvents[n], Accept(n, g), NEW p \in Nodes
      PROVE  Fine(p)
  <2>1. /\ session' = session
        /\ \A q \in Nodes \ {n} : /\ store'[q] = store[q]
                                  /\ next'[q] = next[q]
                                  /\ released'[q] = released[q]
        /\ \A i \in DOMAIN store'[n] :
             i \in Nat /\ i >= next'[n] /\ LoggedAt(session[n], i + 1, store'[n][i])
        /\ Len(released'[n]) = next'[n]
        /\ \A i \in 1 .. Len(released'[n]) : LoggedAt(session[n], i, released'[n][i])
    BY <1>5, AcceptKeeps, Zenon
  <2>2. CASE p = n
    BY ONLY <2>1, <2>2, Zenon
  <2>3. CASE p # n
    <3> HIDE DEF Fine
    <3> QED BY <1>4, <2>1, <2>3, Zenon
  <2> QED BY <2>2, <2>3, Zenon
<1>6. ASSUME NEW n \in Nodes, NEW m \in Nodes, NewEventRouter(n, m), NEW p \in Nodes
      PROVE  Fine(p)
  <2>1. /\ DOMAIN store = Nodes /\ DOMAIN next = Nodes /\ DOMAIN released = Nodes /\ DOMAIN session = Nodes
    BY <1>1, Zenon DEF TypeOK
  <2>2. /\ store' = [store EXCEPT ![n] = EmptyStore]
        /\ next' = [next EXCEPT ![n] = 0]
        /\ released' = [released EXCEPT ![n] = <<>>]
        /\ session' = [session EXCEPT ![n] = m]
    BY <1>6 DEF NewEventRouter
  <2>3. CASE p = n
    BY <2>1, <2>2, <2>3 DEF EmptyStore
  <2>4. CASE p # n
    <3>1. /\ store'[p] = store[p]
          /\ next'[p] = next[p]
          /\ released'[p] = released[p]
          /\ session'[p] = session[p]
      BY <2>1, <2>2, <2>4
    <3> HIDE DEF Fine
    <3> QED BY <1>4, <3>1, Zenon
  <2> QED BY <2>3, <2>4, Zenon
<1>7. \A p \in Nodes : Fine(p)
  <2> HIDE DEF Fine
  <2> QED BY <1>1, <1>4, <1>5, <1>6, RouterSteps, Zenon
<1> DEFINE LoggedNow(m, i, e) ==
        \E k \in 1 .. Len(logs'[m]) : i \in 1 .. Len(logs'[m][k]) /\ logs'[m][k][i] = e
<1>8. \A m \in Nodes, i \in Nat : \A e : LoggedAt(m, i, e) => LoggedNow(m, i, e)
  BY <1>3, Zenon DEF LoggedAt, Inc
<1>9. ASSUME NEW p \in Nodes
      PROVE  /\ \A i \in DOMAIN store'[p] : i >= next'[p] /\ LoggedNow(session'[p], i + 1, store'[p][i])
             /\ Len(released'[p]) = next'[p]
             /\ \A i \in 1 .. Len(released'[p]) : LoggedNow(session'[p], i, released'[p][i])
  <2>1. session'[p] \in Nodes
    BY <1>1, Zenon DEF TypeOK
  <2>2. Fine(p)
    BY <1>7, Zenon
  <2> HIDE DEF LoggedNow
  <2> QED BY ONLY <1>8, <2>1, <2>2
<1> QED
  BY <1>1, <1>9, Zenon DEF RouterInv, StoredWasLogged, ReleasedCount, ReleasedWasLogged, LoggedAt, Inc
-----------------------------------------------------------------------------
(***************************************************************************)
(* The invariant of the routers holds in every reachable state: what is on *)
(* its way, buffered or released is in a log under its index.              *)
(***************************************************************************)
THEOREM RouterInvariant == Spec => []RouterInv
<1>1. Init => RouterInv
  <2> SUFFICES ASSUME Init PROVE RouterInv
    OBVIOUS
  <2>1. TypeOK
    BY TypeInit
  <2>2. MessagesWereLogged /\ StoredWasLogged /\ ReleasedCount /\ ReleasedWasLogged
    BY DEF Init, MessagesWereLogged, StoredWasLogged, ReleasedCount, ReleasedWasLogged, EmptyStore
  <2> QED BY <2>1, <2>2 DEF RouterInv
<1> QED BY <1>1, RouterStep, PTL DEF Spec

(***************************************************************************)
(* No loss, reordering, retry or replay makes a router release an event    *)
(* under an index its master did not log it under.                         *)
(***************************************************************************)
THEOREM ReleasedCorrect == Spec => []ReleasedWasLogged
<1>1. RouterInv => ReleasedWasLogged
  BY DEF RouterInv
<1> QED BY <1>1, RouterInvariant, PTL

(***************************************************************************)
(* While a master has one Master object, every router of its session has   *)
(* released a prefix of that object's log.                                 *)
(***************************************************************************)
THEOREM PrefixCorrect == Spec => []ReleasedIsPrefix
<1>1. RouterInv => ReleasedIsPrefix
  <2> SUFFICES ASSUME RouterInv, NEW n \in Nodes, Inc(session[n]) = 1
               PROVE  IsPrefixOf(released[n], logs[session[n]][1])
    BY Zenon DEF ReleasedIsPrefix
  <2> DEFINE log == logs[session[n]][1]
             rel == released[n]
  <2>1. rel \in Seq(Event) /\ log \in Seq(Event)
    <3>1. /\ released \in [Nodes -> Seq(Event)] /\ session \in [Nodes -> Nodes]
          /\ logs \in [Nodes -> Seq(Seq(Event))] /\ Len(logs[session[n]]) = 1
      BY Zenon DEF RouterInv, TypeOK, Inc
    <3> QED BY ONLY <3>1, n \in Nodes
  <2>2. \A i \in 1 .. Len(rel) : LoggedAt(session[n], i, rel[i])
    BY Zenon DEF RouterInv, ReleasedWasLogged
  <2>3. \A i \in 1 .. Len(rel) : i \in 1 .. Len(log) /\ log[i] = rel[i]
    <3> SUFFICES ASSUME NEW i \in 1 .. Len(rel) PROVE i \in 1 .. Len(log) /\ log[i] = rel[i]
      BY Zenon
    <3>1. PICK k \in 1 .. Inc(session[n]) :
             i \in 1 .. Len(logs[session[n]][k]) /\ logs[session[n]][k][i] = rel[i]
      BY <2>2, Zenon DEF LoggedAt
    <3>2. k = 1
      BY ONLY <3>1, Inc(session[n]) = 1
    <3> QED BY <3>1, <3>2, Zenon
  <2> HIDE DEF rel, log
  <2>4. IsPrefixOf(rel, log)
    BY <2>1, <2>3 DEF IsPrefixOf
  <2> QED BY <2>4, ZenonT(30) DEF rel, log
<1> QED BY <1>1, RouterInvariant, PTL

(***************************************************************************)
(* A step changes the session of a failed node only by restarting it, and  *)
(* a node fails only by FailAssertion.                                     *)
(***************************************************************************)
LEMMA FailedSteps ==
    ASSUME TypeOK, [Next]_vars, NEW n \in failed'
    PROVE  /\ session'[n] = session[n]
           /\ n \in failed \/ \E g \in globalEvents[n] : FailAssertion(n, g)
<1>1. CASE UNCHANGED vars
  BY <1>1, Zenon DEF vars, routerVars
<1>2. CASE Next
  <2>1. PICK p \in Nodes :
          \/ IngestEvent(p)
          \/ \E i \in out[p] : SimpleRetry(p, i)
          \/ \E e \in localEvents[p] : ProcessLocalEvent(p, e)
          \/ ReplayEventLog(p)
          \/ \E g \in globalEvents[p] : ReceiveGlobal(p, g)
          \/ NackRequest(p)
          \/ \E m \in Electable : SessionTransition(p, m)
          \/ Restart(p)
          \/ Lose(p)
    BY <1>2, Zenon DEF Next
  <2>2. CASE IngestEvent(p)
    BY <2>2, Zenon DEF IngestEvent
  <2>3. CASE \E i \in out[p] : SimpleRetry(p, i)
    BY <2>3, Zenon DEF SimpleRetry, routerVars
  <2>4. CASE \E e \in localEvents[p] : ProcessLocalEvent(p, e)
    BY <2>4, Zenon DEF ProcessLocalEvent, routerVars
  <2>5. CASE ReplayEventLog(p)
    BY <2>5, Zenon DEF ReplayEventLog, routerVars
  <2>6. CASE \E g \in globalEvents[p] : ReceiveGlobal(p, g)
    <3>1. PICK g \in globalEvents[p] : Drop(p, g) \/ FailAssertion(p, g) \/ Accept(p, g)
      BY <2>6 DEF ReceiveGlobal
    <3>2. CASE Drop(p, g)
      BY <3>2, Zenon DEF Drop, routerVars
    <3>3. CASE FailAssertion(p, g)
      <4>1. failed' = failed \cup {p} /\ session' = session
        BY <3>3, Zenon DEF FailAssertion, routerVars
      <4> QED BY <3>3, <4>1
    <3>4. CASE Accept(p, g)
      BY <3>4, Zenon DEF Accept
    <3> QED BY <3>1, <3>2, <3>3, <3>4, Zenon
  <2>7. CASE NackRequest(p)
    BY <2>7, Zenon DEF NackRequest
  <2>8. CASE \E m \in Electable : SessionTransition(p, m)
    <3>1. p \notin failed /\ failed' = failed /\ \E m \in Electable : session' = [session EXCEPT ![p] = m]
      BY <2>8, Zenon DEF SessionTransition, NewEventRouter
    <3> QED BY <3>1, Zenon DEF TypeOK
  <2>9. CASE Restart(p)
    <3>1. failed' = failed \ {p} /\ session' = [session EXCEPT ![p] = p]
      BY <2>9, SMTT(30) DEF Restart, NewEventRouter
    <3> QED BY <3>1, Zenon DEF TypeOK
  <2>10. CASE Lose(p)
    BY <2>10, Zenon DEF Lose, routerVars
  <2> QED BY <2>1, <2>2, <2>3, <2>4, <2>5, <2>6, <2>7, <2>8, <2>9, <2>10, Zenon
<1> QED BY <1>1, <1>2, Zenon

(***************************************************************************)
(* The assertion of OrderedBuffer.ingest holds for every router whose      *)
(* master has had one Master object: the buffered event and the one that   *)
(* arrives were both logged at the same index of the same log.             *)
(***************************************************************************)
THEOREM ConflictCorrect == Spec => []ConflictNeedsTwoMasters
<1>1. Init => ConflictNeedsTwoMasters
  BY DEF Init, ConflictNeedsTwoMasters
<1>2. RouterInv /\ ConflictNeedsTwoMasters /\ [Next]_vars => ConflictNeedsTwoMasters'
  <2> SUFFICES ASSUME RouterInv, ConflictNeedsTwoMasters, [Next]_vars, NEW n \in failed'
               PROVE  Len(logs'[session'[n]]) > 1
    BY DEF ConflictNeedsTwoMasters, Inc
  <2>1. TypeOK /\ TypeOK' /\ LogsGrow
    BY TypeStep, GrowStep DEF RouterInv
  <2>2. /\ session'[n] = session[n]
        /\ n \in failed \/ \E g \in globalEvents[n] : FailAssertion(n, g)
    BY <2>1, FailedSteps, Zenon
  <2>3. n \in Nodes /\ session[n] \in Nodes
    BY <2>1, Zenon DEF TypeOK
  <2>5. /\ Len(logs[session[n]]) \in Nat /\ Len(logs'[session[n]]) \in Nat
        /\ Len(logs[session[n]]) <= Len(logs'[session[n]])
    <3>1. logs \in [Nodes -> Seq(Seq(Event))] /\ logs' \in [Nodes -> Seq(Seq(Event))]
      BY <2>1, Zenon DEF TypeOK
    <3>2. LogsGrow
      BY <2>1
    <3>3. n \in Nodes /\ session[n] \in Nodes
      BY <2>3
    <3>4. Len(logs[session[n]]) \in Nat /\ Len(logs'[session[n]]) \in Nat
      BY ONLY <3>1, <3>3
    <3> QED BY ONLY <3>2, <3>3, <3>4 DEF LogsGrow
  <2>4. Len(logs[session[n]]) > 1
    <3>1. CASE n \in failed
      BY <3>1 DEF ConflictNeedsTwoMasters, Inc
    <3>2. CASE \E g \in globalEvents[n] : FailAssertion(n, g)
      <4>1. PICK g \in globalEvents[n] : FailAssertion(n, g)
        BY <3>2, Zenon
      <4>2. g.origin = session[n] /\ g.idx \in DOMAIN store[n] /\ store[n][g.idx] # g.event
        BY <4>1, Zenon DEF FailAssertion, Accepts, Conflicts
      <4>3. LoggedAt(session[n], g.idx + 1, store[n][g.idx])
        BY <2>3, <4>2, Zenon DEF RouterInv, StoredWasLogged
      <4>4. g.inc \in 1 .. Len(logs[session[n]]) /\ logs[session[n]][g.inc][g.idx + 1] = g.event
        BY <2>3, <4>2, Zenon DEF RouterInv, MessagesWereLogged, WasLogged, Inc
      <4>5. PICK k \in 1 .. Len(logs[session[n]]) : logs[session[n]][k][g.idx + 1] = store[n][g.idx]
        BY <4>3, Zenon DEF LoggedAt, Inc
      <4>6. k # g.inc
        BY <4>2, <4>4, <4>5, Zenon
      <4> QED BY ONLY <4>4, <4>5, <4>6, <2>5
    <3> QED BY <2>2, <3>1, <3>2, Zenon
  <2> QED BY <2>2, <2>4, <2>5
<1> QED BY <1>1, <1>2, RouterInvariant, PTL DEF Spec
=============================================================================
