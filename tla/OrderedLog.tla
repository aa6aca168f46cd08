------------------------------ MODULE OrderedLog ------------------------------
(***************************************************************************)
(* What the event log promises to the components of a node while no Master *)
(* object is replaced: each master has one log that only grows, and a node *)
(* that follows a master sees a growing prefix of that master's log, from  *)
(* the first event on, until it follows another master.  No message, no    *)
(* retry and no NACK is visible here.                                      *)
(***************************************************************************)
EXTENDS Naturals, Sequences

CONSTANTS Nodes, Events

VARIABLES
    log,      \* log[m]: the events master m has ordered
    follows,  \* follows[n]: the master node n follows
    seen      \* seen[n]: the events node n has been given since it does

vars == <<log, follows, seen>>

Init ==
    /\ log = [n \in Nodes |-> <<>>]
    /\ follows = [n \in Nodes |-> n]
    /\ seen = [n \in Nodes |-> <<>>]

(***************************************************************************)
(* A master orders one or more events.                                     *)
(***************************************************************************)
Order(m) ==
    /\ log' = [log EXCEPT ![m] = log'[m]]
    /\ log'[m] \in Seq(Events)
    /\ Len(log[m]) <= Len(log'[m])
    /\ \A i \in 1 .. Len(log[m]) : log'[m][i] = log[m][i]
    /\ UNCHANGED <<follows, seen>>

(***************************************************************************)
(* A node is given the next events of the master it follows.               *)
(***************************************************************************)
See(n) ==
    /\ \E i \in Len(seen[n]) .. Len(log[follows[n]]) :
          seen' = [seen EXCEPT ![n] = SubSeq(log[follows[n]], 1, i)]
    /\ UNCHANGED <<log, follows>>

(***************************************************************************)
(* A node turns to a master and starts from nothing.                       *)
(***************************************************************************)
Follow(n, m) ==
    /\ follows' = [follows EXCEPT ![n] = m]
    /\ seen' = [seen EXCEPT ![n] = <<>>]
    /\ UNCHANGED log

Next ==
    \E n \in Nodes :
        \/ Order(n)
        \/ See(n)
        \/ \E m \in Nodes : Follow(n, m)

Spec == Init /\ [][Next]_vars
=============================================================================
