--------------------------- MODULE OrderLifecycle ---------------------------
(***************************************************************************)
(* What the order workflow promises of an order, with no queues, handlers  *)
(* or requests: it is submitted once; it is refused if some product it     *)
(* wants is short at that moment, otherwise all it wants is taken off the  *)
(* stock in one step; then it is paid or declined; then shipped.  Each step*)
(* happens, once, unless the order is lost: then nothing more happens for  *)
(* it, and what was being taken off the stock for it may stay off.  Nothing*)
(* is said of the status shown.                                            *)
(***************************************************************************)
EXTENDS Integers

CONSTANTS Orders, Products, InitialStock,
          MayFail \* whether orders may be lost

VARIABLES
    phase,  \* how far an order is
    wanted, \* how many of each product it asks for
    onhand, \* what is left of each product
    lost    \* the orders nothing more is done for, short of an outcome

lifecycle == <<phase, wanted, onhand, lost>>

Nothing == [p \in Products |-> 0]

Init ==
    /\ phase = [o \in Orders |-> "none"]
    /\ wanted = [o \in Orders |-> Nothing]
    /\ onhand = InitialStock
    /\ lost = {}

Submit(o) ==
    /\ phase[o] = "none"
    /\ phase' = [phase EXCEPT ![o] = "submitted"]
    /\ wanted'[o] \in [Products -> Nat] \ {Nothing}
    /\ wanted' = [wanted EXCEPT ![o] = wanted'[o]]
    /\ UNCHANGED <<onhand, lost>>

Reserve(o) ==
    /\ phase[o] = "submitted"
    /\ o \notin lost
    /\ \A p \in Products : wanted[o][p] <= onhand[p]
    /\ phase' = [phase EXCEPT ![o] = "reserved"]
    /\ onhand' = [p \in Products |-> onhand[p] - wanted[o][p]]
    /\ UNCHANGED <<wanted, lost>>

Refuse(o) ==
    /\ phase[o] = "submitted"
    /\ o \notin lost
    /\ \E p \in Products : wanted[o][p] > onhand[p]
    /\ phase' = [phase EXCEPT ![o] = "refused"]
    /\ UNCHANGED <<wanted, onhand, lost>>

Decide(o) ==
    /\ phase[o] = "reserved"
    /\ o \notin lost
    /\ \E verdict \in {"approved", "declined"} :
           phase' = [phase EXCEPT ![o] = verdict]
    /\ UNCHANGED <<wanted, onhand, lost>>

Ship(o) ==
    /\ phase[o] = "approved"
    /\ o \notin lost
    /\ phase' = [phase EXCEPT ![o] = "shipped"]
    /\ UNCHANGED <<wanted, onhand, lost>>

\* One failure may lose several orders, of which one at most was being taken off
\* the stock.
Lose ==
    /\ MayFail
    /\ \E S \in (SUBSET Orders) \ {{}} :
          /\ \A o \in S : phase[o] \in {"submitted", "reserved", "approved"}
          /\ lost' = lost \cup S
          /\ onhand' = onhand \/
                \E o \in S :
                   /\ phase[o] = "submitted"
                   /\ \A p \in Products : wanted[o][p] <= onhand[p]
                   /\ \A p \in Products :
                         onhand'[p] \in onhand[p] - wanted[o][p] .. onhand[p]
    /\ UNCHANGED <<phase, wanted>>

Next == \/ \E o \in Orders :
              Submit(o) \/ Reserve(o) \/ Refuse(o) \/ Decide(o) \/ Ship(o)
        \/ Lose

\* What may happen, and what must.
Safety == Init /\ [][Next]_lifecycle

Spec == /\ Safety
        /\ \A o \in Orders : /\ WF_lifecycle(Reserve(o) \/ Refuse(o))
                             /\ WF_lifecycle(Decide(o))
                             /\ WF_lifecycle(Ship(o))
=============================================================================
