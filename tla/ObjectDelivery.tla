--------------------------- MODULE ObjectDelivery ---------------------------
(***************************************************************************)
(* What the transfer of remote objects promises: an announced object       *)
(* arrives with everything it refers to, only then is it handed to the     *)
(* ports waiting for it and released by its source, and both happen once.  *)
(***************************************************************************)
EXTENDS Naturals, Sequences

CONSTANTS Adds, Ports

VARIABLES announced, arrived, delivered, released

vars == <<announced, arrived, delivered, released>>

PortsOf(a) == {Ports[a][i] : i \in DOMAIN Ports[a]}

Init ==
  /\ announced = {} /\ arrived = {} /\ delivered = {} /\ released = {}

Announce(a) ==
  /\ a \notin announced
  /\ announced' = announced \cup {a}
  /\ UNCHANGED <<arrived, delivered, released>>

Arrive(a) ==
  /\ a \in announced \ arrived
  /\ arrived' = arrived \cup {a}
  /\ UNCHANGED <<announced, delivered, released>>

Deliver(a, p) ==
  /\ a \in arrived
  /\ <<a, p>> \notin delivered
  /\ delivered' = delivered \cup {<<a, p>>}
  /\ UNCHANGED <<announced, arrived, released>>

Release(a) ==
  /\ a \in arrived \ released
  /\ released' = released \cup {a}
  /\ UNCHANGED <<announced, arrived, delivered>>

Next == \E a \in Adds :
          \/ Announce(a) \/ Arrive(a) \/ Release(a)
          \/ \E p \in PortsOf(a) : Deliver(a, p)

Spec ==
  /\ Init /\ [][Next]_vars
  /\ \A a \in Adds : /\ WF_vars(Arrive(a)) /\ WF_vars(Release(a))
                     /\ \A p \in PortsOf(a) : WF_vars(Deliver(a, p))
=============================================================================
