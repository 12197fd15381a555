--------------------------- MODULE SecretSyncProofs ---------------------------
(***************************************************************************)
(* What every implementation of SecretSync gets: status, Secret and wish   *)
(* of a client are always in order.                                        *)
(***************************************************************************)
EXTENDS SecretSync, TLAPS

\* Users and Authentik move the wish forward and clear the status of new objects.
LEMMA WorldKeeps == ASSUME NotNewerIsAnOrder, Ordered, World PROVE Ordered'
  <1>1. /\ wanted' \in [Clients -> Data] /\ secret' = secret
        /\ reported' \in [Clients -> Data \cup {None}]
    BY DEF World, Ordered
  <1>2. \A c \in Clients : /\ NotNewer(wanted[c], wanted'[c])
                           /\ reported'[c] \in {None, reported[c]}
    BY DEF World
  <1> QED BY <1>1, <1>2 DEF Ordered, NotNewerIsAnOrder

\* A write stays between the Secret and the wish.
LEMMA WriteKeeps ==
    ASSUME NotNewerIsAnOrder, Ordered, NEW c \in Clients, Write(c), None \notin Data
    PROVE  Ordered'
  <1>1. /\ UNCHANGED <<wanted, reported>>
        /\ secret' \in [Clients -> Data \cup {None}]
        /\ \A d \in Clients \ {c} : secret'[d] = secret[d]
        /\ secret'[c] \in Data /\ NotNewer(secret'[c], wanted[c])
        /\ secret[c] # None => NotNewer(secret[c], secret'[c])
    BY DEF Write, Ordered
  <1>2. reported[c] # None => NotNewer(reported[c], secret'[c])
    BY <1>1 DEF Ordered, NotNewerIsAnOrder
  <1> QED BY <1>1, <1>2 DEF Ordered

\* A report repeats what the Secret holds.
LEMMA ReportKeeps ==
    ASSUME NotNewerIsAnOrder, Ordered, NEW c \in Clients, Report(c)
    PROVE  Ordered'
  <1>1. /\ UNCHANGED <<wanted, secret>> /\ secret[c] # None
        /\ reported' \in [Clients -> Data \cup {None}]
        /\ \A d \in Clients : reported'[d] \in {reported[d], secret[d]}
        /\ \A d \in Clients \ {c} : reported'[d] = reported[d]
    BY DEF Report, Ordered
  <1> QED BY <1>1 DEF Ordered, NotNewerIsAnOrder

\* In every behaviour of SecretSync, and so in every behaviour of the controller
\* read through its mapping, what the status reports is not newer than the Secret
\* and the Secret not newer than what is asked for.
THEOREM AlwaysOrdered ==
    ASSUME NotNewerIsAnOrder, None \notin Data
    PROVE  Spec => []Ordered
  <1>1. Init => Ordered
    BY DEF Init, Ordered
  <1>2. Ordered /\ [Next]_vars => Ordered'
    <2> SUFFICES ASSUME Ordered, [Next]_vars PROVE Ordered'
      OBVIOUS
    <2>1. CASE UNCHANGED vars
      BY <2>1 DEF vars, Ordered
    <2> QED BY <2>1, WorldKeeps, WriteKeeps, ReportKeeps DEF Next
  <1> QED BY <1>1, <1>2, PTL DEF Spec
=============================================================================
