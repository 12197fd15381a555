------------------------------ MODULE SecretSync ------------------------------
(***************************************************************************)
(* What the OIDCClient controller promises, without caches, queues,        *)
(* workers or conflicts: every client wants some data, its Secret follows  *)
(* what it wants, and its status follows its Secret.  Reconciler, under    *)
(* the mapping of ReconcilerSync, implements it.                           *)
(***************************************************************************)
CONSTANTS
    Clients,            \* the OIDCClient objects
    Data,               \* what a Secret can hold
    None,               \* no Secret yet, no hash yet
    NotNewer(_, _)      \* the order in which the world asks for data

VARIABLES
    exists,     \* exists[c]: the object is there
    wanted,     \* wanted[c]: what its spec and its provider ask for now
    secret,     \* secret[c]: what its target Secret holds
    reported    \* reported[c]: what its status says the Secret was given

vars == <<exists, wanted, secret, reported>>

Init == /\ exists = [c \in Clients |-> TRUE]
        /\ wanted \in [Clients -> Data]
        /\ secret = [c \in Clients |-> None]
        /\ reported = [c \in Clients |-> None]

\* Users and Authentik: data asked for only gets newer, for several clients at
\* once when they share a provider; objects come and go, and one that is created
\* again has an empty status.
World ==
    /\ exists' \in [Clients -> BOOLEAN]
    /\ wanted' \in [Clients -> Data]
    /\ \A c \in Clients : NotNewer(wanted[c], wanted'[c])
    /\ reported' = [c \in Clients |-> IF ~exists[c] /\ exists'[c]
                                      THEN None ELSE reported[c]]
    /\ UNCHANGED secret

\* The Secret moves forward, to data that was asked for now or before: a write
\* may be late, and may even reach the Secret of a client just deleted.
Write(c) ==
    /\ secret'[c] \in Data
    /\ secret[c] # None => NotNewer(secret[c], secret'[c])
    /\ NotNewer(secret'[c], wanted[c])
    /\ secret' = [secret EXCEPT ![c] = secret'[c]]
    /\ UNCHANGED <<exists, wanted, reported>>

\* The status of an existing client comes to record what its Secret holds.
Report(c) ==
    /\ exists[c]
    /\ secret[c] # None
    /\ reported' = [reported EXCEPT ![c] = secret[c]]
    /\ UNCHANGED <<exists, wanted, secret>>

Next == World \/ \E c \in Clients : Write(c) \/ Report(c)

Spec == Init /\ [][Next]_vars

\* A client that stays, and whose wishes come to rest, gets what it asks for and
\* keeps it.
Settles ==
    \A c \in Clients :
        <>[]exists[c] /\ <>[][FALSE]_(wanted[c])
            => <>[](secret[c] = wanted[c])

-----------------------------------------------------------------------------
\* An order in which nothing is newer than itself.
NotNewerIsAnOrder ==
    /\ \A d \in Data : NotNewer(d, d)
    /\ \A d, e, f \in Data : NotNewer(d, e) /\ NotNewer(e, f) => NotNewer(d, f)

\* Status, Secret and wish are never out of order.
Ordered ==
    /\ wanted \in [Clients -> Data]
    /\ secret \in [Clients -> Data \cup {None}]
    /\ reported \in [Clients -> Data \cup {None}]
    /\ \A c \in Clients :
          /\ secret[c] # None => NotNewer(secret[c], wanted[c])
          /\ reported[c] # None => /\ secret[c] # None
                                   /\ NotNewer(reported[c], secret[c])
=============================================================================
