---------------------------- MODULE ReconcilerSync ----------------------------
(***************************************************************************)
(* Reconciler implements SecretSync: the Secret, the status hash and what  *)
(* spec and provider ask for are read off the API server and Authentik;    *)
(* caches, queues and workers are implementation.                          *)
(***************************************************************************)
EXTENDS ReconcilerProps

Existing == [c \in Clients |-> crs[c].exists]
Wanted   == [c \in Clients |-> Desired(crs[c].spec)]
Hashes   == [c \in Clients |-> crs[c].hash]
Held     == [c \in Clients |-> IF HeldBy(crs[c].spec) = None THEN None
                               ELSE HeldBy(crs[c].spec).data]

Sync == INSTANCE SecretSync WITH
    NotNewer <- Precedes,
    exists   <- Existing,
    wanted   <- Wanted,
    secret   <- Held,
    reported <- Hashes

\* Every step of the controller and of its surroundings is a step of SecretSync
\* or none: stale caches, repeated or lost calls, conflicts and crashes never
\* show in Secret and status as anything but a late write or a late report.
Implements == Sync!Spec

\* Once users and Authentik leave a client alone, its Secret comes to hold what spec
\* and provider ask for and keeps it, whatever crashed, conflicted or lost its answer
\* before; as long as data asked for never returned to an earlier value, which a
\* failed fetch of the certificate also makes it do: see EventuallyUpdated.
EventuallySynced == Sync!Settles
=============================================================================
