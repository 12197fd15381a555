---------------------------- MODULE TokenRefresh ----------------------------
(***************************************************************************)
(* The Authentik API token: the operator's in-memory copy that all workers *)
(* share (internal/authentik/client.go), the token Secret, the informer's  *)
(* copy of it, the refresh a worker runs when Authentik answers 401 or 403 *)
(* (refreshToken) and bootstrap.Run, which the bootstrap Job runs too.     *)
(*                                                                         *)
(* A token key is the number of times Authentik has replaced it: Authentik *)
(* accepts exactly the current one.  What a deployment was given (the      *)
(* bootstrap Secret, permissions) is chosen once, in the initial state.    *)
(* A reconciliation is reduced to the two requests that need the token;    *)
(* module Reconciler has the rest.                                         *)
(***************************************************************************)
EXTENDS Naturals

CONSTANTS
    Workers,        \* reconciliations that may run at the same time
    Job,            \* the bootstrap Job
    Deployments,    \* the deployments to consider
    Env,            \* the faults the environment may choose
    MaxKey,         \* bound: replacements of the token
    MaxFaults,      \* bound: faults in one behaviour
    None            \* no token, no Secret

Kinds == {"outage", "slow", "crash", "kubeFault", "deleted"}

\* secret: the bootstrap Secret exists and has its key; valid: Authentik accepts
\* that token; exec: the role allows exec into Authentik's pods; home: these run
\* in the namespace "authentik"; delete: the role allows deleting Secrets.
Deployment == [secret: BOOLEAN, valid: BOOLEAN, exec: BOOLEAN, home: BOOLEAN,
               delete: BOOLEAN]

Actors == Workers \cup {Job}
TokenKeys == 0..MaxKey

ASSUME DeploymentAssumption ==
    /\ Deployments \subseteq Deployment
    /\ MaxKey \in Nat /\ MaxFaults \in Nat
    /\ Env \subseteq Kinds
    /\ Job \notin Workers
    /\ None \notin TokenKeys

VARIABLES
    deployment,  \* what this deployment was given; never changes
    key,      \* the key Authentik accepts
    ready,    \* Authentik is up
    memory,   \* the token of the shared Client
    secret,   \* the token Secret in the API server
    cached,   \* the informer's copy of it
    pc,       \* where each actor is
    held,     \* a token an actor has read or held and not yet stored
    served,   \* served[w]: the last reconciliation of w got its answers
    faults    \* faults so far

vars == <<deployment, key, ready, memory, secret, cached, pc, held, served,
          faults>>
world  == <<deployment, key, ready>>
stored == <<secret, cached>>

WorkerPCs == {"idle", "load", "recheck", "app", "provider", "clear", "reload",
              "store"}
RunPCs == {"check", "delete", "wait", "mint", "apply"}
JobPCs == {"done", "failed"}

Fault(kind) == /\ kind \in Env
               /\ faults < MaxFaults
               /\ faults' = faults + 1

At(a, label) == pc[a] = label
Goto(a, label) == pc' = [pc EXCEPT ![a] = label]

\* bootstrap.Run reads through the cache in the operator, directly in the Job.
Seen(a) == IF a = Job THEN secret ELSE cached

\* Mutation of WhenPresent: ForceRefresh is not honoured.
WhenPresentSkip(a) == IF a = Job THEN "done" ELSE "reload"

\* Where Run goes when a Secret is there: the refresh forces, the Job skips.
WhenPresent(a) == IF a = Job THEN "done" ELSE "delete"

\* Mutation of AfterDelete: Run returns once the Secret is gone.
AfterDeleteReturn == "reload"

\* Where Run goes after the delete.
AfterDelete == "wait"

\* Mutation of AfterApply: the Job behaves as a refresh.
AfterApplyReload(a) == "reload"

\* Where Run returns to.
AfterApply(a) == IF a = Job THEN "done" ELSE "reload"

\* An error of Run or refreshToken: the reconciliation reports it and ends, the
\* Job's container fails.
Fail(a) == /\ Goto(a, IF a = Job THEN "failed" ELSE "idle")
           /\ served' = IF a = Job THEN served ELSE [served EXCEPT ![a] = FALSE]

\* "ak shell" in a pod, looked for in the namespace the Job was given as a flag;
\* refreshToken passes none and gets the default.  Else the bootstrap token.
CanMint(a) == \/ deployment.exec /\ (a = Job \/ deployment.home)
              \/ deployment.valid

\* Authentik refuses a token it does not know, and any while it starts up.
Refused(token) == token # key \/ ~ready

-----------------------------------------------------------------------------
\* First deployment, or a start of the operator beside an existing Secret.
Init ==
    /\ deployment \in Deployments
    /\ key = 0 /\ ready \in BOOLEAN
    /\ secret \in {None, 0}
    /\ cached = secret /\ memory = secret
    /\ pc = [a \in Actors |-> IF a = Job THEN "check" ELSE "idle"]
    /\ held = [a \in Actors |-> None]
    /\ served = [w \in Workers |-> FALSE]
    /\ faults = 0

-----------------------------------------------------------------------------
(* Reconcile *)

\* Step 0: HasToken.
Begin(w) ==
    /\ At(w, "idle")
    /\ memory # None
    /\ Goto(w, "app")
    /\ UNCHANGED <<world, stored, memory, held, served, faults>>

\* Step 0, no token: the cached Secret is read ...
LoadToken(w) ==
    /\ At(w, "idle")
    /\ memory = None
    /\ held' = [held EXCEPT ![w] = cached]
    /\ Goto(w, IF cached = None THEN "recheck" ELSE "load")
    /\ UNCHANGED <<world, stored, memory, served, faults>>

\* SetToken: whatever another worker has put there since is overwritten.
SetToken(w) == /\ memory' = held[w]
               /\ held' = [held EXCEPT ![w] = None]

\* ... and its token stored ...
StoreLoaded(w) ==
    /\ At(w, "load")
    /\ SetToken(w)
    /\ Goto(w, "recheck")
    /\ UNCHANGED <<world, stored, served, faults>>

\* ... unless there still is none: RequeueAfter.
Recheck(w) ==
    /\ At(w, "recheck")
    /\ IF memory # None THEN Goto(w, "app") /\ UNCHANGED served ELSE Fail(w)
    /\ UNCHANGED <<world, stored, memory, held, faults>>

\* GetOAuth2ProviderBySlug: two requests, each with the token of that moment.
Answered(w) ==
    /\ ~Refused(memory)
    /\ \/ At(w, "app") /\ Goto(w, "provider") /\ UNCHANGED served
       \/ /\ At(w, "provider")
          /\ Goto(w, "idle")
          /\ served' = [served EXCEPT ![w] = TRUE]
    /\ UNCHANGED <<world, stored, memory, held, faults>>

\* 401 or 403: ErrTokenExpired, the worker starts a refresh.
Denied(w) ==
    /\ pc[w] \in {"app", "provider"}
    /\ Refused(memory)
    /\ Goto(w, "clear")
    /\ UNCHANGED <<world, stored, memory, held, served, faults>>

\* Any other error ends the reconciliation.
Unreachable(w) ==
    /\ pc[w] \in {"app", "provider"}
    /\ ~ready
    /\ Fail(w)
    /\ UNCHANGED <<world, stored, memory, held, faults>>

\* Mutation of ClearToken: the stale token is left in place.
ClearTokenNot(w) ==
    /\ At(w, "clear")
    /\ deployment.secret
    /\ Goto(w, "check")
    /\ UNCHANGED <<world, stored, memory, held, served, faults>>

\* refreshToken up to bootstrap.Run: without a bootstrap token it gives up before
\* it clears the shared one.
ClearToken(w) ==
    /\ At(w, "clear")
    /\ deployment.secret
    /\ memory' = None
    /\ Goto(w, "check")
    /\ UNCHANGED <<world, stored, held, served, faults>>

NoBootstrapSecret(w) ==
    /\ At(w, "clear")
    /\ ~deployment.secret
    /\ Fail(w)
    /\ UNCHANGED <<world, stored, memory, held, faults>>

\* refreshToken after Run: the new token is read back through the cache ...
Reload(w) ==
    /\ At(w, "reload")
    /\ cached # None
    /\ held' = [held EXCEPT ![w] = cached]
    /\ Goto(w, "store")
    /\ UNCHANGED <<world, stored, memory, served, faults>>

\* ... and stored; the reconciliation is requeued.
StoreReloaded(w) ==
    /\ At(w, "store")
    /\ SetToken(w)
    /\ Goto(w, "idle")
    /\ UNCHANGED <<world, stored, served, faults>>

ReloadFails(w) ==
    /\ At(w, "reload")
    /\ cached = None
    /\ Fail(w)
    /\ UNCHANGED <<world, stored, memory, held, faults>>

-----------------------------------------------------------------------------
(* bootstrap.Run *)

Check(a) ==
    /\ At(a, "check")
    /\ Goto(a, IF Seen(a) = None THEN "wait" ELSE WhenPresent(a))
    /\ UNCHANGED <<world, stored, memory, held, served, faults>>

\* ForceRefresh deletes the stale Secret before anything replaces it.
Delete(w) ==
    /\ At(w, "delete")
    /\ deployment.delete /\ secret # None
    /\ secret' = None
    /\ Goto(w, AfterDelete)
    /\ UNCHANGED <<world, cached, memory, held, served, faults>>

\* Forbidden, or NotFound because another worker was faster.
DeleteFails(w) ==
    /\ At(w, "delete")
    /\ ~deployment.delete \/ secret = None
    /\ Fail(w)
    /\ UNCHANGED <<world, stored, memory, held, faults>>

\* WaitForReady polls until Authentik is up ...
Wait(a) ==
    /\ At(a, "wait")
    /\ ready
    /\ Goto(a, "mint")
    /\ UNCHANGED <<world, stored, memory, held, served, faults>>

\* ... for at most five minutes.
WaitTimesOut(a) ==
    /\ At(a, "wait")
    /\ ~ready
    /\ Fault("slow")
    /\ Fail(a)
    /\ UNCHANGED <<world, stored, memory, held>>

\* "ak shell" in a pod, else the HTTP API with the bootstrap token: both return
\* the current key and create one if there is none.
Mint(a) ==
    /\ At(a, "mint")
    /\ ready /\ CanMint(a)
    /\ held' = [held EXCEPT ![a] = key]
    /\ Goto(a, "apply")
    /\ UNCHANGED <<world, stored, memory, served, faults>>

MintFails(a) ==
    /\ At(a, "mint")
    /\ ~ready \/ ~CanMint(a)
    /\ Fail(a)
    /\ UNCHANGED <<world, stored, memory, held, faults>>

Apply(a) ==
    /\ At(a, "apply")
    /\ secret' = held[a]
    /\ held' = [held EXCEPT ![a] = None]
    /\ Goto(a, AfterApply(a))
    /\ UNCHANGED <<world, cached, memory, served, faults>>

\* A Kubernetes call of refreshToken or Run fails; a delete or an apply may have
\* happened all the same.
KubeFails(a) ==
    /\ pc[a] \in {"clear", "check", "delete", "apply", "reload"}
    /\ Fault("kubeFault")
    /\ \/ UNCHANGED secret
       \/ At(a, "delete") /\ deployment.delete /\ secret' = None
       \/ At(a, "apply") /\ secret' = held[a]
    /\ held' = [held EXCEPT ![a] = None]
    /\ Fail(a)
    /\ UNCHANGED <<world, cached, memory>>

-----------------------------------------------------------------------------
(* Surroundings *)

\* The informer of Secrets catches up.
SyncSecret ==
    /\ cached # secret
    /\ cached' = secret
    /\ UNCHANGED <<world, memory, secret, pc, held, served, faults>>

\* The operator dies and starts again; main reads the Secret past the cache.
Restart ==
    /\ Fault("crash")
    /\ pc' = [a \in Actors |-> IF a = Job THEN pc[a] ELSE "idle"]
    /\ held' = [a \in Actors |-> IF a = Job THEN held[a] ELSE None]
    /\ memory' = secret /\ cached' = secret
    /\ UNCHANGED <<world, secret, served>>

\* restartPolicy OnFailure starts a failed Job again, up to its back-off limit;
\* a finished or given-up one runs again with the next Argo CD sync.
RestartJob ==
    /\ pc[Job] \in JobPCs
    /\ Goto(Job, "check")
    /\ UNCHANGED <<world, stored, memory, held, served, faults>>

\* The token expires or is revoked.
ReplaceKey ==
    /\ key < MaxKey
    /\ key' = key + 1
    /\ UNCHANGED <<deployment, ready, stored, memory, pc, held, served, faults>>

Outage ==
    /\ ready
    /\ Fault("outage")
    /\ ready' = FALSE
    /\ UNCHANGED <<deployment, key, stored, memory, pc, held, served>>

Recover ==
    /\ ~ready
    /\ ready' = TRUE
    /\ UNCHANGED <<deployment, key, stored, memory, pc, held, served, faults>>

\* Somebody deletes the token Secret.
DeleteTokenSecret ==
    /\ secret # None
    /\ Fault("deleted")
    /\ secret' = None
    /\ UNCHANGED <<world, cached, memory, pc, held, served>>

-----------------------------------------------------------------------------
RunStep(a) == \/ Check(a) \/ Delete(a) \/ DeleteFails(a)
              \/ Wait(a) \/ WaitTimesOut(a)
              \/ Mint(a) \/ MintFails(a)
              \/ Apply(a) \/ KubeFails(a)

WorkerStep(w) == \/ Begin(w) \/ LoadToken(w) \/ StoreLoaded(w) \/ Recheck(w)
                 \/ Answered(w) \/ Denied(w) \/ Unreachable(w)
                 \/ ClearToken(w) \/ NoBootstrapSecret(w)
                 \/ Reload(w) \/ ReloadFails(w) \/ StoreReloaded(w)
                 \/ RunStep(w)

Next == \/ \E w \in Workers : WorkerStep(w)
        \/ RunStep(Job) \/ RestartJob
        \/ SyncSecret \/ Restart \/ DeleteTokenSecret
        \/ ReplaceKey \/ Outage \/ Recover

(***************************************************************************)
(* Workers are goroutines whose calls return, and their keys are requeued  *)
(* after every outcome; a Job's container runs until it ends, but nothing  *)
(* promises another run; the watch delivers; an outage of Authentik ends.  *)
(***************************************************************************)
Fairness ==
    /\ \A w \in Workers : WF_vars(WorkerStep(w))
    /\ WF_vars(RunStep(Job))
    /\ WF_vars(SyncSecret) /\ WF_vars(Recover)

Spec == Init /\ [][Next]_vars /\ Fairness

-----------------------------------------------------------------------------
(* Properties *)

\* Every variable has its type; an actor holds a token where it is about to
\* store one, and nowhere else.
TypeOK ==
    /\ deployment \in Deployments
    /\ key \in TokenKeys /\ ready \in BOOLEAN
    /\ memory \in TokenKeys \cup {None}
    /\ secret \in TokenKeys \cup {None}
    /\ cached \in TokenKeys \cup {None}
    /\ pc \in [Actors -> WorkerPCs \cup RunPCs \cup JobPCs]
    /\ \A w \in Workers : pc[w] \notin JobPCs
    /\ pc[Job] \in (RunPCs \ {"delete"}) \cup JobPCs
    /\ held \in [Actors -> TokenKeys \cup {None}]
    /\ \A a \in Actors : pc[a] \in {"load", "store", "apply"} <=> held[a] # None
    /\ served \in [Workers -> BOOLEAN]
    /\ faults \in 0..MaxFaults

\* Nothing has gone wrong, in a deployment where everybody can get a token.
Working == \A a \in Actors : CanMint(a)
Faultless == faults = 0 /\ Working

\* Whenever the token Secret is missing, somebody is on the way to write it: the
\* delete of one refresh and the NotFound of another never leave it gone.
Recreating ==
    Faultless /\ secret = None =>
        \/ \E a \in Actors : pc[a] \in {"wait", "mint", "apply"}
        \/ At(Job, "check")

\* A refresh clears the token its worker was refused with, and not one that another
\* worker has put there since.
ClearsStale == \A w \in Workers : At(w, "clear") => memory # key

\* A replaced token is found out and replaced: in the end the requests of every
\* worker are answered, however their refreshes and the Job overlap; as long as the
\* workers do not go on clearing each other's new token, which nothing keeps them
\* from (NeverLost, with two workers).
EventuallyServed ==
    []Faultless /\ deployment.secret /\ deployment.delete /\ <>[]ClearsStale
        => \A w \in Workers : <>[]served[w]

\* bootstrap.md: "the operator reads the API token from the Secret on every
\* reconciliation loop".  If the Secret comes to hold the token that Authentik
\* accepts and keeps it, the operator is served in the end, whatever went wrong
\* (with a bootstrap Secret: else a refresh gives up before it clears the Client;
\* and again if workers stop clearing each other's token).
SecretIsRead ==
    deployment.secret /\ <>[](secret = key) /\ <>[]ClearsStale
        => \A w \in Workers : <>[]served[w]

\* The reconciler's configuration has what is needed "for automatic token refresh
\* on 403" (oidcclient_controller.go:46), and architecture.md says "The operator's
\* retry/requeue loop handles eventual consistency naturally": whatever happened
\* to the token, every worker is served in the end.
NeverLost == \A w \in Workers : <>[]served[w]
=============================================================================
