----------------------------- MODULE Reconciler -----------------------------
(***************************************************************************)
(* The OIDCClient controller (internal/controller/oidcclient_controller.go)*)
(* between the Kubernetes API server, the informer caches it reads through *)
(* and the Authentik API.                                                  *)
(*                                                                         *)
(* One reconciliation is a worker that walks through the calls Reconcile   *)
(* makes, one action per call, so that edits, provider rotations, other    *)
(* workers and a crash can fall between any two of them.  A successful     *)
(* call, a refused one and one whose answer is lost are separate actions   *)
(* or disjuncts.                                                           *)
(*                                                                         *)
(* Data is abstracted to what decides whether two Secrets differ:          *)
(*   shape    the profile, overrides and slug of a spec, as a number;      *)
(*   version  the content of the Authentik provider, as a number;          *)
(*   cert     whether the signing-certificate keys are present.            *)
(* The SHA-256 hash is the data itself (no collisions).  Of the keys and   *)
(* values all that is kept is which data have the key a ConfigMap target   *)
(* names: that depends on the provider and its certificate, not on the     *)
(* spec alone (saml.crt, GF_SERVER_ROOT_URL).                              *)
(***************************************************************************)
EXTENDS Naturals, FiniteSets

CONSTANTS
    Clients,        \* the OIDCClient objects
    Slugs,          \* Authentik application slugs, one provider each
    Secrets,        \* names of target Secrets
    ConfigMaps,     \* names of target ConfigMaps
    Keys,           \* data keys of a ConfigMap
    SourceKeys,     \* keys of the Secret's data that a ConfigMap target may name
    KeysOf(_),      \* KeysOf(d): those of them that data d has
    Workloads,      \* Deployments and StatefulSets to restart
    SpecsOf,        \* SpecsOf[c]: the specs users may give client c
    Signed,         \* the provider versions that name a signing key
    MaxConcurrentReconciles,
    Env,            \* the faults and interventions the environment may choose
    MaxVersion,     \* bound: provider versions
    MaxGeneration,  \* bound: edits of one OIDCClient
    MaxFaults,      \* bound: faults and interventions in one behaviour
    None            \* absence of an object, a copy or a hash

Kinds == {"edit", "rotate", "revert", "delete", "secretDeleted", "crash",
          "tokenFault", "fetchFault", "certFault", "applyFault", "cmFault",
          "rolloutFault", "statusFault"}

SpecRecord == [shape: Nat, slug: Slugs, target: Secrets,
               cmap: ConfigMaps \cup {None}, key: Keys, source: SourceKeys,
               workload: Workloads \cup {None}]

Data == [shape: Nat, version: Nat, cert: BOOLEAN]

ConditionTypes == {"AuthentikProviderFound", "SecretSynced",
                   "ConfigMapSynced", "RolloutTriggered"}
Conditions == [ConditionTypes ->
                 [status: {"Unknown", "True", "False"}, gen: Nat]]

\* An OIDCClient object: what Reconcile reads of its metadata, spec, status.
CR == [exists: BOOLEAN, gen: Nat, spec: SpecRecord,
       hash: Data \cup {None}, conds: Conditions]

ASSUME BoundsAssumption ==
    /\ MaxVersion \in Nat /\ MaxGeneration \in Nat /\ MaxFaults \in Nat
    /\ MaxConcurrentReconciles \in Nat \ {0}
    /\ Env \subseteq Kinds
    /\ Signed \subseteq Nat
ASSUME SpecsAssumption == SpecsOf \in [Clients -> SUBSET SpecRecord]
\* Equal shapes name the same application: the slug is part of the shape.
ASSUME ShapeAssumption ==
    \A c \in Clients : \A s, t \in SpecsOf[c] :
        s.shape = t.shape => s.slug = t.slug
ASSUME NoneAssumption ==
    /\ None \notin Data /\ None \notin CR
    /\ None \notin ConfigMaps /\ None \notin Workloads
    /\ None \notin [owner: Clients, data: Data]

VARIABLES
    crs,        \* the OIDCClient objects in the API server
    cache,      \* the informer's copies of them
    live,       \* live[c]: which copies of c hold its current resourceVersion
    worker,     \* worker[c]: the reconciliation of c under way, if any
    dirty,      \* work queue: keys waiting for a worker
    delayed,    \* work queue: keys waiting for RequeueAfter or back-off
    provider,   \* provider[slug]: the version Authentik holds
    secrets,    \* target Secrets in the API server
    cmaps,      \* ConfigMaps: data, cached copy, and whether that is current
    workloads,  \* pod-template annotation secret-hash, and its cached copy
    faults      \* faults and interventions so far

vars == <<crs, cache, live, worker, dirty, delayed, provider, secrets,
          cmaps, workloads, faults>>

outside == <<cache, dirty, provider>>       \* no call of a worker changes these
objects == <<crs, live>>
targets == <<secrets, cmaps, workloads>>
queue   == <<dirty, delayed>>

PCs == {"idle", "fetch", "cert", "built", "configmap", "rollout", "record",
        "report"}

Idle == [pc |-> "idle", cr |-> None, data |-> None]

-----------------------------------------------------------------------------
(* Helpers of the code *)

NoConditions == [t \in ConditionTypes |-> [status |-> "Unknown", gen |-> 0]]

\* meta.SetStatusCondition on the worker's copy, ObservedGeneration included.
SetCondition(cr, type, status) ==
    [cr EXCEPT !.conds[type] = [status |-> status, gen |-> cr.gen]]

NewCR(spec) == [exists |-> TRUE, gen |-> 1, spec |-> spec, hash |-> None,
                conds |-> NoConditions]

\* profiles.ApplyWithCert on the provider just fetched, before the certificate.
Build(spec) == [shape |-> spec.shape, version |-> provider[spec.slug],
                cert |-> FALSE]

\* What a reconciliation with nothing failing would put in the Secret.
Desired(spec) == [Build(spec) EXCEPT !.cert = provider[spec.slug] \in Signed]

\* newHash == oidcClient.Status.SecretHash: the only test for work to do.
Unchanged(c) == worker[c].data = worker[c].cr.hash

\* The data has the key that goes to the ConfigMap; if not, step 6 is skipped
\* without a word in the status.
HasSource(spec, data) == spec.cmap # None /\ spec.source \in KeysOf(data)

AfterConfigMap(spec) == IF spec.workload # None THEN "rollout" ELSE "record"

\* Mutation of AfterApply: the nil check of RolloutRestart is lost.
AfterApplyUnchecked(spec, data) ==
    IF HasSource(spec, data) THEN "configmap" ELSE "rollout"

AfterApply(spec, data) ==
    IF HasSource(spec, data) THEN "configmap" ELSE AfterConfigMap(spec)

\* Mutations of AfterApplyError: the return after the error is lost, and the
\* reconciliation goes on to the rollout or to the final status update.
AfterApplyErrorRollout == "rollout"
AfterApplyErrorRecord == "record"

\* An error of r.Apply ends the reconciliation after a status report.
AfterApplyError == "report"

\* Mutation of Recorded: the new hash is not stored.
RecordedWithoutHash(w) == SetCondition(w.cr, "SecretSynced", "True")

\* The copy the final status update writes: hash and SecretSynced.
Recorded(w) ==
    SetCondition([w.cr EXCEPT !.hash = w.data], "SecretSynced", "True")

\* Mutation of Reported: the hash is stored before the outcome is known.
ReportedWithHash(w) == [w.cr EXCEPT !.hash = w.data]

\* The copy a status report writes.
Reported(w) == w.cr

\* Mutation of MayUpdate: a forced update, or a patch without resourceVersion.
MayAlwaysUpdate(c) == TRUE

\* Status().Update is refused unless the copy has the live resourceVersion.
MayUpdate(c) == "worker" \in live[c]

\* Mutation of MayPatch: the same for the ConfigMap.
MayAlwaysPatch(m) == TRUE

\* Update of a ConfigMap: refused unless the cached copy is current.
MayPatch(m) == cmaps[m].fresh

-----------------------------------------------------------------------------
(* Steps shared by the actions *)

Fault(kind) == /\ kind \in Env
               /\ faults < MaxFaults
               /\ faults' = faults + 1

At(c, pc) == worker[c].pc = pc

Goto(c, pc, cr, data) ==
    worker' = [worker EXCEPT ![c] = [pc |-> pc, cr |-> cr, data |-> data]]

\* Mutation of Finish: no RequeueAfter.
FinishForGood(c) == /\ worker' = [worker EXCEPT ![c] = Idle]
                    /\ UNCHANGED delayed

\* RequeueAfter, Requeue and a returned error all re-add the key after a delay.
Finish(c) == /\ worker' = [worker EXCEPT ![c] = Idle]
             /\ delayed' = delayed \cup {c}

\* A worker takes c from the queue: at most MaxConcurrentReconciles at a time,
\* and never two for one key.
Dequeue(c) ==
    /\ c \in dirty
    /\ At(c, "idle")
    /\ Cardinality({d \in Clients : ~At(d, "idle")}) < MaxConcurrentReconciles
    /\ dirty' = dirty \ {c}

\* Status subresource: hash and conditions are replaced, the spec is not.  Every
\* copy held elsewhere is then out of date, unless nothing changed.
WriteStatus(c, cr, touched) ==
    LET new == [crs[c] EXCEPT !.hash = cr.hash, !.conds = cr.conds]
    IN  /\ crs' = [crs EXCEPT ![c] = new]
        /\ live' = [live EXCEPT ![c] = IF touched \/ new # crs[c]
                                       THEN {} ELSE @]

-----------------------------------------------------------------------------
Init ==
    /\ \E f \in [Clients -> UNION {SpecsOf[c] : c \in Clients}] :
          /\ \A c \in Clients : f[c] \in SpecsOf[c]
          /\ crs = [c \in Clients |-> NewCR(f[c])]
    /\ cache = crs
    /\ live = [c \in Clients |-> {"cache"}]
    /\ worker = [c \in Clients |-> Idle]
    /\ dirty = Clients
    /\ delayed = {}
    /\ provider = [s \in Slugs |-> 0]
    /\ secrets = [k \in Secrets |-> None]
    /\ cmaps = [m \in ConfigMaps |-> [data |-> [k \in Keys |-> None],
                                      cached |-> [k \in Keys |-> None],
                                      fresh |-> TRUE]]
    /\ workloads = [w \in Workloads |-> [hash |-> None, cached |-> None]]
    /\ faults = 0

-----------------------------------------------------------------------------
(* Reconcile, call by call *)

\* Step 0: no API token in memory and none in the Secret yet; or the Get of step 1
\* fails, which re-adds the key in the same way.
AwaitToken(c) ==
    /\ Dequeue(c)
    /\ Fault("tokenFault")
    /\ delayed' = delayed \cup {c}
    /\ UNCHANGED <<objects, targets, cache, worker, provider>>

\* Step 1: r.Get through the informer cache; the copy is live iff the cache is.
Begin(c) ==
    /\ Dequeue(c)
    /\ cache[c].exists
    /\ Goto(c, "fetch", cache[c], None)
    /\ live' = [live EXCEPT ![c] = IF "cache" \in @ THEN @ \cup {"worker"}
                                   ELSE @ \ {"worker"}]
    /\ UNCHANGED <<targets, crs, cache, delayed, provider, faults>>

\* Step 1, NotFound: nothing to do and nothing to requeue.
DropDeleted(c) ==
    /\ Dequeue(c)
    /\ ~cache[c].exists
    /\ UNCHANGED <<objects, targets, cache, worker, delayed, provider, faults>>

\* Mutation of FetchProvider: the signing key of the provider is overlooked.
FetchProviderUnsigned(c) ==
    LET cr == worker[c].cr IN
    /\ At(c, "fetch")
    /\ Goto(c, "built", SetCondition(cr, "AuthentikProviderFound", "True"),
            Build(cr.spec))
    /\ UNCHANGED <<outside, objects, targets, delayed, faults>>

\* Step 2: the provider is read and AuthentikProviderFound set in the copy.
FetchProvider(c) ==
    LET cr == worker[c].cr IN
    /\ At(c, "fetch")
    /\ Goto(c, IF provider[cr.spec.slug] \in Signed THEN "cert" ELSE "built",
            SetCondition(cr, "AuthentikProviderFound", "True"), Build(cr.spec))
    /\ UNCHANGED <<outside, objects, targets, delayed, faults>>

\* Mutation of FetchFails: the return after the error is lost, the data is built
\* from an empty provider.
FetchFailsThrough(c) ==
    /\ At(c, "fetch")
    /\ Fault("fetchFault")
    /\ Goto(c, "built",
            SetCondition(worker[c].cr, "AuthentikProviderFound", "False"),
            [Build(worker[c].cr.spec) EXCEPT !.version = 0])
    /\ UNCHANGED <<outside, objects, targets, delayed>>

\* Step 2 fails (not found, unreachable, or 401/403 and the refresh fails).
FetchFails(c) ==
    /\ At(c, "fetch")
    /\ Fault("fetchFault")
    /\ Goto(c, "report",
            SetCondition(worker[c].cr, "AuthentikProviderFound", "False"), None)
    /\ UNCHANGED <<outside, objects, targets, delayed>>

\* Step 2 answers 401/403 and the token refresh succeeds: Requeue, no status.
RefreshRequeue(c) ==
    /\ At(c, "fetch")
    /\ Fault("tokenFault")
    /\ Finish(c)
    /\ UNCHANGED <<outside, objects, targets>>

\* The signing certificate is added to the data (what it says is taken to change
\* with the provider only) ...
FetchCertificate(c) ==
    LET w == worker[c] IN
    /\ At(c, "cert")
    /\ Goto(c, "built", w.cr, [w.data EXCEPT !.cert = TRUE])
    /\ UNCHANGED <<outside, objects, targets, delayed, faults>>

\* ... or, when its fetch fails, silently left out of it.
CertificateFails(c) ==
    LET w == worker[c] IN
    /\ At(c, "cert")
    /\ Fault("certFault")
    /\ Goto(c, "built", w.cr, w.data)
    /\ UNCHANGED <<outside, objects, targets, delayed>>

\* Step 4: the hash in the copy's status equals the new one: nothing is written,
\* not even the condition set above.
SkipUnchanged(c) ==
    /\ At(c, "built")
    /\ Unchanged(c)
    /\ Finish(c)
    /\ UNCHANGED <<outside, objects, targets, faults>>

\* Server-side apply with ForceOwnership: never a conflict.
WriteSecret(c) ==
    secrets' = [secrets EXCEPT ![worker[c].cr.spec.target] =
                   [owner |-> c, data |-> worker[c].data]]

\* Step 5.
ApplySecret(c) ==
    LET w == worker[c] IN
    /\ At(c, "built")
    /\ ~Unchanged(c)
    /\ WriteSecret(c)
    /\ Goto(c, AfterApply(w.cr.spec, w.data), w.cr, w.data)
    /\ UNCHANGED <<outside, objects, delayed, cmaps, workloads, faults>>

\* Step 5 returns an error; the write may have happened all the same.
ApplyFails(c) ==
    LET w == worker[c] IN
    /\ At(c, "built")
    /\ ~Unchanged(c)
    /\ Fault("applyFault")
    /\ WriteSecret(c) \/ UNCHANGED secrets
    /\ Goto(c, AfterApplyError, SetCondition(w.cr, "SecretSynced", "False"),
            w.data)
    /\ UNCHANGED <<outside, objects, delayed, cmaps, workloads>>

\* The cached ConfigMap with one key replaced, written back whole.
WriteConfigMap(c) ==
    LET spec == worker[c].cr.spec
        m    == spec.cmap
        new  == [cmaps[m].cached EXCEPT ![spec.key] = worker[c].data]
    IN  cmaps' = [cmaps EXCEPT ![m].data = new,
                               ![m].fresh = @ /\ new = cmaps[m].data]

\* Mutation of ConfigMapDone: a failed patch is not told from a good one.
ConfigMapDoneAnyhow(c, status) ==
    LET w == worker[c] IN
    Goto(c, AfterConfigMap(w.cr.spec),
         SetCondition(w.cr, "ConfigMapSynced", "True"), w.data)

ConfigMapDone(c, status) ==
    LET w == worker[c] IN
    Goto(c, AfterConfigMap(w.cr.spec),
         SetCondition(w.cr, "ConfigMapSynced", status), w.data)

\* Step 6: Get from the cache, set one key, Update.
PatchConfigMap(c) ==
    /\ At(c, "configmap")
    /\ MayPatch(worker[c].cr.spec.cmap)
    /\ WriteConfigMap(c)
    /\ ConfigMapDone(c, "True")
    /\ UNCHANGED <<outside, objects, delayed, secrets, workloads, faults>>

\* Step 6, the cached copy is stale: Update conflicts, only a condition says so.
ConfigMapConflict(c) ==
    /\ At(c, "configmap")
    /\ ~MayPatch(worker[c].cr.spec.cmap)
    /\ ConfigMapDone(c, "False")
    /\ UNCHANGED <<outside, objects, targets, delayed, faults>>

\* Step 6, Get or Update returns an error; the update may have happened.
ConfigMapFails(c) ==
    /\ At(c, "configmap")
    /\ Fault("cmFault")
    /\ \/ UNCHANGED cmaps
       \/ MayPatch(worker[c].cr.spec.cmap) /\ WriteConfigMap(c)
    /\ ConfigMapDone(c, "False")
    /\ UNCHANGED <<outside, objects, delayed, secrets, workloads>>

\* Mutation of WriteAnnotation: an annotation that is there is kept.
WriteAnnotationOnce(c) ==
    LET w == worker[c].cr.spec.workload IN
    workloads' = [workloads EXCEPT ![w].hash =
                     IF workloads[w].cached # None THEN @ ELSE worker[c].data]

\* rollout.TriggerRollout: a merge patch from the cached object, empty when that
\* object already carries the hash.
WriteAnnotation(c) ==
    LET w == worker[c].cr.spec.workload IN
    workloads' = [workloads EXCEPT ![w].hash =
                     IF workloads[w].cached = worker[c].data
                     THEN @ ELSE worker[c].data]

\* Mutation of RolloutDone: a failed patch is not told from a good one.
RolloutDoneAnyhow(c, status) ==
    LET w == worker[c] IN
    Goto(c, "record", SetCondition(w.cr, "RolloutTriggered", "True"), w.data)

RolloutDone(c, status) ==
    LET w == worker[c] IN
    Goto(c, "record", SetCondition(w.cr, "RolloutTriggered", status), w.data)

\* Step 7.
TriggerRollout(c) ==
    /\ At(c, "rollout")
    /\ WriteAnnotation(c)
    /\ RolloutDone(c, "True")
    /\ UNCHANGED <<outside, objects, delayed, secrets, cmaps, faults>>

\* Step 7 fails, which only a condition says; the patch may have happened.
RolloutFails(c) ==
    /\ At(c, "rollout")
    /\ Fault("rolloutFault")
    /\ WriteAnnotation(c) \/ UNCHANGED workloads
    /\ RolloutDone(c, "False")
    /\ UNCHANGED <<outside, objects, delayed, secrets, cmaps>>

\* Step 8: hash, LastSyncTime and SecretSynced in one status update.
RecordStatus(c) ==
    /\ At(c, "record")
    /\ MayUpdate(c)
    /\ WriteStatus(c, Recorded(worker[c]), TRUE)
    /\ Finish(c)
    /\ UNCHANGED <<outside, targets, faults>>

\* Step 8 conflicts with a change of the object since Begin: the error is
\* returned and the key comes back after a back-off.
RecordConflict(c) ==
    /\ At(c, "record")
    /\ ~MayUpdate(c)
    /\ Finish(c)
    /\ UNCHANGED <<outside, objects, targets, faults>>

\* Step 8 returns another error; the update may have happened.
RecordFails(c) ==
    /\ At(c, "record")
    /\ Fault("statusFault")
    /\ \/ UNCHANGED <<objects>>
       \/ MayUpdate(c) /\ WriteStatus(c, Recorded(worker[c]), TRUE)
    /\ Finish(c)
    /\ UNCHANGED <<outside, targets>>

\* The status update after a failed fetch or apply; its own errors are ignored.
ReportFailure(c) ==
    /\ At(c, "report")
    /\ \/ /\ MayUpdate(c)
          /\ WriteStatus(c, Reported(worker[c]), FALSE)
          /\ UNCHANGED faults
       \/ /\ ~MayUpdate(c)
          /\ UNCHANGED <<objects, faults>>
       \/ /\ Fault("statusFault")
          /\ UNCHANGED <<objects>>
    /\ Finish(c)
    /\ UNCHANGED <<outside, targets>>

-----------------------------------------------------------------------------
(* The work queue and the informers *)

\* A RequeueAfter, rate-limit or back-off delay is over.
TimerFires(c) ==
    /\ c \in delayed
    /\ delayed' = delayed \ {c}
    /\ dirty' = dirty \cup {c}
    /\ UNCHANGED <<objects, targets, cache, worker, provider, faults>>

\* A watch event reaches the informer, which enqueues the key: For(&OIDCClient{})
\* has no predicate, so the operator's own status writes arrive too.
SyncClient(c) ==
    /\ "cache" \notin live[c]
    /\ cache' = [cache EXCEPT ![c] = crs[c]]
    /\ live' = [live EXCEPT ![c] = @ \cup {"cache"}]
    /\ dirty' = dirty \cup {c}
    /\ UNCHANGED <<targets, crs, worker, delayed, provider, faults>>

SyncConfigMap(m) ==
    /\ ~cmaps[m].fresh
    /\ cmaps' = [cmaps EXCEPT ![m].cached = cmaps[m].data, ![m].fresh = TRUE]
    /\ UNCHANGED <<outside, objects, worker, delayed, secrets, workloads, faults>>

SyncWorkload(w) ==
    /\ workloads[w].cached # workloads[w].hash
    /\ workloads' = [workloads EXCEPT ![w].cached = workloads[w].hash]
    /\ UNCHANGED <<outside, objects, worker, delayed, secrets, cmaps, faults>>

\* The process dies between any two calls and starts again: memory is lost,
\* caches are listed afresh, every object is enqueued.
Restart ==
    /\ Fault("crash")
    /\ cache' = crs
    /\ live' = [c \in Clients |-> {"cache"}]
    /\ worker' = [c \in Clients |-> Idle]
    /\ dirty' = {c \in Clients : crs[c].exists}
    /\ delayed' = {}
    /\ cmaps' = [m \in ConfigMaps |-> [cmaps[m] EXCEPT !.cached = cmaps[m].data,
                                                      !.fresh = TRUE]]
    /\ workloads' = [w \in Workloads |->
                        [workloads[w] EXCEPT !.cached = workloads[w].hash]]
    /\ UNCHANGED <<crs, provider, secrets>>

-----------------------------------------------------------------------------
(* Users and Authentik *)

ChangeCR(c, cr) == /\ crs' = [crs EXCEPT ![c] = cr]
                   /\ live' = [live EXCEPT ![c] = {}]

\* Without "revert", a later state of the world never looks like an earlier one.
Forward(old, new) == old <= new /\ UNCHANGED faults
Backward(old, new) == old > new /\ Fault("revert")

RotateProvider(s) ==
    /\ "rotate" \in Env
    /\ \E v \in 0..MaxVersion \ {provider[s]} :
          /\ Forward(provider[s], v) \/ Backward(provider[s], v)
          /\ provider' = [provider EXCEPT ![s] = v]
    /\ UNCHANGED <<objects, targets, queue, cache, worker>>

EditSpec(c, spec) ==
    LET old == crs[c] IN
    /\ "edit" \in Env
    /\ old.exists
    /\ spec # old.spec
    /\ old.gen < MaxGeneration
    /\ Forward(old.spec.shape, spec.shape) \/ Backward(old.spec.shape, spec.shape)
    /\ ChangeCR(c, [old EXCEPT !.spec = spec, !.gen = @ + 1])
    /\ UNCHANGED <<outside, targets, worker, delayed>>

\* No finalizer and no owner reference: the Secret stays behind.
DeleteClient(c) ==
    /\ crs[c].exists
    /\ Fault("delete")
    /\ ChangeCR(c, [crs[c] EXCEPT !.exists = FALSE])
    /\ UNCHANGED <<outside, targets, worker, delayed>>

\* Created again under the same name, with an empty status.
CreateClient(c, spec) ==
    /\ ~crs[c].exists
    /\ \/ Forward(crs[c].spec.shape, spec.shape)
       \/ Backward(crs[c].spec.shape, spec.shape)
    /\ ChangeCR(c, NewCR(spec))
    /\ UNCHANGED <<outside, targets, worker, delayed>>

DeleteSecret(k) ==
    /\ secrets[k] # None
    /\ Fault("secretDeleted")
    /\ secrets' = [secrets EXCEPT ![k] = None]
    /\ UNCHANGED <<outside, objects, worker, delayed, cmaps, workloads>>

-----------------------------------------------------------------------------
Take(c) == Begin(c) \/ DropDeleted(c) \/ AwaitToken(c)

Step(c) ==
    \/ FetchProvider(c) \/ FetchFails(c) \/ RefreshRequeue(c)
    \/ FetchCertificate(c) \/ CertificateFails(c)
    \/ SkipUnchanged(c) \/ ApplySecret(c) \/ ApplyFails(c)
    \/ PatchConfigMap(c) \/ ConfigMapConflict(c) \/ ConfigMapFails(c)
    \/ TriggerRollout(c) \/ RolloutFails(c)
    \/ RecordStatus(c) \/ RecordConflict(c) \/ RecordFails(c)
    \/ ReportFailure(c)

Informers == \/ \E c \in Clients : SyncClient(c)
             \/ \E m \in ConfigMaps : SyncConfigMap(m)
             \/ \E w \in Workloads : SyncWorkload(w)

Environment ==
    \/ \E s \in Slugs : RotateProvider(s)
    \/ \E c \in Clients : DeleteClient(c)
    \/ \E c \in Clients : \E s \in SpecsOf[c] : EditSpec(c, s) \/ CreateClient(c, s)
    \/ \E k \in Secrets : DeleteSecret(k)

Next == \/ \E c \in Clients : Take(c) \/ Step(c) \/ TimerFires(c)
        \/ Informers
        \/ Restart
        \/ Environment

(***************************************************************************)
(* A worker that has started runs on (a goroutine is scheduled and every   *)
(* call returns: the HTTP and Kubernetes clients have timeouts), delays    *)
(* end, watches deliver.  The queue is first-in first-out, so a key is not *)
(* passed over for ever when workers are busy: strong fairness of Take.    *)
(* Users, Authentik and faults promise nothing.                            *)
(***************************************************************************)
Fairness ==
    /\ \A c \in Clients : /\ SF_vars(Take(c))
                          /\ WF_vars(Step(c))
                          /\ WF_vars(TimerFires(c))
                          /\ WF_vars(SyncClient(c))
    /\ \A m \in ConfigMaps : WF_vars(SyncConfigMap(m))
    /\ \A w \in Workloads : WF_vars(SyncWorkload(w))

Spec == Init /\ [][Next]_vars /\ Fairness
=============================================================================
