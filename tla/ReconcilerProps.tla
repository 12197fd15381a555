--------------------------- MODULE ReconcilerProps ---------------------------
(***************************************************************************)
(* What the OIDCClient controller promises, and under which assumptions    *)
(* about its users and its surroundings.                                   *)
(***************************************************************************)
EXTENDS Reconciler

(* Assumptions some of the properties need; each is a fact about constants. *)

\* Every client has one target Secret for ever and shares it with no other.
ExclusiveTargets ==
    \A c, d \in Clients : \A s \in SpecsOf[c], t \in SpecsOf[d] :
        s.target = t.target <=> c = d

\* Different clients never name the same Secret, but a client may move on.
DisjointTargets ==
    \A c, d \in Clients : \A s \in SpecsOf[c], t \in SpecsOf[d] :
        s.target = t.target => c = d

\* Different clients never patch one ConfigMap key, nor restart one workload.
DisjointPatches ==
    \A c, d \in Clients : c # d => \A s \in SpecsOf[c], t \in SpecsOf[d] :
        /\ s.cmap # None /\ s.cmap = t.cmap => s.key # t.key
        /\ s.workload # None => s.workload # t.workload

\* Shapes and versions only move forward and the certificate is always
\* available when the provider names one.
ForwardOnly == Env \cap {"revert", "certFault", "secretDeleted"} = {}

\* Data d is not newer than e.
Precedes(d, e) == \/ d.shape < e.shape
                  \/ d.shape = e.shape /\ d.version <= e.version

HeldBy(spec) == secrets[spec.target]
PatchedBy(spec) == cmaps[spec.cmap].data[spec.key]
AnnotatedBy(spec) == workloads[spec.workload].hash

-----------------------------------------------------------------------------
(* Safety *)

WorkerState == [pc: PCs, cr: CR \cup {None}, data: Data \cup {None}]
Applied == {"configmap", "rollout", "record"}
HoldsData == {"cert", "built"} \cup Applied

ObjectTypes ==
    /\ crs \in [Clients -> CR] /\ cache \in [Clients -> CR]
    /\ \A c \in Clients : /\ crs[c].spec \in SpecsOf[c]
                          /\ cache[c].spec \in SpecsOf[c]
    /\ live \in [Clients -> SUBSET {"cache", "worker"}]

\* A worker has a copy of the object exactly when it is running, data exactly
\* from the answer of Authentik on, and reaches a step only if the spec asks.
WorkerTypes ==
    /\ worker \in [Clients -> WorkerState]
    /\ \A c \in Clients :
          /\ ~At(c, "idle") => /\ worker[c].cr \in CR
                               /\ worker[c].cr.spec \in SpecsOf[c]
          /\ worker[c].pc \in HoldsData => worker[c].data \in Data
          /\ At(c, "configmap") => HasSource(worker[c].cr.spec, worker[c].data)
          /\ At(c, "rollout") => worker[c].cr.spec.workload # None

TargetTypes ==
    /\ secrets \in [Secrets -> [owner: Clients, data: Data] \cup {None}]
    /\ cmaps \in [ConfigMaps -> [data: [Keys -> Data \cup {None}],
                                 cached: [Keys -> Data \cup {None}],
                                 fresh: BOOLEAN]]
    /\ workloads \in [Workloads -> [hash: Data \cup {None},
                                    cached: Data \cup {None}]]

\* Every variable has its type.
TypeOK ==
    /\ ObjectTypes
    /\ WorkerTypes
    /\ TargetTypes
    /\ dirty \subseteq Clients /\ delayed \subseteq Clients
    /\ provider \in [Slugs -> 0..MaxVersion]
    /\ faults \in 0..MaxFaults

\* status.secretHash never runs ahead of the Secret: what it records, the Secret
\* holds or has since replaced by something newer.
StatusNeverAhead ==
    \A c \in Clients :
        crs[c].hash # None
            => /\ HeldBy(crs[c].spec) # None
               /\ HeldBy(crs[c].spec).owner = c
               /\ Precedes(crs[c].hash, HeldBy(crs[c].spec).data)

SyncedCond(cr) == cr.conds["SecretSynced"]
Synced(cr) == SyncedCond(cr) = [status |-> "True", gen |-> cr.gen]

\* SecretSynced = True with observedGeneration = metadata.generation, the test
\* clients such as "kubectl wait" make, means that the Secret the current spec
\* names carries data of that spec; a status computed from an older spec cannot
\* pass for one of the current generation.
SyncedGeneration ==
    \A c \in Clients :
        LET cr == crs[c] IN
        /\ cr.exists
        /\ Synced(cr)
        => /\ HeldBy(cr.spec) # None
           /\ HeldBy(cr.spec).owner = c
           /\ HeldBy(cr.spec).data.shape = cr.spec.shape

\* No change of an object is forgotten: an existing client is queued, waits for a
\* delay to end, is being reconciled, or has a watch event under way.  A requeue
\* dropped on one of Reconcile's returns would leave a client nobody looks at.
NeverForgotten ==
    \A c \in Clients :
        crs[c].exists => \/ c \in dirty \cup delayed
                         \/ ~At(c, "idle")
                         \/ "cache" \notin live[c]

\* What a copy of an object reports done, for its own generation, was done: the
\* ConfigMap key or the annotation carries the data of the hash, or newer data.  Of
\* a ConfigMap it says nothing when the data of the hash lacks the source key: step 6
\* is then skipped and an earlier True stays.
TrueNow(cr, type) == cr.conds[type] = [status |-> "True", gen |-> cr.gen]
Covers(held, hash) == held # None /\ Precedes(hash, held)
Fulfilled(cr) ==
    cr.hash # None =>
        /\ HasSource(cr.spec, cr.hash) /\ TrueNow(cr, "ConfigMapSynced")
              => Covers(PatchedBy(cr.spec), cr.hash)
        /\ cr.spec.workload # None /\ TrueNow(cr, "RolloutTriggered")
              => Covers(AnnotatedBy(cr.spec), cr.hash)

\* status never claims a target that was not reached: with ConfigMapSynced or
\* RolloutTriggered True for the current generation, the key or the annotation of
\* the current spec is up to the recorded hash (unless that hash is of data without
\* the source key), although both outcomes are only conditions in a copy that is
\* written later, together with the hash, or never, and are carried from one
\* reconciliation's copy to the next.
ConditionsBacked == \A c \in Clients : Fulfilled(crs[c])

-----------------------------------------------------------------------------
(***************************************************************************)
(* Why StatusNeverAhead and SecretNeverBackward hold under                 *)
(* ExclusiveTargets and ForwardOnly: along the chain                       *)
(*   recorded hash -> Secret -> data being built -> copies of the spec,    *)
(*   provider                                                              *)
(* nothing is ever newer than what follows it.  Where data may return,     *)
(* the chain breaks at its first link: see EventuallyUpdated.              *)
(***************************************************************************)

\* Data whose certificate keys are there exactly when its version has a key.
Complete(d) == d.cert = (d.version \in Signed)

\* Informer and worker lag behind the API server, in this order.
CopiesInOrder ==
    \A c \in Clients :
        /\ cache[c].spec.shape <= crs[c].spec.shape
        /\ ~At(c, "idle") => worker[c].cr.spec.shape <= cache[c].spec.shape

\* A client's Secret is its own and not newer than any copy of its spec in use,
\* nor, for the shape it has, newer than the provider.
SecretInOrder ==
    \A c \in Clients : \A s \in SpecsOf[c] :
        HeldBy(s) # None =>
            /\ HeldBy(s).owner = c
            /\ Complete(HeldBy(s).data)
            /\ HeldBy(s).data.shape <= cache[c].spec.shape
            /\ ~At(c, "idle") => HeldBy(s).data.shape <= worker[c].cr.spec.shape
            /\ \A t \in SpecsOf[c] :
                  t.shape = HeldBy(s).data.shape
                    => HeldBy(s).data.version <= provider[t.slug]

\* A recorded hash is backed by the Secret: equal to it or older.
Backed(c, hash) ==
    hash # None =>
        /\ Complete(hash)
        /\ \A s \in SpecsOf[c] : /\ HeldBy(s) # None
                                 /\ Precedes(hash, HeldBy(s).data)

HashesBacked ==
    \A c \in Clients :
        /\ Backed(c, crs[c].hash)
        /\ Backed(c, cache[c].hash)
        /\ ~At(c, "idle") => Backed(c, worker[c].cr.hash)

\* Data under way comes from the copy's spec and a version the provider had.
DataInOrder ==
    \A c \in Clients :
        worker[c].pc \in HoldsData =>
            LET w == worker[c] IN
            /\ w.data.shape = w.cr.spec.shape
            /\ w.data.version <= provider[w.cr.spec.slug]
            /\ IF w.pc = "cert" THEN w.data.version \in Signed
                                ELSE Complete(w.data)
            /\ HeldBy(w.cr.spec) # None
                  => Precedes(HeldBy(w.cr.spec).data, w.data)

\* Past the apply the Secret holds exactly the data under way.
DataApplied ==
    \A c \in Clients :
        worker[c].pc \in Applied
            => HeldBy(worker[c].cr.spec) = [owner |-> c, data |-> worker[c].data]

\* The inductive invariant.
Chain == /\ CopiesInOrder
         /\ SecretInOrder
         /\ HashesBacked
         /\ DataInOrder
         /\ DataApplied

InOrder == TypeOK /\ Chain

-----------------------------------------------------------------------------
(***************************************************************************)
(* Why ConditionsBacked holds under DisjointPatches as well: the chain     *)
(* goes on from the Secret to what was written to the other targets.       *)
(***************************************************************************)

\* What was once in the client's Secret: complete and not newer than it.
FromSecret(spec, held) ==
    held # None => /\ Complete(held)
                   /\ HeldBy(spec) # None
                   /\ Precedes(held, HeldBy(spec).data)

\* A client's key and annotation come from its Secret, and the cached annotation,
\* which decides whether the patch is empty, is not newer than the stored one.
PatchesInOrder ==
    \A c \in Clients : \A s \in SpecsOf[c] :
        /\ s.cmap # None => FromSecret(s, PatchedBy(s))
        /\ s.workload # None =>
              /\ FromSecret(s, AnnotatedBy(s))
              /\ LET cached == workloads[s.workload].cached IN
                 cached # None => Complete(cached) /\ Covers(AnnotatedBy(s), cached)

\* A worker that has patched or annotated with success left its data there.
OutcomesTrue ==
    \A c \in Clients :
        LET w == worker[c] IN
        /\ w.pc \in {"rollout", "record"} /\ HasSource(w.cr.spec, w.data)
           /\ w.cr.conds["ConfigMapSynced"].status = "True"
              => PatchedBy(w.cr.spec) = w.data
        /\ w.pc = "record" /\ w.cr.spec.workload # None
           /\ w.cr.conds["RolloutTriggered"].status = "True"
              => AnnotatedBy(w.cr.spec) = w.data

\* A copy's conditions are of its generation or an earlier one, and true.
Truthful(cr) == /\ \A type \in ConditionTypes : cr.conds[type].gen <= cr.gen
                /\ Fulfilled(cr)

CopiesTruthful ==
    \A c \in Clients : /\ Truthful(crs[c])
                       /\ Truthful(cache[c])
                       /\ ~At(c, "idle") => Truthful(worker[c].cr)

OutcomesInOrder == PatchesInOrder /\ OutcomesTrue /\ CopiesTruthful

-----------------------------------------------------------------------------
(***************************************************************************)
(* Why SyncedGeneration holds, and why a status write is never seen as     *)
(* anything but a report of what was done: resourceVersion ties each copy  *)
(* that is taken for current to the object it was made from.               *)
(***************************************************************************)

\* The object itself but for conditions set since; SecretSynced set only to False.
CopyOf(copy, cr) ==
    /\ copy.exists = cr.exists /\ copy.gen = cr.gen
    /\ copy.spec = cr.spec /\ copy.hash = cr.hash
    /\ SyncedCond(copy) \in {SyncedCond(cr), [status |-> "False", gen |-> cr.gen]}

\* A copy with the live resourceVersion is a copy of the live object, and the
\* informer has been there before the worker.
CopiesCurrent ==
    \A c \in Clients :
        /\ "cache" \in live[c] => cache[c] = crs[c]
        /\ ~At(c, "idle") => worker[c].cr.exists
        /\ ~At(c, "idle") /\ "worker" \in live[c]
              => /\ CopyOf(worker[c].cr, crs[c])
                 /\ cache[c].spec = crs[c].spec

\* Data under way has the shape of the copy's spec.
DataOfSpec ==
    \A c \in Clients :
        worker[c].pc \in HoldsData => worker[c].data.shape = worker[c].cr.spec.shape

\* Once SecretSynced is True for the current generation, every copy in use
\* is of the current spec and the Secret is that spec's.
SyncedStays ==
    \A c \in Clients :
        /\ SyncedCond(crs[c]).gen <= crs[c].gen
        /\ Synced(crs[c]) =>
              /\ cache[c].spec = crs[c].spec
              /\ ~At(c, "idle") => worker[c].cr.spec = crs[c].spec
              /\ HeldBy(crs[c].spec) # None
              /\ HeldBy(crs[c].spec).owner = c
              /\ HeldBy(crs[c].spec).data.shape = crs[c].spec.shape

-----------------------------------------------------------------------------
(* What a step may never do *)

\* A reconciliation that works from a stale cached copy or a slow answer never
\* puts an older configuration back over a newer one.
SecretNeverBackward ==
    [][\A k \in Secrets :
          secrets[k] # None /\ secrets'[k] # None
              => Precedes(secrets[k].data, secrets'[k].data)]_secrets

\* A rollout is triggered only with the hash of data the client's Secret already
\* holds, so a restarted pod never starts from the data before the change.
RolloutAfterApply ==
    [][\A w \in Workloads :
          workloads'[w].hash # workloads[w].hash
              => \E c \in Clients :
                    LET spec == worker[c].cr.spec IN
                    /\ At(c, "rollout")
                    /\ spec.workload = w
                    /\ HeldBy(spec) # None
                    /\ HeldBy(spec).data = workloads'[w].hash]_workloads

\* A hash is recorded only for what the Secret of the current spec holds at that
\* moment, whichever of the calls before it failed, was repeated or lost its answer,
\* and although the copy that brings the hash was read before all of them.
RecordedIsHeld ==
    [][\A c \in Clients :
          crs'[c].hash # crs[c].hash /\ crs'[c].hash # None
              => HeldBy(crs[c].spec) = [owner |-> c, data |-> crs'[c].hash]]_crs

\* The read-modify-write of a ConfigMap through the cache never undoes another
\* client's key: a key changes only to the data of a client that patches it.
NoLostUpdate ==
    [][\A m \in ConfigMaps : \A k \in Keys :
          cmaps'[m].data[k] # cmaps[m].data[k]
              => \E c \in Clients :
                    /\ At(c, "configmap")
                    /\ worker[c].cr.spec.cmap = m
                    /\ worker[c].cr.spec.key = k
                    /\ worker[c].data = cmaps'[m].data[k]]_cmaps

-----------------------------------------------------------------------------
(* Liveness *)

\* Once users, Authentik and faults leave it alone, every existing client's
\* workload is told to use what spec and provider ask for, even when the process
\* died, or an update was refused, between the apply of the Secret and the rollout;
\* or RolloutTriggered is not True for the current generation: the rollout failed,
\* or an edit asked for it without changing the data.  As long as data does not
\* return to an earlier value: the merge patch may then be empty (rollout.go:30).
EventuallyRolledOut ==
    \A c \in Clients :
        <>[](crs[c].exists /\ crs[c].spec.workload # None
                => \/ workloads[crs[c].spec.workload].hash = Desired(crs[c].spec)
                   \/ ~TrueNow(crs[c], "RolloutTriggered"))


\* The controller comes to rest: its own status writes, lastSyncTime included, wake
\* it up again, but in the end a reconciliation finds nothing to write and no
\* object gets a new resourceVersion.
EventuallyQuiet == <>[][FALSE]_<<objects, targets>>

-----------------------------------------------------------------------------
(* What the documentation says; see the findings in PROJECT.json *)

\* architecture.md's sequence diagram applies the Secret when the hash changed
\* "or Secret missing", and creating-oidc-clients.md says that the operator
\* "creates the Secret if it does not exist": in the end no client lacks one.
EventuallyPresent ==
    \A c \in Clients : <>[](crs[c].exists => HeldBy(crs[c].spec) # None)

\* crd.md: the status is written "after each reconciliation", and condition
\* AuthentikProviderFound is True when "the Authentik API returned a valid OAuth2
\* provider", False when "the Authentik API is unreachable": with Authentik
\* reachable for good, it becomes and stays True.
EventuallyFound ==
    \A c \in Clients :
        <>[](crs[c].exists =>
                crs[c].conds["AuthentikProviderFound"].status = "True")

\* oidcclient_types.go: "The operator patches the ConfigMap's DataKey with the
\* value from that profile key": the key comes to hold the generated data.
EventuallyPatched ==
    \A c \in Clients :
        <>[](crs[c].exists /\ HasSource(crs[c].spec, Desired(crs[c].spec))
                => PatchedBy(crs[c].spec) = Desired(crs[c].spec))

\* creating-oidc-clients.md: the operator "creates the Secret if it does not exist,
\* or updates it if the content has changed": once the world stands still a Secret
\* that is there holds what spec and provider ask for.  An apply whose status update
\* is refused or lost, followed by a return to the data of the recorded hash, is
\* never undone.
EventuallyUpdated ==
    \A c \in Clients :
        <>[](crs[c].exists /\ HeldBy(crs[c].spec) # None
                => HeldBy(crs[c].spec).data = Desired(crs[c].spec))
=============================================================================
