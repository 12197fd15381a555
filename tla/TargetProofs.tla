----------------------------- MODULE TargetProofs -----------------------------
(***************************************************************************)
(* What a reconciliation does to the workload and the ConfigMap, for any   *)
(* number of clients and under any faults: a rollout announces only data   *)
(* that the Secret holds, and a ConfigMap update undoes no other client's. *)
(* Neither needs the assumptions of OrderProofs about edits and rotations. *)
(***************************************************************************)
EXTENDS ReconcilerProofs

USE DEF outside, objects, targets, queue

-----------------------------------------------------------------------------
(* Between the apply and the status update, the Secret holds the data *)

\* A copy keeps its spec when a condition is set in it.
LEMMA CopyKeepsSpec ==
    ASSUME NEW cr \in CR, NEW type \in ConditionTypes,
           NEW status \in {"True", "False"}
    PROVE  SetCondition(cr, type, status).spec = cr.spec
  BY SetConditionKeeps

\* Secrets alone, and no worker past its apply that was not there before.
LEMMA AppliedKept ==
    ASSUME DataApplied, UNCHANGED secrets,
           \A d \in Clients :
              worker'[d].pc \in Applied
                  => /\ worker[d].pc \in Applied
                     /\ worker'[d].cr.spec = worker[d].cr.spec
                     /\ worker'[d].data = worker[d].data
    PROVE  DataApplied'
  BY DEF DataApplied, HeldBy

\* A write of a client's Secret is seen only through that client's specs.
LEMMA OthersUntouched ==
    ASSUME TypeOK, DisjointTargets, NEW c \in Clients, ~At(c, "idle"),
           WriteSecret(c), NEW d \in Clients \ {c}, NEW s \in SpecsOf[d]
    PROVE  HeldBy(s)' = HeldBy(s)
  <1>1. worker[c].cr.spec \in SpecsOf[c]
    BY RunningTypes
  <1>2. s.target # worker[c].cr.spec.target
    BY <1>1 DEF DisjointTargets
  <1> QED BY <1>2 DEF WriteSecret, HeldBy, TypeOK, TargetTypes

\* The apply itself, answered or not.
LEMMA ApplyHolds ==
    ASSUME TypeOK, DisjointTargets, DataApplied, NEW c \in Clients,
           ApplySecret(c) \/ ApplyFails(c)
    PROVE  DataApplied'
  <1>1. ~At(c, "idle") /\ worker[c].cr \in CR /\ worker[c].cr.spec \in SpecRecord
    BY RunningTypes DEF ApplySecret, ApplyFails, At
  <1>2. worker[c].cr.spec.target \in Secrets
    BY <1>1 DEF SpecRecord
  <1>3. CASE WriteSecret(c)
    <2>1. ASSUME NEW d \in Clients \ {c}, worker'[d].pc \in Applied
          PROVE  secrets'[worker'[d].cr.spec.target] =
                    [owner |-> d, data |-> worker'[d].data]
      <3>1. worker'[d] = worker[d]
        BY DEF ApplySecret, ApplyFails, Goto, TypeOK, WorkerTypes
      <3>2. ~At(d, "idle")
        BY <2>1, <3>1 DEF At, Applied
      <3>3. worker[d].cr.spec \in SpecsOf[d]
        BY <3>2, RunningTypes
      <3>4. secrets'[worker[d].cr.spec.target] = secrets[worker[d].cr.spec.target]
        BY <1>1, <1>3, <3>3, OthersUntouched DEF HeldBy
      <3> QED BY <2>1, <3>1, <3>4 DEF DataApplied, HeldBy
    <2>2. worker'[c].pc \in Applied
             => secrets'[worker'[c].cr.spec.target] =
                   [owner |-> c, data |-> worker'[c].data]
      <3>1. CASE ApplySecret(c)
        <4>1. /\ worker'[c].cr = worker[c].cr
              /\ worker'[c].data = worker[c].data
          BY <3>1 DEF ApplySecret, Goto, TypeOK, WorkerTypes
        <4>2. secrets'[worker[c].cr.spec.target] =
                 [owner |-> c, data |-> worker[c].data]
          BY <1>2, <1>3 DEF WriteSecret, TypeOK, TargetTypes
        <4> QED BY <4>1, <4>2
      <3>2. CASE ApplyFails(c)
        BY <3>2 DEF ApplyFails, Goto, AfterApplyError, Applied, TypeOK, WorkerTypes
      <3> QED BY <3>1, <3>2
    <2> QED BY <2>1, <2>2 DEF DataApplied, HeldBy
  <1>4. CASE ApplyFails(c) /\ UNCHANGED secrets
    BY <1>4, AppliedKept
       DEF ApplyFails, Goto, AfterApplyError, Applied, TypeOK, WorkerTypes
  <1> QED BY <1>3, <1>4 DEF ApplySecret, ApplyFails

\* The calls after the apply keep the copy's spec and the data.
LEMMA LaterCallsHold ==
    ASSUME TypeOK, DataApplied, NEW c \in Clients,
           \/ PatchConfigMap(c) \/ ConfigMapConflict(c) \/ ConfigMapFails(c)
           \/ TriggerRollout(c) \/ RolloutFails(c)
    PROVE  DataApplied'
  <1>1. worker[c].pc \in Applied /\ ~At(c, "idle")
    BY DEF PatchConfigMap, ConfigMapConflict, ConfigMapFails, TriggerRollout,
           RolloutFails, At, Applied
  <1>2. worker[c].cr \in CR
    BY <1>1, RunningTypes
  <1>3. PICK type \in ConditionTypes, status \in {"True", "False"}, next \in PCs :
           Goto(c, next, SetCondition(worker[c].cr, type, status), worker[c].data)
    BY NextSteps
       DEF PatchConfigMap, ConfigMapConflict, ConfigMapFails, ConfigMapDone,
           TriggerRollout, RolloutFails, RolloutDone, ConditionTypes, PCs
  <1> DEFINE cr == SetCondition(worker[c].cr, type, status)
  <1>4. cr.spec = worker[c].cr.spec
    BY <1>2, CopyKeepsSpec
  <1>5. UNCHANGED secrets
    BY DEF PatchConfigMap, ConfigMapConflict, ConfigMapFails, TriggerRollout,
           RolloutFails
  <1> HIDE DEF cr
  <1> QED BY <1>1, <1>3, <1>4, <1>5, AppliedKept DEF Goto, TypeOK, WorkerTypes, cr

\* All other steps of a worker leave the Secrets and do not lead past the apply.
LEMMA OtherCallsHold ==
    ASSUME TypeOK, DataApplied, NEW c \in Clients,
           \/ FetchProvider(c) \/ FetchFails(c) \/ RefreshRequeue(c)
           \/ FetchCertificate(c) \/ CertificateFails(c) \/ SkipUnchanged(c)
           \/ RecordStatus(c) \/ RecordConflict(c) \/ RecordFails(c)
           \/ ReportFailure(c) \/ Take(c)
    PROVE  DataApplied'
  <1>1. UNCHANGED secrets
    BY DEF FetchProvider, FetchFails, RefreshRequeue, FetchCertificate,
           CertificateFails, SkipUnchanged, RecordStatus, RecordConflict,
           RecordFails, ReportFailure, Take, Begin, DropDeleted, AwaitToken
  <1>2. \A d \in Clients \ {c} : worker'[d] = worker[d]
    BY DEF FetchProvider, FetchFails, RefreshRequeue, FetchCertificate,
           CertificateFails, SkipUnchanged, RecordStatus, RecordConflict,
           RecordFails, ReportFailure, Take, Begin, DropDeleted, AwaitToken,
           Goto, Finish, TypeOK, WorkerTypes
  <1>3. worker'[c].pc \notin Applied \/ worker' = worker
    <2>1. CASE \/ FetchProvider(c) \/ FetchFails(c)
               \/ FetchCertificate(c) \/ CertificateFails(c) \/ Begin(c)
      BY <2>1 DEF FetchProvider, FetchFails, FetchCertificate, CertificateFails,
                  Begin, Goto, Applied, TypeOK, WorkerTypes
    <2>2. CASE Finish(c)
      BY <2>2 DEF Finish, Idle, Applied, TypeOK, WorkerTypes
    <2>3. CASE DropDeleted(c) \/ AwaitToken(c)
      BY <2>3 DEF DropDeleted, AwaitToken
    <2> QED
      BY <2>1, <2>2, <2>3
         DEF RefreshRequeue, SkipUnchanged, RecordStatus, RecordConflict,
             RecordFails, ReportFailure, Take
  <1> QED BY <1>1, <1>2, <1>3, AppliedKept

\* The surroundings: only a deletion touches Secrets, only a restart workers.
LEMMA SurroundingsHold ==
    ASSUME TypeOK, DataApplied, "secretDeleted" \notin Env,
           \/ \E c \in Clients : TimerFires(c)
           \/ Informers \/ Restart \/ Environment
    PROVE  DataApplied'
  <1>1. \A k \in Secrets : ~DeleteSecret(k)
    BY DEF DeleteSecret, Fault
  <1>2. UNCHANGED secrets /\ (UNCHANGED worker \/ Restart)
    BY <1>1
       DEF TimerFires, Informers, SyncClient, SyncConfigMap, SyncWorkload, Restart,
           Environment, RotateProvider, EditSpec, DeleteClient, CreateClient
  <1>3. Restart => \A d \in Clients : worker'[d].pc \notin Applied
    <2>1. Idle.pc \notin Applied
      BY DEF Idle, Applied
    <2> QED BY <2>1 DEF Restart
  <1> QED BY <1>2, <1>3, AppliedKept

\* Every step keeps the Secret equal to the data of a worker past its apply.
LEMMA DataAppliedStep ==
    ASSUME TypeOK, DataApplied, DisjointTargets, "secretDeleted" \notin Env,
           [Next]_vars
    PROVE  DataApplied'
  <1>1. CASE UNCHANGED vars
    BY <1>1 DEF vars, DataApplied, HeldBy
  <1>2. ASSUME NEW c \in Clients, Step(c) PROVE DataApplied'
    BY <1>2, ApplyHolds, LaterCallsHold, OtherCallsHold DEF Step
  <1>3. ASSUME NEW c \in Clients, Take(c) PROVE DataApplied'
    BY <1>3, OtherCallsHold
  <1> QED BY <1>1, <1>2, <1>3, SurroundingsHold DEF Next

\* A workload's annotation changes only at a worker's rollout call, to its data.
LEMMA AnnotationStep ==
    ASSUME TypeOK, DataApplied, [Next]_vars,
           NEW w \in Workloads, workloads'[w].hash # workloads[w].hash
    PROVE  \E c \in Clients :
              /\ At(c, "rollout")
              /\ worker[c].cr.spec.workload = w
              /\ HeldBy(worker[c].cr.spec) # None
              /\ HeldBy(worker[c].cr.spec).data = workloads'[w].hash
  <1>1. workloads \in [Workloads -> [hash: Data \cup {None}, cached: Data \cup {None}]]
    BY DEF TypeOK, TargetTypes
  <1>2. workloads' # workloads
    OBVIOUS
  <1>3. ~Informers /\ ~Restart
    <2>1. ASSUME NEW v \in Workloads, SyncWorkload(v) PROVE FALSE
      BY <1>1, <2>1 DEF SyncWorkload
    <2>2. ASSUME Restart PROVE FALSE
      BY <1>1, <2>2 DEF Restart
    <2> QED BY <1>2, <2>1, <2>2 DEF Informers, SyncClient, SyncConfigMap
  <1>4. PICK c \in Clients : TriggerRollout(c) \/ RolloutFails(c)
    BY <1>2, <1>3
       DEF Next, vars, Take, Begin, DropDeleted, AwaitToken, Step, TimerFires,
           Environment, RotateProvider, EditSpec, DeleteClient, CreateClient,
           DeleteSecret, FetchProvider, FetchFails, RefreshRequeue,
           FetchCertificate, CertificateFails, SkipUnchanged, ApplySecret,
           ApplyFails, PatchConfigMap, ConfigMapConflict, ConfigMapFails,
           RecordStatus, RecordConflict, RecordFails, ReportFailure
  <1>5. At(c, "rollout") /\ WriteAnnotation(c)
    BY <1>2, <1>4 DEF TriggerRollout, RolloutFails
  <1>6. worker[c].cr.spec.workload = w /\ workloads'[w].hash = worker[c].data
    BY <1>1, <1>5 DEF WriteAnnotation
  <1>7. HeldBy(worker[c].cr.spec) = [owner |-> c, data |-> worker[c].data]
    BY <1>5 DEF DataApplied, Applied, At
  <1>8. worker[c].cr.spec.target \in Secrets /\ worker[c].data \in Data
    BY <1>5, RunningTypes DEF At, HoldsData, Applied, SpecRecord
  <1>9. HeldBy(worker[c].cr.spec) # None
    BY <1>7, <1>8, NoneAssumption
  <1> QED BY <1>5, <1>6, <1>7, <1>9

\* A pod is restarted only after the Secret holds the data the annotation names,
\* for any clients that do not share Secrets and that nobody deletes, whatever
\* edits, reversals, crashes and lost answers there are.
THEOREM RolloutIsAfterApply ==
    ASSUME DisjointTargets, "secretDeleted" \notin Env
    PROVE  Spec => RolloutAfterApply
  <1>1. Init => TypeOK /\ DataApplied
    BY InitTypes DEF Init, DataApplied, Idle, Applied
  <1>2. (TypeOK /\ DataApplied) /\ [Next]_vars => (TypeOK /\ DataApplied)'
    BY StepTypes, DataAppliedStep
  <1>3. (TypeOK /\ DataApplied) /\ [Next]_vars
           => [\A w \in Workloads :
                  workloads'[w].hash # workloads[w].hash
                      => \E c \in Clients :
                            LET spec == worker[c].cr.spec IN
                            /\ At(c, "rollout")
                            /\ spec.workload = w
                            /\ HeldBy(spec) # None
                            /\ HeldBy(spec).data = workloads'[w].hash]_workloads
    BY AnnotationStep
  <1> QED BY <1>1, <1>2, <1>3, PTL DEF Spec, RolloutAfterApply

-----------------------------------------------------------------------------
(* ConfigMaps *)

\* The cached copy of a ConfigMap whose resourceVersion is live is its content.
FreshIsCurrent ==
    \A m \in ConfigMaps : cmaps[m].fresh => cmaps[m].cached = cmaps[m].data

\* An update keeps that: it makes the copy stale unless it changes nothing.
LEMMA WriteKeepsFresh ==
    ASSUME TypeOK, FreshIsCurrent, NEW c \in Clients, At(c, "configmap"),
           WriteConfigMap(c)
    PROVE  FreshIsCurrent'
  <1> DEFINE m   == worker[c].cr.spec.cmap
             new == [cmaps[m].cached EXCEPT ![worker[c].cr.spec.key] = worker[c].data]
  <1>1. m \in ConfigMaps
    BY RunningTypes DEF At, TypeOK, WorkerTypes, HasSource, SpecRecord
  <1>2. cmaps' = [cmaps EXCEPT ![m].data = new,
                               ![m].fresh = @ /\ new = cmaps[m].data]
    BY DEF WriteConfigMap
  <1>3. \A n \in ConfigMaps \ {m} : cmaps'[n] = cmaps[n]
    BY <1>1, <1>2 DEF TypeOK, TargetTypes
  <1>4. /\ cmaps'[m].data = new /\ cmaps'[m].cached = cmaps[m].cached
        /\ cmaps'[m].fresh => cmaps[m].fresh /\ new = cmaps[m].data
    <2> HIDE DEF new, m
    <2> QED BY <1>1, <1>2 DEF TypeOK, TargetTypes
  <1>5. cmaps'[m].fresh => cmaps'[m].cached = cmaps'[m].data
    BY <1>1, <1>4 DEF FreshIsCurrent
  <1> QED BY <1>3, <1>5 DEF FreshIsCurrent

\* Every step keeps a fresh copy of a ConfigMap equal to its content.
LEMMA FreshStep ==
    ASSUME TypeOK, FreshIsCurrent, [Next]_vars
    PROVE  FreshIsCurrent'
  <1>1. CASE UNCHANGED cmaps
    BY <1>1 DEF FreshIsCurrent
  <1>2. ASSUME NEW m \in ConfigMaps, SyncConfigMap(m) PROVE FreshIsCurrent'
    BY <1>2 DEF SyncConfigMap, FreshIsCurrent, TypeOK, TargetTypes
  <1>3. CASE Restart
    BY <1>3 DEF Restart, FreshIsCurrent, TypeOK, TargetTypes
  <1>4. ASSUME NEW c \in Clients, PatchConfigMap(c) \/ ConfigMapFails(c)
        PROVE  FreshIsCurrent'
    BY <1>1, <1>4, WriteKeepsFresh DEF PatchConfigMap, ConfigMapFails
  <1> QED
    BY <1>1, <1>2, <1>3, <1>4
       DEF Next, vars, Take, Begin, DropDeleted, AwaitToken, Step, TimerFires,
           Informers, SyncClient, SyncWorkload, Environment, RotateProvider,
           EditSpec, DeleteClient, CreateClient, DeleteSecret, FetchProvider,
           FetchFails, RefreshRequeue, FetchCertificate, CertificateFails,
           SkipUnchanged, ApplySecret, ApplyFails, ConfigMapConflict,
           TriggerRollout, RolloutFails, RecordStatus, RecordConflict,
           RecordFails, ReportFailure

\* A key that changes was changed by a worker at its ConfigMap call, to its data.
LEMMA KeyStep ==
    ASSUME TypeOK, FreshIsCurrent, [Next]_vars,
           NEW m \in ConfigMaps, NEW k \in Keys,
           cmaps'[m].data[k] # cmaps[m].data[k]
    PROVE  \E c \in Clients :
              /\ At(c, "configmap")
              /\ worker[c].cr.spec.cmap = m
              /\ worker[c].cr.spec.key = k
              /\ worker[c].data = cmaps'[m].data[k]
  <1>1. cmaps' # cmaps
    OBVIOUS
  <1>2. ~Restart /\ \A n \in ConfigMaps : ~SyncConfigMap(n)
    <2>1. cmaps \in [ConfigMaps -> [data: [Keys -> Data \cup {None}],
                                    cached: [Keys -> Data \cup {None}],
                                    fresh: BOOLEAN]]
      BY DEF TypeOK, TargetTypes
    <2>2. ASSUME Restart PROVE FALSE
      BY <2>1, <2>2 DEF Restart
    <2>3. ASSUME NEW n \in ConfigMaps, SyncConfigMap(n) PROVE FALSE
      BY <2>1, <2>3 DEF SyncConfigMap
    <2> QED BY <2>2, <2>3
  <1>3. PICK c \in Clients : PatchConfigMap(c) \/ ConfigMapFails(c)
    BY <1>1, <1>2
       DEF Next, vars, Take, Begin, DropDeleted, AwaitToken, Step, TimerFires,
           Informers, SyncClient, SyncWorkload, Environment, RotateProvider,
           EditSpec, DeleteClient, CreateClient, DeleteSecret, FetchProvider,
           FetchFails, RefreshRequeue, FetchCertificate, CertificateFails,
           SkipUnchanged, ApplySecret, ApplyFails, ConfigMapConflict,
           TriggerRollout, RolloutFails, RecordStatus, RecordConflict,
           RecordFails, ReportFailure
  <1> DEFINE spec == worker[c].cr.spec
             new  == [cmaps[spec.cmap].cached EXCEPT ![spec.key] = worker[c].data]
  <1>4. At(c, "configmap") /\ MayPatch(spec.cmap) /\ WriteConfigMap(c)
    BY <1>1, <1>3 DEF PatchConfigMap, ConfigMapFails
  <1>5. spec.cmap \in ConfigMaps /\ spec.key \in Keys
    BY <1>4, RunningTypes DEF At, TypeOK, WorkerTypes, HasSource, SpecRecord
  <1>6. m = spec.cmap /\ cmaps'[m].data = new
    <2>1. cmaps \in [ConfigMaps -> [data: [Keys -> Data \cup {None}],
                                    cached: [Keys -> Data \cup {None}],
                                    fresh: BOOLEAN]]
      BY DEF TypeOK, TargetTypes
    <2>2. cmaps' = [cmaps EXCEPT ![spec.cmap].data = new,
                                 ![spec.cmap].fresh =
                                    @ /\ new = cmaps[spec.cmap].data]
      BY <1>4 DEF WriteConfigMap
    <2> HIDE DEF new, spec
    <2>3. cmaps'[spec.cmap].data = new
      BY <1>5, <2>1, <2>2
    <2>4. m = spec.cmap
      BY <1>5, <2>1, <2>2
    <2> QED BY <2>3, <2>4
  <1>7. cmaps[m].cached = cmaps[m].data
    BY <1>4, <1>6 DEF MayPatch, FreshIsCurrent
  <1>8. cmaps[m].cached \in [Keys -> Data \cup {None}]
    BY DEF TypeOK, TargetTypes
  <1>9. k = spec.key /\ new[k] = worker[c].data
    BY <1>5, <1>6, <1>7, <1>8
  <1> QED BY <1>4, <1>6, <1>9

\* A key of a ConfigMap changes only to the data of a client that patches it, for
\* any number of clients and workers, stale caches, lost answers and crashes.
THEOREM NoUpdateIsLost == Spec => NoLostUpdate
  <1>1. Init => TypeOK /\ FreshIsCurrent
    BY InitTypes DEF Init, FreshIsCurrent
  <1>2. (TypeOK /\ FreshIsCurrent) /\ [Next]_vars => (TypeOK /\ FreshIsCurrent)'
    BY StepTypes, FreshStep
  <1>3. (TypeOK /\ FreshIsCurrent) /\ [Next]_vars
           => [\A m \in ConfigMaps : \A k \in Keys :
                  cmaps'[m].data[k] # cmaps[m].data[k]
                      => \E c \in Clients :
                            /\ At(c, "configmap")
                            /\ worker[c].cr.spec.cmap = m
                            /\ worker[c].cr.spec.key = k
                            /\ worker[c].data = cmaps'[m].data[k]]_cmaps
    BY KeyStep
  <1> QED BY <1>1, <1>2, <1>3, PTL DEF Spec, NoLostUpdate
=============================================================================
