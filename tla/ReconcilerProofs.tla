-------------------------- MODULE ReconcilerProofs --------------------------
(***************************************************************************)
(* Theorems about the OIDCClient controller, for any number of clients,    *)
(* slugs, Secrets, ConfigMaps, workloads, workers and faults.              *)
(***************************************************************************)
EXTENDS ReconcilerProps, TLAPS

USE DEF outside, objects, targets, queue

-----------------------------------------------------------------------------
(* Facts about the helpers *)

\* The fields of an OIDCClient object have their types.
LEMMA Fields ==
    ASSUME NEW cr \in CR
    PROVE  /\ cr.exists \in BOOLEAN /\ cr.gen \in Nat
           /\ cr.spec \in SpecRecord /\ cr.hash \in Data \cup {None}
           /\ cr.conds \in Conditions
  BY DEF CR

\* Setting a condition touches neither the spec nor the hash of the copy.
LEMMA SetConditionKeeps ==
    ASSUME NEW cr \in CR, NEW type \in ConditionTypes,
           NEW status \in {"True", "False"}
    PROVE  /\ SetCondition(cr, type, status) \in CR
           /\ SetCondition(cr, type, status).spec = cr.spec
           /\ SetCondition(cr, type, status).hash = cr.hash
           /\ SetCondition(cr, type, status).gen = cr.gen
           /\ SetCondition(cr, type, status).exists = cr.exists
  <1> DEFINE cond == [status |-> status, gen |-> cr.gen]
             new  == [cr.conds EXCEPT ![type] = cond]
  <1>1. new \in Conditions
    BY Fields DEF Conditions
  <1>2. SetCondition(cr, type, status) = [cr EXCEPT !.conds = new]
    BY DEF SetCondition
  <1> HIDE DEF new
  <1> QED BY <1>1, <1>2 DEF CR

\* Recording the outcome sets the hash to the data built and keeps the rest.
LEMMA RecordedKeeps ==
    ASSUME NEW w, w.cr \in CR, w.data \in Data
    PROVE  /\ Recorded(w) \in CR
           /\ Recorded(w).hash = w.data
           /\ Recorded(w).spec = w.cr.spec
  <1> DEFINE cr == [w.cr EXCEPT !.hash = w.data]
  <1>1. cr \in CR /\ cr.hash = w.data /\ cr.spec = w.cr.spec
    BY DEF CR
  <1> HIDE DEF cr
  <1>2. "SecretSynced" \in ConditionTypes
    BY DEF ConditionTypes
  <1>3. Recorded(w) = SetCondition(cr, "SecretSynced", "True")
    BY DEF Recorded, cr
  <1> QED BY <1>1, <1>2, <1>3, SetConditionKeeps

\* A new object is well formed and its status empty.
LEMMA NewCRType ==
    ASSUME NEW spec \in SpecRecord
    PROVE  /\ NewCR(spec) \in CR
           /\ NewCR(spec).spec = spec
           /\ NewCR(spec).hash = None
  <1>1. NoConditions \in Conditions
    BY DEF NoConditions, Conditions
  <1> QED BY <1>1 DEF NewCR, CR

\* The data built has the shape of the spec and the provider's version.
LEMMA BuildType ==
    ASSUME NEW spec \in SpecRecord, provider \in [Slugs -> 0..MaxVersion]
    PROVE  /\ Build(spec) \in Data
           /\ Build(spec).shape = spec.shape
           /\ Build(spec).version = provider[spec.slug]
           /\ Build(spec).cert = FALSE
  BY BoundsAssumption DEF Build, Data, SpecRecord

\* Every spec a user may give is well formed.
LEMMA SpecsTyped ==
    ASSUME NEW c \in Clients, NEW s \in SpecsOf[c]
    PROVE  s \in SpecRecord
  BY SpecsAssumption

-----------------------------------------------------------------------------
(* Type correctness *)

\* Moving a worker to its next step with a well-formed copy and data.
LEMMA GotoTypes ==
    ASSUME WorkerTypes, NEW c \in Clients, NEW pc \in PCs \ {"idle"},
           NEW cr \in CR, cr.spec \in SpecsOf[c],
           NEW data \in Data \cup {None},
           pc \in HoldsData => data \in Data,
           pc = "configmap" => HasSource(cr.spec, data),
           pc = "rollout" => cr.spec.workload # None,
           Goto(c, pc, cr, data)
    PROVE  WorkerTypes'
  <1> DEFINE new == [pc |-> pc, cr |-> cr, data |-> data]
  <1>1. new \in WorkerState /\ new.pc = pc /\ new.cr = cr /\ new.data = data
    BY DEF WorkerState
  <1>2. worker' = [worker EXCEPT ![c] = new]
    BY DEF Goto
  <1> HIDE DEF new
  <1>3. worker' \in [Clients -> WorkerState]
    BY <1>1, <1>2 DEF WorkerTypes
  <1>4. ASSUME NEW d \in Clients
        PROVE  /\ ~At(d, "idle")' => /\ worker'[d].cr \in CR
                                     /\ worker'[d].cr.spec \in SpecsOf[d]
               /\ worker'[d].pc \in HoldsData => worker'[d].data \in Data
               /\ At(d, "configmap")' =>
                     HasSource(worker'[d].cr.spec, worker'[d].data)
               /\ At(d, "rollout")' => worker'[d].cr.spec.workload # None
    BY <1>1, <1>2 DEF WorkerTypes, At
  <1> QED BY <1>3, <1>4 DEF WorkerTypes, At

\* Ending a reconciliation.
LEMMA FinishTypes ==
    ASSUME WorkerTypes, delayed \subseteq Clients, NEW c \in Clients, Finish(c)
    PROVE  WorkerTypes' /\ delayed' \subseteq Clients
  <1>1. Idle \in WorkerState /\ Idle.pc = "idle"
    BY DEF Idle, WorkerState, PCs
  <1>2. "idle" \notin HoldsData
    BY DEF HoldsData, Applied
  <1> QED BY <1>1, <1>2 DEF WorkerTypes, Finish, At

\* A status write keeps the spec of the stored object.
LEMMA WriteStatusTypes ==
    ASSUME ObjectTypes, NEW c \in Clients, NEW cr \in CR, NEW touched,
           WriteStatus(c, cr, touched), cache' = cache
    PROVE  /\ ObjectTypes'
           /\ crs' = [crs EXCEPT ![c] = crs'[c]]
           /\ crs'[c].hash = cr.hash /\ crs'[c].spec = crs[c].spec
  <1> DEFINE new == [crs[c] EXCEPT !.hash = cr.hash, !.conds = cr.conds]
  <1>1. crs[c] \in CR
    BY DEF ObjectTypes
  <1>2. new \in CR /\ new.hash = cr.hash /\ new.spec = crs[c].spec
    BY <1>1 DEF CR
  <1>3. crs' = [crs EXCEPT ![c] = new]
    BY DEF WriteStatus
  <1>4. PICK l \in SUBSET {"cache", "worker"} : live' = [live EXCEPT ![c] = l]
    BY DEF WriteStatus, ObjectTypes
  <1> HIDE DEF new
  <1> QED BY <1>2, <1>3, <1>4 DEF ObjectTypes

\* A user's change of an object.
LEMMA ChangeTypes ==
    ASSUME ObjectTypes, NEW c \in Clients, NEW cr \in CR, cr.spec \in SpecsOf[c],
           ChangeCR(c, cr), cache' = cache
    PROVE  ObjectTypes'
  BY DEF ObjectTypes, ChangeCR

\* The fault counter stays within its bound.
LEMMA FaultType ==
    ASSUME faults \in 0..MaxFaults, NEW kind, Fault(kind)
    PROVE  faults' \in 0..MaxFaults
  BY BoundsAssumption DEF Fault

\* The initial states are well typed.
LEMMA InitTypes == Init => TypeOK
  <1> SUFFICES ASSUME Init PROVE TypeOK
    OBVIOUS
  <1>1. PICK f : /\ \A c \in Clients : f[c] \in SpecsOf[c]
                 /\ crs = [c \in Clients |-> NewCR(f[c])]
    BY DEF Init
  <1>2. ObjectTypes
    BY <1>1, SpecsTyped, NewCRType DEF Init, ObjectTypes
  <1>3. WorkerTypes
    BY DEF Init, WorkerTypes, WorkerState, Idle, PCs, HoldsData, Applied, At
  <1>4. TargetTypes
    <2>1. \A m \in ConfigMaps :
             cmaps[m] \in [data: [Keys -> Data \cup {None}],
                           cached: [Keys -> Data \cup {None}], fresh: BOOLEAN]
      BY DEF Init
    <2>2. \A w \in Workloads :
             workloads[w] \in [hash: Data \cup {None}, cached: Data \cup {None}]
      BY DEF Init
    <2> QED BY <2>1, <2>2 DEF Init, TargetTypes
  <1> QED
    BY <1>2, <1>3, <1>4, BoundsAssumption DEF Init, TypeOK

\* A key taken from the queue.
LEMMA TakeTypes ==
    ASSUME TypeOK, NEW c \in Clients, Take(c)
    PROVE  TypeOK'
  <1>1. CASE Begin(c)
    <2>1. /\ cache[c] \in CR /\ cache[c].spec \in SpecsOf[c]
          /\ "fetch" \in PCs \ {"idle"} /\ "fetch" \notin HoldsData
      BY DEF TypeOK, ObjectTypes, PCs, HoldsData, Applied
    <2>2. WorkerTypes'
      BY <1>1, <2>1, GotoTypes, Zenon DEF Begin, TypeOK
    <2>3. ObjectTypes'
      BY <1>1 DEF Begin, TypeOK, ObjectTypes
    <2> QED BY <1>1, <2>2, <2>3 DEF Begin, Dequeue, TypeOK, TargetTypes
  <1>2. CASE DropDeleted(c)
    BY <1>2 DEF DropDeleted, Dequeue, TypeOK, TargetTypes, ObjectTypes,
                WorkerTypes, At
  <1>3. CASE AwaitToken(c)
    BY <1>3, FaultType DEF AwaitToken, Dequeue, TypeOK, TargetTypes, ObjectTypes,
                           WorkerTypes, At
  <1> QED BY <1>1, <1>2, <1>3 DEF Take

\* Queue and informers.
LEMMA DeliveryTypes ==
    ASSUME TypeOK,
           (\E c \in Clients : TimerFires(c)) \/ Informers
    PROVE  TypeOK'
  <1>1. CASE \E c \in Clients : TimerFires(c)
    BY <1>1 DEF TimerFires, TypeOK, TargetTypes, ObjectTypes, WorkerTypes, At
  <1>2. ASSUME NEW c \in Clients, SyncClient(c)
        PROVE  TypeOK'
    BY <1>2 DEF SyncClient, TypeOK, TargetTypes, ObjectTypes, WorkerTypes, At
  <1>3. ASSUME NEW m \in ConfigMaps, SyncConfigMap(m)
        PROVE  TypeOK'
    BY <1>3 DEF SyncConfigMap, TypeOK, TargetTypes, ObjectTypes, WorkerTypes, At
  <1>4. ASSUME NEW w \in Workloads, SyncWorkload(w)
        PROVE  TypeOK'
    BY <1>4 DEF SyncWorkload, TypeOK, TargetTypes, ObjectTypes, WorkerTypes, At
  <1> QED BY <1>1, <1>2, <1>3, <1>4 DEF Informers

\* A restart.
LEMMA RestartTypes == ASSUME TypeOK, Restart PROVE TypeOK'
  <1>1. ObjectTypes'
    BY DEF Restart, TypeOK, ObjectTypes
  <1>2. WorkerTypes'
    BY DEF Restart, WorkerTypes, WorkerState, Idle, PCs, HoldsData, Applied, At
  <1>3. TargetTypes'
    BY DEF Restart, TypeOK, TargetTypes
  <1> QED BY <1>1, <1>2, <1>3, FaultType DEF Restart, TypeOK

\* Users and Authentik.
LEMMA EnvironmentTypes == ASSUME TypeOK, Environment PROVE TypeOK'
  <1>1. ASSUME NEW s \in Slugs, RotateProvider(s)
        PROVE  TypeOK'
    <2>1. provider' \in [Slugs -> 0..MaxVersion] /\ faults' \in 0..MaxFaults
      BY <1>1, FaultType, BoundsAssumption DEF RotateProvider, Forward, Backward, TypeOK
    <2> QED BY <1>1, <2>1
            DEF RotateProvider, TypeOK, TargetTypes, ObjectTypes, WorkerTypes, At
  <1>2. ASSUME NEW c \in Clients, NEW s \in SpecsOf[c], EditSpec(c, s)
        PROVE  TypeOK'
    <2> DEFINE new == [crs[c] EXCEPT !.spec = s, !.gen = crs[c].gen + 1]
    <2>1. new \in CR /\ new.spec = s
      <3>1. crs[c] \in CR /\ s \in SpecRecord /\ crs[c].gen + 1 \in Nat
        BY SpecsTyped, Fields DEF TypeOK, ObjectTypes
      <3> QED BY <3>1 DEF CR
    <2>2. ChangeCR(c, new) /\ cache' = cache
      BY <1>2 DEF EditSpec
    <2> HIDE DEF new
    <2>3. ObjectTypes'
      BY <2>1, <2>2, ChangeTypes DEF TypeOK
    <2>4. faults' \in 0..MaxFaults
      BY <1>2, FaultType DEF EditSpec, Forward, Backward, TypeOK
    <2> QED BY <1>2, <2>3, <2>4 DEF EditSpec, TypeOK, TargetTypes, WorkerTypes, At
  <1>3. ASSUME NEW c \in Clients, DeleteClient(c)
        PROVE  TypeOK'
    <2> DEFINE new == [crs[c] EXCEPT !.exists = FALSE]
    <2>1. new \in CR /\ new.spec \in SpecsOf[c]
      BY DEF TypeOK, ObjectTypes, CR
    <2>2. ChangeCR(c, new) /\ cache' = cache
      BY <1>3 DEF DeleteClient
    <2> HIDE DEF new
    <2>3. ObjectTypes'
      BY <2>1, <2>2, ChangeTypes DEF TypeOK
    <2> QED BY <1>3, <2>3, FaultType
            DEF DeleteClient, TypeOK, TargetTypes, WorkerTypes, At
  <1>4. ASSUME NEW c \in Clients, NEW s \in SpecsOf[c], CreateClient(c, s)
        PROVE  TypeOK'
    <2>1. ObjectTypes'
      BY <1>4, SpecsTyped, NewCRType, ChangeTypes DEF CreateClient, TypeOK
    <2>2. faults' \in 0..MaxFaults
      BY <1>4, FaultType DEF CreateClient, Forward, Backward, TypeOK
    <2> QED BY <1>4, <2>1, <2>2 DEF CreateClient, TypeOK, TargetTypes, WorkerTypes, At
  <1>5. ASSUME NEW k \in Secrets, DeleteSecret(k)
        PROVE  TypeOK'
    BY <1>5, FaultType
       DEF DeleteSecret, TypeOK, TargetTypes, ObjectTypes, WorkerTypes, At
  <1> QED BY <1>1, <1>2, <1>3, <1>4, <1>5 DEF Environment

\* A running worker's copy, spec and data.
LEMMA RunningTypes ==
    ASSUME TypeOK, NEW c \in Clients, ~At(c, "idle")
    PROVE  /\ worker[c].cr \in CR
           /\ worker[c].cr.spec \in SpecsOf[c]
           /\ worker[c].cr.spec \in SpecRecord
           /\ worker[c].data \in Data \cup {None}
           /\ worker[c].pc \in HoldsData => worker[c].data \in Data
  BY SpecsTyped DEF TypeOK, WorkerTypes, WorkerState

\* The steps a successful apply or ConfigMap update leads to.
LEMMA NextSteps ==
    ASSUME NEW spec, NEW data
    PROVE  /\ AfterApply(spec, data)
                \in (HoldsData \cap PCs) \ {"idle", "cert", "built"}
           /\ AfterConfigMap(spec) \in (HoldsData \cap PCs) \ {"idle", "cert", "built"}
           /\ AfterApply(spec, data) = "configmap" => HasSource(spec, data)
           /\ AfterConfigMap(spec) # "configmap"
           /\ AfterApply(spec, data) = "rollout" => spec.workload # None
           /\ AfterConfigMap(spec) = "rollout" => spec.workload # None
  BY DEF AfterApply, AfterConfigMap, HoldsData, Applied, PCs

\* The calls that only move the worker: fetches, and the skip.
LEMMA FetchTypes ==
    ASSUME TypeOK, NEW c \in Clients,
           \/ FetchProvider(c) \/ FetchFails(c) \/ RefreshRequeue(c)
           \/ FetchCertificate(c) \/ CertificateFails(c) \/ SkipUnchanged(c)
    PROVE  TypeOK'
  <1>0. ~At(c, "idle")
    BY DEF FetchProvider, FetchFails, RefreshRequeue, FetchCertificate,
           CertificateFails, SkipUnchanged, At
  <1>1. WorkerTypes /\ delayed \subseteq Clients /\ faults \in 0..MaxFaults
    BY DEF TypeOK
  <1>2. ASSUME WorkerTypes', delayed' \subseteq Clients, faults' \in 0..MaxFaults,
               UNCHANGED <<outside, objects, targets>>
        PROVE  TypeOK'
    BY <1>2 DEF TypeOK, ObjectTypes, TargetTypes
  <1>3. "AuthentikProviderFound" \in ConditionTypes
    BY DEF ConditionTypes
  <1>4. CASE FetchProvider(c)
    <2>1. Build(worker[c].cr.spec) \in Data
      BY <1>0, RunningTypes, BuildType DEF TypeOK
    <2>2. WorkerTypes'
      BY <1>0, <1>1, <1>3, <1>4, <2>1, RunningTypes, SetConditionKeeps, GotoTypes
         DEF FetchProvider, PCs, HoldsData, Applied
    <2> QED BY <1>1, <1>2, <1>4, <2>2 DEF FetchProvider
  <1>5. CASE FetchFails(c)
    <2>1. WorkerTypes'
      BY <1>0, <1>1, <1>3, <1>5, RunningTypes, SetConditionKeeps, GotoTypes
         DEF FetchFails, PCs, HoldsData, Applied
    <2> QED BY <1>1, <1>2, <1>5, <2>1, FaultType DEF FetchFails
  <1>6. CASE RefreshRequeue(c)
    BY <1>1, <1>2, <1>6, FinishTypes, FaultType DEF RefreshRequeue
  <1>7. CASE FetchCertificate(c)
    <2>1. worker[c].data \in Data
      BY <1>0, <1>7, RunningTypes DEF FetchCertificate, At, HoldsData, Applied
    <2>2. [worker[c].data EXCEPT !.cert = TRUE] \in Data
      BY <2>1 DEF Data
    <2>3. WorkerTypes'
      BY <1>0, <1>1, <1>7, <2>2, RunningTypes, GotoTypes
         DEF FetchCertificate, PCs
    <2> QED BY <1>1, <1>2, <1>7, <2>3 DEF FetchCertificate
  <1>8. CASE CertificateFails(c)
    <2>1. worker[c].data \in Data
      BY <1>0, <1>8, RunningTypes DEF CertificateFails, At, HoldsData, Applied
    <2>2. WorkerTypes'
      BY <1>0, <1>1, <1>8, <2>1, RunningTypes, GotoTypes
         DEF CertificateFails, PCs
    <2> QED BY <1>1, <1>2, <1>8, <2>2, FaultType DEF CertificateFails
  <1>9. CASE SkipUnchanged(c)
    BY <1>1, <1>2, <1>9, FinishTypes DEF SkipUnchanged
  <1> QED BY <1>4, <1>5, <1>6, <1>7, <1>8, <1>9

\* The calls that write the Secret.
LEMMA ApplyTypes ==
    ASSUME TypeOK, NEW c \in Clients, ApplySecret(c) \/ ApplyFails(c)
    PROVE  TypeOK'
  <1>1. ~At(c, "idle") /\ worker[c].pc \in HoldsData
    BY DEF ApplySecret, ApplyFails, At, HoldsData, Applied
  <1>2. worker[c].data \in Data /\ worker[c].cr.spec.target \in Secrets
    BY <1>1, RunningTypes DEF SpecRecord
  <1>3. ASSUME WriteSecret(c) \/ UNCHANGED secrets, UNCHANGED <<cmaps, workloads>>
        PROVE  TargetTypes'
    BY <1>2, <1>3 DEF WriteSecret, TypeOK, TargetTypes
  <1>4. "SecretSynced" \in ConditionTypes
    BY DEF ConditionTypes
  <1>5. CASE ApplySecret(c)
    <2>1. WorkerTypes'
      BY <1>1, <1>2, <1>5, RunningTypes, NextSteps, GotoTypes
         DEF ApplySecret, TypeOK
    <2> QED BY <1>3, <1>5, <2>1 DEF ApplySecret, TypeOK, ObjectTypes
  <1>6. CASE ApplyFails(c)
    <2>1. WorkerTypes'
      BY <1>1, <1>2, <1>4, <1>6, RunningTypes, SetConditionKeeps, GotoTypes
         DEF ApplyFails, AfterApplyError, TypeOK, PCs, HoldsData, Applied
    <2> QED BY <1>3, <1>6, <2>1, FaultType DEF ApplyFails, TypeOK, ObjectTypes
  <1> QED BY <1>5, <1>6

\* The calls that write the ConfigMap.
LEMMA ConfigMapTypes ==
    ASSUME TypeOK, NEW c \in Clients,
           PatchConfigMap(c) \/ ConfigMapConflict(c) \/ ConfigMapFails(c)
    PROVE  TypeOK'
  <1>1. ~At(c, "idle") /\ worker[c].pc \in HoldsData
    BY DEF PatchConfigMap, ConfigMapConflict, ConfigMapFails, At, HoldsData, Applied
  <1>2. /\ worker[c].data \in Data
        /\ worker[c].cr.spec.cmap \in ConfigMaps
        /\ worker[c].cr.spec.key \in Keys
    BY <1>1, RunningTypes
       DEF PatchConfigMap, ConfigMapConflict, ConfigMapFails, TypeOK, WorkerTypes,
           HasSource, SpecRecord
  <1>3. ASSUME WriteConfigMap(c) \/ UNCHANGED cmaps, UNCHANGED <<secrets, workloads>>
        PROVE  TargetTypes'
    <2> DEFINE m == worker[c].cr.spec.cmap
               new == [cmaps[m].cached EXCEPT ![worker[c].cr.spec.key] =
                         worker[c].data]
               f == cmaps[m].fresh /\ new = cmaps[m].data
    <2>1. new \in [Keys -> Data \cup {None}]
      BY <1>2 DEF TypeOK, TargetTypes
    <2>2. CASE WriteConfigMap(c)
      <3>1. cmaps' = [cmaps EXCEPT ![m].data = new, ![m].fresh = f]
        BY <2>2 DEF WriteConfigMap
      <3>2. f \in BOOLEAN
        BY DEF TypeOK, TargetTypes
      <3> HIDE DEF new, f
      <3> QED BY <1>2, <1>3, <2>1, <3>1, <3>2 DEF TypeOK, TargetTypes
    <2> QED BY <1>3, <2>2 DEF TypeOK, TargetTypes
  <1>4. ASSUME NEW status \in {"True", "False"}, ConfigMapDone(c, status)
        PROVE  WorkerTypes'
    <2>1. "ConfigMapSynced" \in ConditionTypes
      BY DEF ConditionTypes
    <2> DEFINE pc == AfterConfigMap(worker[c].cr.spec)
               cr == SetCondition(worker[c].cr, "ConfigMapSynced", status)
    <2>2. /\ pc \in (HoldsData \cap PCs) \ {"idle"}
          /\ pc # "configmap"
          /\ pc = "rollout" => worker[c].cr.spec.workload # None
      BY NextSteps
    <2>3. cr \in CR /\ cr.spec = worker[c].cr.spec
      BY <1>1, <2>1, RunningTypes, SetConditionKeeps
    <2>4. Goto(c, pc, cr, worker[c].data)
      BY <1>4 DEF ConfigMapDone
    <2> HIDE DEF pc, cr
    <2> QED BY <1>1, <1>2, <2>2, <2>3, <2>4, RunningTypes, GotoTypes DEF TypeOK
  <1>5. WorkerTypes'
    BY <1>4 DEF PatchConfigMap, ConfigMapConflict, ConfigMapFails
  <1>6. TargetTypes'
    BY <1>3 DEF PatchConfigMap, ConfigMapConflict, ConfigMapFails
  <1>7. faults' \in 0..MaxFaults
    BY FaultType DEF PatchConfigMap, ConfigMapConflict, ConfigMapFails, TypeOK
  <1> QED BY <1>5, <1>6, <1>7 DEF PatchConfigMap, ConfigMapConflict, ConfigMapFails,
                                  TypeOK, ObjectTypes

\* The calls that write the annotation.
LEMMA RolloutTypes ==
    ASSUME TypeOK, NEW c \in Clients, TriggerRollout(c) \/ RolloutFails(c)
    PROVE  TypeOK'
  <1>1. ~At(c, "idle") /\ worker[c].pc \in HoldsData
    BY DEF TriggerRollout, RolloutFails, At, HoldsData, Applied
  <1>2. worker[c].data \in Data /\ worker[c].cr.spec.workload \in Workloads
    BY <1>1, RunningTypes DEF TriggerRollout, RolloutFails, TypeOK, WorkerTypes,
                              SpecRecord
  <1>3. TargetTypes'
    BY <1>2 DEF TriggerRollout, RolloutFails, WriteAnnotation, TypeOK, TargetTypes
  <1>4. WorkerTypes'
    <2>1. /\ "RolloutTriggered" \in ConditionTypes
          /\ "record" \in PCs \ {"idle"}
      BY DEF ConditionTypes, PCs
    <2> QED BY <1>1, <1>2, <2>1, RunningTypes, SetConditionKeeps, GotoTypes
            DEF TriggerRollout, RolloutFails, RolloutDone, TypeOK
  <1> QED BY <1>3, <1>4, FaultType DEF TriggerRollout, RolloutFails, TypeOK,
                                       ObjectTypes

\* The status updates.
LEMMA StatusTypes ==
    ASSUME TypeOK, NEW c \in Clients,
           \/ RecordStatus(c) \/ RecordConflict(c) \/ RecordFails(c)
           \/ ReportFailure(c)
    PROVE  TypeOK'
  <1>1. ~At(c, "idle") /\ (At(c, "record") => worker[c].data \in Data)
    BY RunningTypes DEF RecordStatus, RecordConflict, RecordFails, ReportFailure,
                        At, HoldsData, Applied, TypeOK, WorkerTypes
  <1>2. /\ At(c, "record") => Recorded(worker[c]) \in CR
        /\ Reported(worker[c]) \in CR
    BY <1>1, RunningTypes, RecordedKeeps DEF Reported
  <1>3. ObjectTypes'
    <2>1. CASE UNCHANGED objects /\ cache' = cache
      BY <2>1 DEF TypeOK, ObjectTypes
    <2>2. CASE RecordStatus(c) \/ RecordFails(c)
      BY <1>2, <2>1, <2>2, WriteStatusTypes DEF RecordStatus, RecordFails, TypeOK
    <2>3. CASE ReportFailure(c)
      BY <1>2, <2>1, <2>3, WriteStatusTypes DEF ReportFailure, TypeOK
    <2> QED BY <2>1, <2>2, <2>3 DEF RecordConflict
  <1>4. WorkerTypes' /\ delayed' \subseteq Clients
    BY FinishTypes DEF RecordStatus, RecordConflict, RecordFails, ReportFailure,
                       TypeOK
  <1> QED BY <1>3, <1>4, FaultType DEF RecordStatus, RecordConflict, RecordFails,
                                       ReportFailure, TypeOK, TargetTypes

\* Every step preserves the types.
LEMMA StepTypes == TypeOK /\ [Next]_vars => TypeOK'
  <1> SUFFICES ASSUME TypeOK, [Next]_vars PROVE TypeOK'
    OBVIOUS
  <1>1. ASSUME NEW c \in Clients, Step(c) PROVE TypeOK'
    BY <1>1, FetchTypes, ApplyTypes, ConfigMapTypes, RolloutTypes, StatusTypes
       DEF Step
  <1>2. CASE UNCHANGED vars
    BY <1>2 DEF vars, TypeOK, ObjectTypes, WorkerTypes, TargetTypes, At
  <1> QED BY <1>1, <1>2, TakeTypes, DeliveryTypes, RestartTypes, EnvironmentTypes
          DEF Next

\* The controller's state is always well typed, for any constants: a running
\* worker has a copy of its object, data only after Authentik answered, and is
\* at the ConfigMap or rollout call only if its copy's spec asks for it.
THEOREM TypeCorrect == Spec => []TypeOK
  BY InitTypes, StepTypes, PTL DEF Spec
=============================================================================
