------------------------------ MODULE SyncProofs ------------------------------
(***************************************************************************)
(* Reconciler implements SecretSync: every step, read through the mapping  *)
(* of ReconcilerSync, is a step of SecretSync or changes nothing there.    *)
(* For any number of clients and workers and any faults, if every client   *)
(* has its own Secret and specs and providers only move forward.           *)
(***************************************************************************)
EXTENDS ReconcilerSync, OrderProofs, CopyProofs

USE DEF outside, objects, targets, queue

-----------------------------------------------------------------------------
(* The mapping *)

\* A client's specs all name one Secret.
LEMMA OneTarget ==
    ASSUME ExclusiveTargets, NEW c \in Clients,
           NEW s \in SpecsOf[c], NEW t \in SpecsOf[c]
    PROVE  s.target = t.target
  BY DEF ExclusiveTargets

\* What a spec asks for is well formed.
LEMMA DesiredType ==
    ASSUME NEW spec \in SpecRecord, provider \in [Slugs -> 0..MaxVersion]
    PROVE  /\ Desired(spec) \in Data
           /\ Desired(spec).shape = spec.shape
           /\ Desired(spec).version = provider[spec.slug]
  <1> DEFINE built  == Build(spec)
             signed == provider[spec.slug] \in Signed
  <1>1. /\ built \in Data /\ built.shape = spec.shape
        /\ built.version = provider[spec.slug]
    BY BuildType
  <1>2. signed \in BOOLEAN
    OBVIOUS
  <1>3. Desired(spec) = [built EXCEPT !.cert = signed]
    BY DEF Desired
  <1> HIDE DEF built, signed
  <1> QED BY <1>1, <1>2, <1>3 DEF Data

\* What the objects ask for is well formed ...
WantedIsData ==
    \A c \in Clients : /\ Wanted[c] \in Data
                       /\ Wanted[c].shape = crs[c].spec.shape
                       /\ Wanted[c].version = provider[crs[c].spec.slug]

LEMMA WantedType == TypeOK => WantedIsData
  <1> SUFFICES ASSUME TypeOK, NEW c \in Clients
               PROVE  /\ Wanted[c] \in Data
                      /\ Wanted[c].shape = crs[c].spec.shape
                      /\ Wanted[c].version = provider[crs[c].spec.slug]
    BY DEF WantedIsData
  <1>1. crs[c].spec \in SpecRecord /\ provider \in [Slugs -> 0..MaxVersion]
    BY NumbersType, SpecsTyped DEF TypeOK
  <1>2. Wanted[c] = Desired(crs[c].spec)
    BY DEF Wanted
  <1> QED BY <1>1, <1>2, DesiredType

\* ... before a step and after it.
LEMMA WantedTypeNext == TypeOK' => WantedIsData'
  BY WantedType, PTL

\* A later state of spec and provider asks for nothing older.
LEMMA DesiredForward ==
    ASSUME TypeOK, NEW c \in Clients, NEW s \in SpecsOf[c], NEW t \in SpecsOf[c],
           NEW d \in Data, d.shape = s.shape, d.version <= provider[s.slug],
           s.shape <= t.shape
    PROVE  Precedes(d, Desired(t))
  <1>1. /\ s \in SpecRecord /\ t \in SpecRecord
        /\ provider \in [Slugs -> 0..MaxVersion]
    BY SpecsTyped DEF TypeOK
  <1>2. Desired(t).shape = t.shape /\ Desired(t).version = provider[t.slug]
    BY <1>1, DesiredType
  <1>3. s.shape = t.shape => s.slug = t.slug
    BY ShapeAssumption
  <1> QED BY <1>1, <1>2, <1>3 DEF Precedes, SpecRecord, Data

\* Nothing that the mapping reads changes.
LEMMA Stutter ==
    ASSUME TypeOK, UNCHANGED <<secrets, provider>>,
           \A c \in Clients : /\ crs'[c].exists = crs[c].exists
                              /\ crs'[c].spec = crs[c].spec
                              /\ crs'[c].hash = crs[c].hash
    PROVE  UNCHANGED Sync!vars
  BY DEF Sync!vars, Existing, Wanted, Hashes, Held, Desired, Build, HeldBy

-----------------------------------------------------------------------------
(* The steps that SecretSync sees *)

\* The initial states are initial states of SecretSync.
LEMMA InitMaps == ASSUME Init PROVE Sync!Init
  <1>1. PICK f : /\ \A c \in Clients : f[c] \in SpecsOf[c]
                 /\ crs = [c \in Clients |-> NewCR(f[c])]
    BY DEF Init
  <1>2. ASSUME NEW c \in Clients
        PROVE  /\ crs[c].exists = TRUE /\ crs[c].hash = None
               /\ Desired(crs[c].spec) \in Data
               /\ HeldBy(crs[c].spec) = None
    <2>1. TypeOK
      BY InitTypes
    <2>2. crs[c].spec \in SpecsOf[c] /\ crs[c].spec \in SpecRecord
      BY <2>1, NumbersType, SpecsTyped
    <2>3. HeldBy(crs[c].spec) = None
      BY <2>1, <2>2, HeldType DEF Init, HeldBy
    <2>4. crs[c] = NewCR(f[c])
      BY <1>1
    <2> QED BY <2>1, <2>2, <2>3, <2>4, DesiredType DEF NewCR, TypeOK
  <1> QED BY <1>2 DEF Sync!Init, Existing, Wanted, Hashes, Held

\* An apply, whether its answer arrives or not, is a write: newer than what the
\* Secret held, and not newer than what spec and provider ask for by now.
LEMMA ApplyMaps ==
    ASSUME InOrder, ExclusiveTargets, NEW c \in Clients, At(c, "built"),
           WriteSecret(c), UNCHANGED <<crs, provider>>
    PROVE  Sync!Write(c)
  <1> DEFINE spec == worker[c].cr.spec
             data == worker[c].data
             new  == [owner |-> c, data |-> data]
  <1>1. /\ ~At(c, "idle") /\ worker[c].pc \in HoldsData /\ TypeOK
        /\ spec \in SpecsOf[c] /\ data \in Data /\ crs[c].spec \in SpecsOf[c]
    BY RunningTypes, NumbersType DEF At, HoldsData, InOrder
  <1>2. new # None /\ new.data = data
    BY <1>1, NoneAssumption
  <1> HIDE DEF new
  <1>3. \A d \in Clients : HeldBy(crs[d].spec)' =
           IF d = c THEN new ELSE HeldBy(crs[d].spec)
    <2>1. \A d \in Clients : crs[d].spec \in SpecsOf[d] /\ crs'[d] = crs[d]
      BY <1>1, NumbersType
    <2> QED BY <1>1, <2>1, WriteSecretHeld DEF HeldBy, new
  <1>4. Held' = [Held EXCEPT ![c] = data]
    BY <1>2, <1>3 DEF Held
  <1>5. Held'[c] = data
    BY <1>4 DEF Held
  <1>6. Held[c] # None => Precedes(Held[c], data)
    <2>1. HeldBy(crs[c].spec) = HeldBy(spec)
      BY <1>1, OneTarget DEF HeldBy
    <2>2. HeldBy(spec) # None => Precedes(HeldBy(spec).data, data)
      BY <1>1 DEF InOrder, Chain, DataInOrder
    <2> QED BY <2>1, <2>2 DEF Held
  <1>7. Precedes(data, Wanted[c])
    <2>1. /\ data.shape = spec.shape /\ data.version <= provider[spec.slug]
          /\ spec.shape <= cache[c].spec.shape
          /\ cache[c].spec.shape <= crs[c].spec.shape
      BY <1>1 DEF InOrder, Chain, DataInOrder, CopiesInOrder
    <2>2. spec.shape <= crs[c].spec.shape
      BY <1>1, <2>1, NumbersType
    <2>3. Wanted[c] = Desired(crs[c].spec)
      BY DEF Wanted
    <2> QED BY <1>1, <2>1, <2>2, <2>3, DesiredForward
  <1>8. UNCHANGED <<Existing, Wanted, Hashes>>
    BY DEF Existing, Wanted, Hashes, Desired, Build
  <1> QED BY <1>1, <1>4, <1>5, <1>6, <1>7, <1>8 DEF Sync!Write

\* A status update at the end of a reconciliation reports what the Secret holds.
LEMMA RecordMaps ==
    ASSUME InOrder, CopiesCurrent, ExclusiveTargets, NEW c \in Clients,
           At(c, "record"), MayUpdate(c), UNCHANGED <<secrets, provider>>,
           WriteStatus(c, Recorded(worker[c]), TRUE)
    PROVE  Sync!Report(c)
  <1>1. /\ ~At(c, "idle") /\ worker[c].pc \in Applied /\ TypeOK
        /\ worker[c].cr \in CR /\ worker[c].data \in Data
        /\ worker[c].cr.spec \in SpecsOf[c] /\ crs[c].spec \in SpecsOf[c]
    BY RunningTypes, NumbersType DEF At, Applied, HoldsData, InOrder
  <1>2. /\ \A d \in Clients \ {c} : crs'[d] = crs[d]
        /\ crs'[c].exists = crs[c].exists /\ crs'[c].spec = crs[c].spec
        /\ crs'[c].hash = worker[c].data
    <2>1. Recorded(worker[c]) \in CR /\ Recorded(worker[c]).hash = worker[c].data
      BY <1>1, RecordedKeeps
    <2>2. ObjectTypes
      BY <1>1 DEF TypeOK
    <2> QED BY <2>1, <2>2, WriteStatusWrites
  <1>3. crs[c].exists
    BY <1>1 DEF CopiesCurrent, CopyOf, MayUpdate
  <1>4. Held[c] = worker[c].data /\ Held[c] # None
    <2>1. HeldBy(crs[c].spec) = HeldBy(worker[c].cr.spec)
      BY <1>1, OneTarget DEF HeldBy
    <2>2. HeldBy(worker[c].cr.spec) = [owner |-> c, data |-> worker[c].data]
      BY <1>1 DEF InOrder, Chain, DataApplied
    <2>3. HeldBy(worker[c].cr.spec) # None
      BY <1>1, <2>2, NoneAssumption
    <2>4. worker[c].data # None
      BY <1>1, NoneAssumption
    <2> QED BY <2>1, <2>2, <2>3, <2>4 DEF Held
  <1>5. UNCHANGED <<Existing, Wanted, Held>>
    BY <1>2 DEF Existing, Wanted, Held, Desired, Build, HeldBy
  <1>6. Hashes' = [Hashes EXCEPT ![c] = Held[c]]
    BY <1>2, <1>4 DEF Hashes
  <1>7. Existing[c]
    BY <1>3 DEF Existing
  <1> QED BY <1>4, <1>5, <1>6, <1>7 DEF Sync!Report

\* Users and Authentik move the world.
LEMMA WorldMaps ==
    ASSUME TypeOK, TypeOK', ExclusiveTargets, UNCHANGED secrets,
           \A s \in Slugs : provider[s] <= provider'[s],
           \A c \in Clients :
              /\ crs[c].spec.shape <= crs'[c].spec.shape
              /\ crs'[c].hash = IF ~crs[c].exists /\ crs'[c].exists
                                THEN None ELSE crs[c].hash
    PROVE  Sync!World
  <1>1. ASSUME NEW c \in Clients
        PROVE  /\ crs[c].spec \in SpecsOf[c] /\ crs[c].spec \in SpecRecord
               /\ crs'[c].spec \in SpecsOf[c] /\ crs'[c].spec \in SpecRecord
               /\ crs'[c].exists \in BOOLEAN
    BY SpecsTyped, Fields DEF TypeOK, ObjectTypes
  <1>2. ASSUME NEW c \in Clients
        PROVE  /\ Wanted[c] \in Data /\ Wanted'[c] \in Data
               /\ Precedes(Wanted[c], Wanted'[c])
    <2> DEFINE s == crs[c].spec
               t == crs'[c].spec
    <2>1. /\ Wanted[c] \in Data /\ Wanted[c].shape = s.shape
          /\ Wanted[c].version = provider[s.slug]
      BY WantedType DEF WantedIsData
    <2>2. /\ Wanted'[c] \in Data /\ Wanted'[c].shape = t.shape
          /\ Wanted'[c].version = provider'[t.slug]
      BY WantedTypeNext DEF WantedIsData
    <2>3. s.shape = t.shape => s.slug = t.slug
      BY <1>1, ShapeAssumption
    <2>4. /\ s.slug \in Slugs /\ s.shape \in Nat /\ t.shape \in Nat
          /\ s.shape <= t.shape
      BY <1>1 DEF SpecRecord
    <2> HIDE DEF s, t
    <2> QED BY <2>1, <2>2, <2>3, <2>4 DEF Precedes
  <1>3. Held' = Held
    <2>1. \A c \in Clients : crs'[c].spec.target = crs[c].spec.target
      BY <1>1, OneTarget
    <2> QED BY <2>1 DEF Held, HeldBy
  <1>4. Existing' \in [Clients -> BOOLEAN]
    BY <1>1 DEF Existing
  <1>5. Wanted' \in [Clients -> Data]
    BY <1>2 DEF Wanted
  <1>6. Hashes' = [c \in Clients |-> IF ~Existing[c] /\ Existing'[c]
                                     THEN None ELSE Hashes[c]]
    BY DEF Hashes, Existing
  <1> QED BY <1>2, <1>3, <1>4, <1>5, <1>6 DEF Sync!World

-----------------------------------------------------------------------------
(* Step by step *)

\* A call of a worker: the apply is a write, the final status update a report,
\* and no other call shows.
LEMMA StepMaps ==
    ASSUME InOrder, CopiesCurrent, ExclusiveTargets, NEW c \in Clients, Step(c)
    PROVE  [Sync!Next]_(Sync!vars)
  <1> USE DEF Sync!Next
  <1>1. TypeOK
    BY DEF InOrder
  <1>2. CASE ApplySecret(c) \/ ApplyFails(c)
    <2>1. CASE At(c, "built") /\ WriteSecret(c) /\ UNCHANGED <<crs, provider>>
      BY <2>1, ApplyMaps
    <2>2. CASE UNCHANGED <<crs, provider, secrets>>
      BY <1>1, <2>2, Stutter
    <2> QED BY <1>2, <2>1, <2>2 DEF ApplySecret, ApplyFails
  <1>3. CASE RecordStatus(c) \/ RecordConflict(c) \/ RecordFails(c)
                             \/ ReportFailure(c)
    <2>1. CASE UNCHANGED objects
      BY <1>1, <1>3, <2>1, StatusWrites, Stutter
    <2>2. CASE /\ At(c, "record") /\ MayUpdate(c)
               /\ WriteStatus(c, Recorded(worker[c]), TRUE)
      BY <1>1, <1>3, <2>2, StatusWrites, RecordMaps
    <2>3. CASE /\ At(c, "report") /\ MayUpdate(c)
               /\ WriteStatus(c, worker[c].cr, FALSE)
      <3>1. /\ ~At(c, "idle") /\ worker[c].cr \in CR /\ ObjectTypes
            /\ UNCHANGED <<secrets, provider>>
        BY <1>1, <1>3, StatusWrites DEF TypeOK
      <3>2. worker[c].cr.hash = crs[c].hash
        BY <2>3, <3>1 DEF CopiesCurrent, CopyOf, MayUpdate
      <3>3. /\ \A d \in Clients \ {c} : crs'[d] = crs[d]
            /\ crs'[c].exists = crs[c].exists /\ crs'[c].spec = crs[c].spec
            /\ crs'[c].hash = crs[c].hash
        BY <2>3, <3>1, <3>2, WriteStatusWrites
      <3> QED BY <1>1, <3>1, <3>3, Stutter
    <2> QED BY <1>1, <1>3, <2>1, <2>2, <2>3, StatusWrites
  <1>4. CASE \/ FetchProvider(c) \/ FetchFails(c) \/ RefreshRequeue(c)
             \/ FetchCertificate(c) \/ CertificateFails(c) \/ SkipUnchanged(c)
             \/ PatchConfigMap(c) \/ ConfigMapConflict(c) \/ ConfigMapFails(c)
             \/ TriggerRollout(c) \/ RolloutFails(c)
    <2>1. UNCHANGED <<crs, provider, secrets>>
      BY <1>4 DEF FetchProvider, FetchFails, RefreshRequeue, FetchCertificate,
                  CertificateFails, SkipUnchanged, PatchConfigMap,
                  ConfigMapConflict, ConfigMapFails, TriggerRollout, RolloutFails
    <2> QED BY <1>1, <2>1, Stutter
  <1> QED BY <1>2, <1>3, <1>4 DEF Step

\* Edits, deletions, creations and rotations.
LEMMA EnvironmentMaps ==
    ASSUME InOrder, TypeOK', ExclusiveTargets, ForwardOnly, Environment
    PROVE  Sync!World
  <1>1. TypeOK /\ "revert" \notin Env /\ "secretDeleted" \notin Env
    BY DEF InOrder, ForwardOnly
  <1>2. ASSUME NEW s \in Slugs, RotateProvider(s)
        PROVE  Sync!World
    <2>1. \A t \in Slugs : provider[t] \in Nat /\ provider[t] <= provider'[t]
      BY <1>1, <1>2, BoundsAssumption DEF RotateProvider, Forward, Backward, Fault, TypeOK
    <2>2. UNCHANGED <<crs, secrets>>
      BY <1>2 DEF RotateProvider
    <2>3. \A c \in Clients : crs[c].spec.shape <= crs'[c].spec.shape
      BY <1>1, <2>2, NumbersType
    <2> QED BY <1>1, <2>1, <2>2, <2>3, WorldMaps
  <1>3. ASSUME NEW c \in Clients, NEW cr \in CR, ChangeCR(c, cr),
               UNCHANGED <<secrets, provider>>,
               crs[c].spec.shape <= cr.spec.shape,
               cr.hash = IF ~crs[c].exists /\ cr.exists THEN None ELSE crs[c].hash
        PROVE  Sync!World
    <2>1. /\ crs'[c] = cr
          /\ \A d \in Clients \ {c} : crs'[d] = crs[d]
      BY <1>1, <1>3 DEF ChangeCR, TypeOK, ObjectTypes
    <2>2. \A d \in Clients : crs[d].spec.shape <= crs'[d].spec.shape
      BY <1>1, <1>3, <2>1, NumbersType
    <2>3. \A d \in Clients :
             crs'[d].hash = IF ~crs[d].exists /\ crs'[d].exists
                            THEN None ELSE crs[d].hash
      BY <1>3, <2>1
    <2>4. \A s \in Slugs : provider[s] \in Nat /\ provider[s] <= provider'[s]
      BY <1>1, <1>3, BoundsAssumption DEF TypeOK
    <2> QED BY <1>1, <1>3, <2>2, <2>3, <2>4, WorldMaps
  <1>4. ASSUME NEW c \in Clients, NEW s \in SpecsOf[c], EditSpec(c, s)
        PROVE  Sync!World
    <2> DEFINE new == [crs[c] EXCEPT !.spec = s, !.gen = crs[c].gen + 1]
    <2>1. /\ new \in CR /\ new.spec = s /\ new.hash = crs[c].hash
          /\ new.exists = crs[c].exists
      <3>1. crs[c] \in CR /\ s \in SpecRecord /\ crs[c].gen + 1 \in Nat
        BY <1>1, SpecsTyped, Fields DEF TypeOK, ObjectTypes
      <3> QED BY <3>1 DEF CR
    <2>2. ChangeCR(c, new) /\ UNCHANGED <<secrets, provider>>
      BY <1>4 DEF EditSpec
    <2>3. crs[c].spec.shape <= s.shape
      BY <1>1, <1>4 DEF EditSpec, Forward, Backward, Fault
    <2> HIDE DEF new
    <2> QED BY <1>3, <2>1, <2>2, <2>3
  <1>5. ASSUME NEW c \in Clients, DeleteClient(c)
        PROVE  Sync!World
    <2> DEFINE new == [crs[c] EXCEPT !.exists = FALSE]
    <2>1. /\ new \in CR /\ new.spec = crs[c].spec /\ new.hash = crs[c].hash
          /\ new.exists = FALSE
      <3>1. crs[c] \in CR
        BY <1>1 DEF TypeOK, ObjectTypes
      <3> QED BY <3>1 DEF CR
    <2>2. ChangeCR(c, new) /\ UNCHANGED <<secrets, provider>>
      BY <1>5 DEF DeleteClient
    <2>3. crs[c].spec.shape <= crs[c].spec.shape
      BY <1>1, NumbersType
    <2> HIDE DEF new
    <2> QED BY <1>3, <2>1, <2>2, <2>3
  <1>6. ASSUME NEW c \in Clients, NEW s \in SpecsOf[c], CreateClient(c, s)
        PROVE  Sync!World
    <2>1. /\ NewCR(s) \in CR /\ NewCR(s).spec = s /\ NewCR(s).hash = None
      BY SpecsTyped, NewCRType
    <2>2. NewCR(s).exists /\ ~crs[c].exists
      BY <1>6 DEF NewCR, CreateClient
    <2>3. ChangeCR(c, NewCR(s)) /\ UNCHANGED <<secrets, provider>>
      BY <1>6 DEF CreateClient
    <2>4. crs[c].spec.shape <= s.shape
      BY <1>1, <1>6 DEF CreateClient, Forward, Backward, Fault
    <2> QED BY <1>3, <2>1, <2>2, <2>3, <2>4
  <1>7. ASSUME NEW k \in Secrets, DeleteSecret(k) PROVE FALSE
    BY <1>1, <1>7 DEF DeleteSecret, Fault
  <1> QED BY <1>2, <1>4, <1>5, <1>6, <1>7 DEF Environment

\* Every step of the controller maps to a step of SecretSync or to none.
LEMMA NextMaps ==
    ASSUME InOrder, CopiesCurrent, ExclusiveTargets, ForwardOnly, [Next]_vars
    PROVE  [Sync!Next]_(Sync!vars)
  <1>1. TypeOK /\ TypeOK'
    BY StepTypes DEF InOrder
  <1>2. CASE Environment
    BY <1>1, <1>2, EnvironmentMaps DEF Sync!Next
  <1>3. CASE \/ \E c \in Clients : Take(c) \/ TimerFires(c)
             \/ Informers \/ Restart \/ UNCHANGED vars
    <2>1. UNCHANGED <<crs, provider, secrets>>
      BY <1>3 DEF Take, Begin, DropDeleted, AwaitToken, TimerFires, Informers,
                  SyncClient, SyncConfigMap, SyncWorkload, Restart, Dequeue, vars
    <2> QED BY <1>1, <2>1, Stutter
  <1> QED BY <1>2, <1>3, StepMaps DEF Next

\* Whatever is stale, lost, repeated or cut short, Secret and status change only
\* as SecretSync allows: forward, to data that was asked for, and reported only
\* once it is there.
THEOREM ReconcilerImplementsSecretSync ==
    ASSUME ExclusiveTargets, ForwardOnly
    PROVE  Spec => Implements
  <1>1. Init => Sync!Init
    BY InitMaps
  <1>2. InOrder /\ CopiesCurrent /\ [Next]_vars => [Sync!Next]_(Sync!vars)
    BY NextMaps
  <1> QED
    BY <1>1, <1>2, AlwaysInOrder, CopiesAreCurrent, PTL
       DEF Spec, Implements, Sync!Spec
=============================================================================
