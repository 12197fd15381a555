----------------------------- MODULE OrderProofs -----------------------------
(***************************************************************************)
(* While data only moves forward, the chain                                *)
(*   recorded hash -> Secret -> data under way -> copies of the spec,      *)
(*   provider                                                              *)
(* stays in order: the status never runs ahead of the Secret and the       *)
(* Secret never goes back.  For any number of clients and workers, if      *)
(* every client has its own Secret.  (Where data returns, the chain breaks *)
(* at its first link: ReconcilerProps!EventuallyUpdated.)                  *)
(***************************************************************************)
EXTENDS ReconcilerProofs

USE DEF outside, objects, targets, queue

-----------------------------------------------------------------------------
(* The order on data *)

\* "Not newer than" is reflexive ...
LEMMA PrecedesReflexive == ASSUME NEW d \in Data PROVE Precedes(d, d)
  BY DEF Precedes, Data

\* ... and transitive.
LEMMA PrecedesTransitive ==
    ASSUME NEW d \in Data, NEW e \in Data, NEW f \in Data,
           Precedes(d, e), Precedes(e, f)
    PROVE  Precedes(d, f)
  BY DEF Precedes, Data

\* Complete data is determined by its shape and version.
LEMMA PrecedesAntisymmetric ==
    ASSUME NEW d \in Data, NEW e \in Data, Precedes(d, e), Precedes(e, d),
           Complete(d), Complete(e)
    PROVE  d = e
  <1>1. d.shape = e.shape /\ d.version = e.version
    BY DEF Precedes, Data
  <1>2. d.cert = e.cert
    BY <1>1 DEF Complete
  <1> QED BY <1>1, <1>2 DEF Data

-----------------------------------------------------------------------------
(* Types used below *)

\* What a client's Secret holds.
LEMMA HeldType ==
    ASSUME TypeOK, NEW c \in Clients, NEW s \in SpecsOf[c]
    PROVE  /\ s.target \in Secrets
           /\ HeldBy(s) # None => HeldBy(s).data \in Data
  BY SpecsTyped DEF TypeOK, TargetTypes, HeldBy, SpecRecord

\* The numbers compared along the chain.
LEMMA NumbersType ==
    ASSUME TypeOK, NEW c \in Clients
    PROVE  /\ crs[c].spec \in SpecsOf[c] /\ crs[c].spec.shape \in Nat
           /\ cache[c].spec \in SpecsOf[c] /\ cache[c].spec.shape \in Nat
           /\ \A s \in SpecsOf[c] : /\ s.shape \in Nat /\ s.slug \in Slugs
                                    /\ provider[s.slug] \in Nat
  BY SpecsTyped, BoundsAssumption DEF TypeOK, ObjectTypes, SpecRecord

-----------------------------------------------------------------------------
(* The chain, action by action *)

\* At the start nothing is recorded, written or under way.
LEMMA InitChain == Init => Chain
  <1> SUFFICES ASSUME Init PROVE Chain
    OBVIOUS
  <1>1. TypeOK
    BY InitTypes
  <1>2. \A c \in Clients : crs[c].hash = None /\ cache[c] = crs[c]
    <2>1. PICK f : /\ \A c \in Clients : f[c] \in SpecsOf[c]
                   /\ crs = [c \in Clients |-> NewCR(f[c])]
      BY DEF Init
    <2> QED BY <2>1, SpecsTyped, NewCRType DEF Init
  <1>3. \A c \in Clients : At(c, "idle") /\ worker[c].pc \notin HoldsData \cup Applied
    BY DEF Init, At, Idle, HoldsData, Applied
  <1>4. \A c \in Clients : \A s \in SpecsOf[c] : HeldBy(s) = None
    BY <1>1, HeldType DEF Init, HeldBy
  <1> QED BY <1>1, <1>2, <1>3, <1>4, NumbersType
          DEF Chain, CopiesInOrder, SecretInOrder, HashesBacked, Backed,
              DataInOrder, DataApplied

\* A worker ends, or moves on past the apply with the same copy and data.
LEMMA MoveKeeps ==
    ASSUME InOrder, NEW c \in Clients,
           UNCHANGED <<crs, cache, provider, secrets>>,
           NEW w, worker' = [worker EXCEPT ![c] = w],
           \/ w.pc = "idle"
           \/ /\ ~At(c, "idle")
              /\ w.cr.spec = worker[c].cr.spec /\ w.cr.hash = worker[c].cr.hash
              /\ \/ w.pc = "report"
                 \/ /\ worker[c].pc \in Applied /\ w.pc \in Applied
                    /\ w.data = worker[c].data
    PROVE  Chain'
  <1>1. /\ worker'[c] = w
        /\ \A d \in Clients \ {c} : worker'[d] = worker[d]
    BY DEF InOrder, TypeOK, WorkerTypes
  <1>2. \A s : HeldBy(s)' = HeldBy(s)
    BY DEF HeldBy
  <1>3. CopiesInOrder'
    BY <1>1 DEF InOrder, Chain, CopiesInOrder, At
  <1>4. SecretInOrder'
    BY <1>1, <1>2 DEF InOrder, Chain, SecretInOrder, At
  <1>5. HashesBacked'
    BY <1>1, <1>2 DEF InOrder, Chain, HashesBacked, Backed, At
  <1>6. DataInOrder'
    BY <1>1, <1>2 DEF InOrder, Chain, DataInOrder, At, HoldsData, Applied
  <1>7. DataApplied'
    BY <1>1, <1>2 DEF InOrder, Chain, DataApplied, At, Applied
  <1> QED BY <1>3, <1>4, <1>5, <1>6, <1>7 DEF Chain

\* A worker that starts: its copy is the cached one.
LEMMA BeginKeeps ==
    ASSUME InOrder, NEW c \in Clients, Begin(c)
    PROVE  Chain'
  <1>1. /\ worker'[c].pc = "fetch" /\ worker'[c].cr = cache[c]
        /\ \A d \in Clients \ {c} : worker'[d] = worker[d]
    BY DEF InOrder, TypeOK, WorkerTypes, Begin, Goto
  <1>2. /\ UNCHANGED <<crs, cache, provider, secrets>>
        /\ \A s : HeldBy(s)' = HeldBy(s)
    BY DEF Begin, HeldBy
  <1>3. cache[c].spec.shape <= cache[c].spec.shape
    BY NumbersType DEF InOrder
  <1>4. CopiesInOrder'
    BY <1>1, <1>2, <1>3 DEF InOrder, Chain, CopiesInOrder, At
  <1>5. SecretInOrder'
    BY <1>1, <1>2 DEF InOrder, Chain, SecretInOrder, At
  <1>6. HashesBacked'
    BY <1>1, <1>2 DEF InOrder, Chain, HashesBacked, Backed, At
  <1>7. DataInOrder' /\ DataApplied'
    BY <1>1, <1>2 DEF InOrder, Chain, DataInOrder, DataApplied, HoldsData, Applied
  <1> QED BY <1>4, <1>5, <1>6, <1>7 DEF Chain

\* The provider is read: no Secret is newer than what its answer builds.
LEMMA FetchKeeps ==
    ASSUME InOrder, NEW c \in Clients, FetchProvider(c)
    PROVE  Chain'
  <1> DEFINE spec == worker[c].cr.spec
  <1>1. /\ ~At(c, "idle")
        /\ worker[c].cr \in CR /\ spec \in SpecsOf[c] /\ spec \in SpecRecord
    BY RunningTypes DEF FetchProvider, At, InOrder
  <1>2. /\ Build(spec) \in Data /\ Build(spec).shape = spec.shape
        /\ Build(spec).version = provider[spec.slug] /\ Build(spec).cert = FALSE
    BY <1>1, BuildType DEF InOrder, TypeOK
  <1>3. "AuthentikProviderFound" \in ConditionTypes
    BY DEF ConditionTypes
  <1>4. /\ worker'[c].cr.spec = spec /\ worker'[c].cr.hash = worker[c].cr.hash
        /\ worker'[c].data = Build(spec)
        /\ worker'[c].pc = IF provider[spec.slug] \in Signed THEN "cert" ELSE "built"
        /\ \A d \in Clients \ {c} : worker'[d] = worker[d]
    BY <1>1, <1>3, SetConditionKeeps
       DEF InOrder, TypeOK, WorkerTypes, FetchProvider, Goto
  <1>5. /\ UNCHANGED <<crs, cache, provider, secrets>>
        /\ \A s : HeldBy(s)' = HeldBy(s)
    BY DEF FetchProvider, HeldBy
  <1>6. HeldBy(spec) # None => Precedes(HeldBy(spec).data, Build(spec))
    <2>1. SUFFICES ASSUME HeldBy(spec) # None
                   PROVE  Precedes(HeldBy(spec).data, Build(spec))
      OBVIOUS
    <2>2. /\ HeldBy(spec).data.shape <= spec.shape
          /\ spec.shape = HeldBy(spec).data.shape
                => HeldBy(spec).data.version <= provider[spec.slug]
      BY <1>1, <2>1 DEF InOrder, Chain, SecretInOrder
    <2>3. HeldBy(spec).data \in Data /\ spec.shape \in Nat
      BY <1>1, <2>1, HeldType DEF InOrder, SpecRecord
    <2> QED BY <1>2, <2>2, <2>3 DEF Precedes, Data
  <1>7. CopiesInOrder'
    BY <1>1, <1>4, <1>5 DEF InOrder, Chain, CopiesInOrder, At
  <1>8. SecretInOrder'
    BY <1>1, <1>4, <1>5 DEF InOrder, Chain, SecretInOrder, At
  <1>9. HashesBacked'
    BY <1>1, <1>4, <1>5 DEF InOrder, Chain, HashesBacked, Backed, At
  <1>10. DataInOrder'
    <2>1. provider[spec.slug] \in Nat
      BY <1>1, NumbersType DEF InOrder
    <2>2. /\ worker'[c].data.version <= provider[spec.slug]
          /\ worker'[c].data.shape = worker'[c].cr.spec.shape
          /\ IF worker'[c].pc = "cert" THEN worker'[c].data.version \in Signed
                                       ELSE Complete(worker'[c].data)
      <3>1. CASE provider[spec.slug] \in Signed
        BY <1>2, <1>4, <2>1, <3>1
      <3>2. CASE provider[spec.slug] \notin Signed
        <4>1. Complete(Build(spec))
          <5>1. (Build(spec).version \in Signed) = FALSE
            BY <1>2, <3>2
          <5> QED BY <1>2, <5>1, Zenon DEF Complete
        <4> QED BY <1>2, <1>4, <2>1, <3>2, <4>1
      <3> QED BY <3>1, <3>2
    <2>3. HeldBy(worker'[c].cr.spec) # None
             => Precedes(HeldBy(worker'[c].cr.spec).data, worker'[c].data)
      BY <1>4, <1>6
    <2> QED BY <1>4, <1>5, <2>2, <2>3 DEF InOrder, Chain, DataInOrder
  <1>11. DataApplied'
    BY <1>4, <1>5 DEF InOrder, Chain, DataApplied, Applied
  <1> QED BY <1>7, <1>8, <1>9, <1>10, <1>11 DEF Chain

\* The certificate completes the data.
LEMMA CertificateKeeps ==
    ASSUME InOrder, NEW c \in Clients, FetchCertificate(c)
    PROVE  Chain'
  <1>1. /\ ~At(c, "idle") /\ worker[c].pc = "cert" /\ worker[c].pc \in HoldsData
        /\ worker[c].cr.spec \in SpecsOf[c] /\ worker[c].data \in Data
    BY RunningTypes DEF FetchCertificate, At, HoldsData, InOrder
  <1>2. /\ worker'[c].cr = worker[c].cr /\ worker'[c].pc = "built"
        /\ worker'[c].data = [worker[c].data EXCEPT !.cert = TRUE]
        /\ \A d \in Clients \ {c} : worker'[d] = worker[d]
    BY DEF InOrder, TypeOK, WorkerTypes, FetchCertificate, Goto
  <1>3. /\ worker'[c].data.shape = worker[c].data.shape
        /\ worker'[c].data.version = worker[c].data.version
        /\ worker'[c].data.cert = TRUE
    BY <1>1, <1>2 DEF Data
  <1>4. /\ UNCHANGED <<crs, cache, provider, secrets>>
        /\ \A s : HeldBy(s)' = HeldBy(s)
    BY DEF FetchCertificate, HeldBy
  <1>5. CopiesInOrder'
    BY <1>1, <1>2, <1>4 DEF InOrder, Chain, CopiesInOrder, At
  <1>6. SecretInOrder'
    BY <1>1, <1>2, <1>4 DEF InOrder, Chain, SecretInOrder, At
  <1>7. HashesBacked'
    BY <1>1, <1>2, <1>4 DEF InOrder, Chain, HashesBacked, Backed, At
  <1>8. DataInOrder'
    <2>1. Complete(worker'[c].data)
      BY <1>1, <1>3 DEF InOrder, Chain, DataInOrder, Complete
    <2>2. \A d : Precedes(d, worker[c].data) => Precedes(d, worker'[c].data)
      BY <1>3 DEF Precedes
    <2>3. /\ worker'[c].data.shape = worker'[c].cr.spec.shape
          /\ worker'[c].data.version <= provider[worker'[c].cr.spec.slug]
          /\ HeldBy(worker'[c].cr.spec) # None
                => Precedes(HeldBy(worker'[c].cr.spec).data, worker'[c].data)
      BY <1>1, <1>2, <1>3, <2>2 DEF InOrder, Chain, DataInOrder
    <2> QED BY <1>2, <1>4, <2>1, <2>3 DEF InOrder, Chain, DataInOrder
  <1>9. DataApplied'
    BY <1>2, <1>4 DEF InOrder, Chain, DataApplied, Applied
  <1> QED BY <1>5, <1>6, <1>7, <1>8, <1>9 DEF Chain

\* A write of the client's Secret: only that client's specs see it change.
LEMMA WriteSecretHeld ==
    ASSUME TypeOK, ExclusiveTargets, NEW c \in Clients, ~At(c, "idle"), WriteSecret(c)
    PROVE  \A d \in Clients : \A s \in SpecsOf[d] :
              HeldBy(s)' = IF d = c THEN [owner |-> c, data |-> worker[c].data]
                                    ELSE HeldBy(s)
  <1> SUFFICES ASSUME NEW d \in Clients, NEW s \in SpecsOf[d]
               PROVE  HeldBy(s)' = IF d = c
                                   THEN [owner |-> c, data |-> worker[c].data]
                                   ELSE HeldBy(s)
    OBVIOUS
  <1>1. /\ worker[c].cr.spec \in SpecsOf[c]
        /\ s.target \in Secrets /\ worker[c].cr.spec.target \in Secrets
    BY RunningTypes, HeldType
  <1>2. s.target = worker[c].cr.spec.target <=> d = c
    BY <1>1 DEF ExclusiveTargets
  <1> QED BY <1>1, <1>2 DEF WriteSecret, HeldBy, TypeOK, TargetTypes

\* The apply: the data under way, newer than all before it, is in the Secret.
LEMMA ApplyKeeps ==
    ASSUME InOrder, ExclusiveTargets, NEW c \in Clients,
           At(c, "built"), WriteSecret(c), UNCHANGED <<crs, cache, provider>>,
           NEW w, worker' = [worker EXCEPT ![c] = w],
           w.pc \in Applied \cup {"report"},
           w.cr.spec = worker[c].cr.spec, w.cr.hash = worker[c].cr.hash,
           w.data = worker[c].data
    PROVE  Chain'
  <1> DEFINE spec == worker[c].cr.spec
             data == worker[c].data
             new  == [owner |-> c, data |-> data]
  <1>1. /\ ~At(c, "idle") /\ worker[c].pc = "built" /\ worker[c].pc \in HoldsData
        /\ spec \in SpecsOf[c] /\ data \in Data /\ w.pc # "idle" /\ w.pc # "cert"
    BY RunningTypes DEF At, HoldsData, InOrder, Applied
  <1>2. /\ worker'[c] = w
        /\ \A d \in Clients \ {c} : worker'[d] = worker[d]
    BY DEF InOrder, TypeOK, WorkerTypes
  <1>3. \A d \in Clients : \A s \in SpecsOf[d] :
           HeldBy(s)' = IF d = c THEN new ELSE HeldBy(s)
    BY <1>1, WriteSecretHeld DEF InOrder
  <1>4. new # None /\ new.owner = c /\ new.data = data
    BY <1>1, NoneAssumption
  <1>5. /\ data.shape = spec.shape /\ data.version <= provider[spec.slug]
        /\ Complete(data)
        /\ HeldBy(spec) # None => Precedes(HeldBy(spec).data, data)
    BY <1>1 DEF InOrder, Chain, DataInOrder
  <1>6. CopiesInOrder'
    BY <1>1, <1>2 DEF InOrder, Chain, CopiesInOrder, At
  <1> HIDE DEF new
  <1>7. SecretInOrder'
    <2>1. ASSUME NEW s \in SpecsOf[c]
          PROVE  /\ HeldBy(s)' = new
                 /\ new.data.shape <= cache'[c].spec.shape
                 /\ new.data.shape <= worker'[c].cr.spec.shape
                 /\ \A t \in SpecsOf[c] : t.shape = new.data.shape
                       => new.data.version <= provider'[t.slug]
      <3>1. HeldBy(s)' = new
        BY <1>3
      <3>2. spec.shape <= cache[c].spec.shape /\ spec.shape <= spec.shape
        BY <1>1, NumbersType DEF InOrder, Chain, CopiesInOrder
      <3>3. \A t \in SpecsOf[c] : t.shape = spec.shape => t.slug = spec.slug
        BY <1>1, ShapeAssumption
      <3> QED BY <1>2, <1>4, <1>5, <3>1, <3>2, <3>3
    <2>2. ASSUME NEW d \in Clients \ {c}, NEW s \in SpecsOf[d]
          PROVE  HeldBy(s)' = HeldBy(s) /\ worker'[d] = worker[d]
      BY <1>2, <1>3
    <2> QED BY <1>4, <1>5, <2>1, <2>2 DEF InOrder, Chain, SecretInOrder, At
  <1>8. HashesBacked'
    <2> DEFINE BackedNow(d, h) ==
                 h # None => /\ Complete(h)
                             /\ \A s \in SpecsOf[d] :
                                   /\ secrets'[s.target] # None
                                   /\ Precedes(h, secrets'[s.target].data)
    <2>1. ASSUME NEW h \in Data \cup {None}, Backed(c, h)
          PROVE  BackedNow(c, h)
      <3>1. SUFFICES ASSUME h # None
                     PROVE  Complete(h) /\ Precedes(h, new.data)
        BY <1>3, <1>4 DEF HeldBy
      <3>2. /\ h \in Data /\ HeldBy(spec) # None /\ Complete(h)
            /\ Precedes(h, HeldBy(spec).data)
        BY <1>1, <2>1, <3>1 DEF Backed
      <3>3. HeldBy(spec).data \in Data
        BY <1>1, <3>2, HeldType DEF InOrder
      <3> QED BY <1>1, <1>4, <1>5, <3>2, <3>3, PrecedesTransitive
    <2>2. ASSUME NEW d \in Clients \ {c}, NEW h, Backed(d, h)
          PROVE  BackedNow(d, h)
      BY <1>3, <2>2 DEF Backed, HeldBy
    <2>3. \A d \in Clients : /\ crs[d].hash \in Data \cup {None}
                             /\ cache[d].hash \in Data \cup {None}
      BY Fields DEF InOrder, TypeOK, ObjectTypes
    <2>4. worker[c].cr.hash \in Data \cup {None}
      BY <1>1, RunningTypes, Fields DEF InOrder
    <2>5. /\ BackedNow(c, crs[c].hash) /\ BackedNow(c, cache[c].hash)
          /\ BackedNow(c, worker[c].cr.hash)
      <3>1. Backed(c, worker[c].cr.hash) /\ Backed(c, crs[c].hash)
                                         /\ Backed(c, cache[c].hash)
        BY <1>1 DEF InOrder, Chain, HashesBacked
      <3> HIDE DEF BackedNow
      <3> QED BY <2>1, <2>3, <2>4, <3>1
    <2>6. ASSUME NEW d \in Clients \ {c}
          PROVE  /\ BackedNow(d, crs[d].hash) /\ BackedNow(d, cache[d].hash)
                 /\ ~At(d, "idle") => BackedNow(d, worker[d].cr.hash)
      <3>1. /\ Backed(d, crs[d].hash) /\ Backed(d, cache[d].hash)
            /\ ~At(d, "idle") => Backed(d, worker[d].cr.hash)
        BY DEF InOrder, Chain, HashesBacked
      <3> HIDE DEF BackedNow
      <3> QED BY <2>2, <3>1
    <2> QED BY <1>2, <2>5, <2>6 DEF HashesBacked, Backed, HeldBy, At
  <1>9. DataInOrder'
    <2>1. Precedes(data, data)
      BY <1>1, PrecedesReflexive
    <2>2. secrets'[spec.target] = new
      BY <1>1, <1>3 DEF HeldBy
    <2>3. ASSUME NEW d \in Clients \ {c}, worker[d].pc \in HoldsData
          PROVE  secrets'[worker[d].cr.spec.target] = HeldBy(worker[d].cr.spec)
      <3>1. worker[d].cr.spec \in SpecsOf[d]
        BY <2>3, RunningTypes DEF At, HoldsData, Applied, InOrder
      <3> QED BY <1>3, <3>1 DEF HeldBy
    <2>4. ASSUME NEW d \in Clients, worker'[d].pc \in HoldsData
          PROVE  LET v == worker'[d] IN
                 /\ v.data.shape = v.cr.spec.shape
                 /\ v.data.version <= provider[v.cr.spec.slug]
                 /\ IF v.pc = "cert" THEN v.data.version \in Signed
                                     ELSE Complete(v.data)
                 /\ secrets'[v.cr.spec.target] # None
                       => Precedes(secrets'[v.cr.spec.target].data, v.data)
      <3>1. CASE d = c
        BY <1>1, <1>2, <1>4, <1>5, <2>1, <2>2, <3>1
      <3>2. CASE d # c
        BY <1>2, <2>3, <2>4, <3>2 DEF InOrder, Chain, DataInOrder
      <3> QED BY <3>1, <3>2
    <2> QED BY <2>4 DEF DataInOrder, HeldBy
  <1>10. DataApplied'
    <2>1. ASSUME NEW d \in Clients, worker'[d].pc \in Applied
          PROVE  secrets'[worker'[d].cr.spec.target] =
                    [owner |-> d, data |-> worker'[d].data]
      <3>1. CASE d = c
        BY <1>1, <1>2, <1>3, <3>1 DEF HeldBy, new
      <3>2. CASE d # c
        <4>1. worker'[d] = worker[d] /\ worker[d].cr.spec \in SpecsOf[d]
          BY <1>2, <2>1, <3>2, RunningTypes DEF At, Applied, InOrder
        <4> QED BY <1>3, <2>1, <3>2, <4>1 DEF InOrder, Chain, DataApplied, HeldBy
      <3> QED BY <3>1, <3>2
    <2> QED BY <2>1 DEF DataApplied, HeldBy
  <1> QED BY <1>6, <1>7, <1>8, <1>9, <1>10 DEF Chain

\* A change of the stored object or of the informer's copy, forward, with hashes
\* that are backed; running workers stay as they are.
LEMMA ObjectKeeps ==
    ASSUME InOrder, UNCHANGED <<secrets, provider, worker>>,
           \A d \in Clients :
              /\ cache[d].spec.shape <= cache'[d].spec.shape
              /\ cache'[d].spec.shape <= crs'[d].spec.shape
              /\ cache'[d].spec.shape \in Nat
              /\ Backed(d, crs'[d].hash) /\ Backed(d, cache'[d].hash)
    PROVE  Chain'
  <1>1. \A d \in Clients : ~At(d, "idle") => worker[d].cr.spec.shape \in Nat
    BY RunningTypes DEF InOrder, SpecRecord
  <1>2. \A d \in Clients : \A s \in SpecsOf[d] :
           HeldBy(s) # None => HeldBy(s).data.shape \in Nat
    BY HeldType DEF InOrder, Data
  <1>3. \A d \in Clients : cache[d].spec.shape \in Nat
    BY NumbersType DEF InOrder
  <1>4. CopiesInOrder'
    BY <1>1, <1>3 DEF InOrder, Chain, CopiesInOrder, At
  <1>5. SecretInOrder'
    BY <1>2, <1>3 DEF InOrder, Chain, SecretInOrder, At, HeldBy
  <1>6. HashesBacked'
    BY DEF InOrder, Chain, HashesBacked, Backed, At, HeldBy
  <1>7. DataInOrder' /\ DataApplied'
    BY DEF InOrder, Chain, DataInOrder, DataApplied, HeldBy
  <1> QED BY <1>4, <1>5, <1>6, <1>7 DEF Chain

\* A status update: what it records, the Secret holds or has replaced.
LEMMA StatusKeeps ==
    ASSUME InOrder, ExclusiveTargets, NEW c \in Clients,
           RecordStatus(c) \/ RecordConflict(c) \/ RecordFails(c) \/ ReportFailure(c)
    PROVE  Chain'
  <1>1. ~At(c, "idle") /\ (At(c, "record") => worker[c].data \in Data)
    BY RunningTypes DEF RecordStatus, RecordConflict, RecordFails, ReportFailure,
                        At, HoldsData, Applied, InOrder
  <1>2. /\ UNCHANGED <<cache, provider, secrets>>
        /\ worker' = [worker EXCEPT ![c] = Idle] /\ Idle.pc = "idle"
    BY DEF RecordStatus, RecordConflict, RecordFails, ReportFailure, Finish, Idle
  <1>3. CASE UNCHANGED crs
    BY <1>2, <1>3, MoveKeeps
  <1>4. ASSUME NEW cr \in CR, NEW touched, WriteStatus(c, cr, touched),
               Backed(c, cr.hash)
        PROVE  Chain'
    <2>1. /\ crs' = [crs EXCEPT ![c] = crs'[c]]
          /\ crs'[c].hash = cr.hash /\ crs'[c].spec = crs[c].spec
      BY <1>2, <1>4, WriteStatusTypes DEF InOrder, TypeOK
    <2>2. \A d \in Clients : /\ crs'[d].spec = crs[d].spec
                             /\ Backed(d, crs'[d].hash)
      BY <1>4, <2>1 DEF InOrder, TypeOK, ObjectTypes, Chain, HashesBacked
    <2>3. /\ \A d \in Clients \ {c} : worker'[d] = worker[d]
          /\ worker'[c].pc = "idle"
      BY <1>2 DEF InOrder, TypeOK, WorkerTypes
    <2>4. CopiesInOrder'
      BY <1>2, <2>2, <2>3 DEF InOrder, Chain, CopiesInOrder, At
    <2>5. SecretInOrder'
      BY <1>2, <2>2, <2>3 DEF InOrder, Chain, SecretInOrder, At, HeldBy
    <2>6. HashesBacked'
      BY <1>2, <2>2, <2>3 DEF InOrder, Chain, HashesBacked, Backed, At, HeldBy
    <2>7. DataInOrder' /\ DataApplied'
      BY <1>2, <2>2, <2>3
         DEF InOrder, Chain, DataInOrder, DataApplied, HoldsData, Applied, HeldBy
    <2> QED BY <2>4, <2>5, <2>6, <2>7 DEF Chain
  <1>5. CASE At(c, "record")
    <2>1. Recorded(worker[c]) \in CR /\ Recorded(worker[c]).hash = worker[c].data
      BY <1>1, <1>5, RunningTypes, RecordedKeeps DEF InOrder
    <2>2. Backed(c, worker[c].data)
      <3>1. /\ Complete(worker[c].data)
            /\ HeldBy(worker[c].cr.spec) = [owner |-> c, data |-> worker[c].data]
        BY <1>5 DEF InOrder, Chain, DataInOrder, DataApplied, At, HoldsData, Applied
      <3>2. \A s \in SpecsOf[c] : HeldBy(s) = HeldBy(worker[c].cr.spec)
        BY <1>1, RunningTypes DEF ExclusiveTargets, InOrder, HeldBy
      <3>3. [owner |-> c, data |-> worker[c].data] # None
        BY <1>1, <1>5, NoneAssumption
      <3>4. Precedes(worker[c].data, worker[c].data)
        BY <1>1, <1>5, PrecedesReflexive
      <3> QED BY <3>1, <3>2, <3>3, <3>4 DEF Backed
    <2> QED BY <1>3, <1>4, <1>5, <2>1, <2>2
            DEF RecordStatus, RecordConflict, RecordFails, ReportFailure, At
  <1>6. CASE ReportFailure(c)
    <2>1. worker[c].cr \in CR /\ Backed(c, worker[c].cr.hash)
      BY <1>1, RunningTypes DEF InOrder, Chain, HashesBacked
    <2> QED BY <1>3, <1>4, <1>6, <2>1 DEF ReportFailure, Reported
  <1> QED BY <1>5, <1>6 DEF RecordStatus, RecordConflict, RecordFails

\* The informer catches up.
LEMMA SyncKeeps ==
    ASSUME InOrder, NEW c \in Clients, SyncClient(c)
    PROVE  Chain'
  <1>1. \A d \in Clients : cache'[d] = IF d = c THEN crs[c] ELSE cache[d]
    BY DEF SyncClient, InOrder, TypeOK, ObjectTypes
  <1>2. \A d \in Clients : /\ cache[d].spec.shape <= crs[d].spec.shape
                           /\ cache[d].spec.shape \in Nat
                           /\ crs[d].spec.shape \in Nat
                           /\ Backed(d, crs[d].hash) /\ Backed(d, cache[d].hash)
    BY NumbersType DEF InOrder, Chain, CopiesInOrder, HashesBacked
  <1>3. ASSUME NEW d \in Clients
        PROVE  /\ cache[d].spec.shape <= cache'[d].spec.shape
               /\ cache'[d].spec.shape <= crs'[d].spec.shape
               /\ cache'[d].spec.shape \in Nat
               /\ Backed(d, crs'[d].hash) /\ Backed(d, cache'[d].hash)
    <2>1. crs' = crs
      BY DEF SyncClient
    <2> QED BY <1>1, <1>2, <2>1
  <1> QED BY <1>3, ObjectKeeps, Zenon DEF SyncClient

\* A restart forgets every worker and reads the objects afresh.
LEMMA RestartKeeps ==
    ASSUME InOrder, Restart
    PROVE  Chain'
  <1>1. /\ cache' = crs /\ crs' = crs /\ UNCHANGED <<provider, secrets>>
        /\ \A d \in Clients : worker'[d].pc = "idle"
    BY DEF Restart, Idle
  <1>2. \A d \in Clients : /\ cache[d].spec.shape <= crs[d].spec.shape
                           /\ cache[d].spec.shape \in Nat
                           /\ crs[d].spec.shape \in Nat
    BY NumbersType DEF InOrder, Chain, CopiesInOrder
  <1>3. \A d \in Clients : \A s \in SpecsOf[d] :
           HeldBy(s) # None => HeldBy(s).data.shape \in Nat
    BY HeldType DEF InOrder, Data
  <1>4. CopiesInOrder'
    BY <1>1, <1>2 DEF CopiesInOrder, At
  <1>5. SecretInOrder'
    BY <1>1, <1>2, <1>3 DEF InOrder, Chain, SecretInOrder, At, HeldBy
  <1>6. HashesBacked'
    BY <1>1 DEF InOrder, Chain, HashesBacked, Backed, At, HeldBy
  <1>7. DataInOrder' /\ DataApplied'
    BY <1>1 DEF DataInOrder, DataApplied, HoldsData, Applied
  <1> QED BY <1>4, <1>5, <1>6, <1>7 DEF Chain

\* Authentik's provider moves forward only.
LEMMA RotateKeeps ==
    ASSUME InOrder, ForwardOnly, NEW s \in Slugs, RotateProvider(s)
    PROVE  Chain'
  <1>1. \A t \in Slugs : provider[t] \in Nat /\ provider[t] <= provider'[t]
    BY BoundsAssumption
       DEF RotateProvider, Forward, Backward, Fault, ForwardOnly, InOrder, TypeOK
  <1>2. /\ UNCHANGED <<crs, cache, worker, secrets>>
    BY DEF RotateProvider
  <1>3. \A d \in Clients : \A t \in SpecsOf[d] : t.slug \in Slugs
    BY NumbersType DEF InOrder
  <1>4. CopiesInOrder' /\ HashesBacked' /\ DataApplied'
    BY <1>2 DEF InOrder, Chain, CopiesInOrder, HashesBacked, DataApplied, Backed,
                At, HeldBy
  <1>5. SecretInOrder'
    <2>1. ASSUME NEW d \in Clients, NEW t \in SpecsOf[d], NEW v \in Nat,
                 v <= provider[t.slug], provider'[t.slug] \in Nat
          PROVE  v <= provider'[t.slug]
      BY <1>1, <1>3, <2>1
    <2>2. \A t \in Slugs : provider'[t] \in Nat
      BY BoundsAssumption, EnvironmentTypes DEF InOrder, TypeOK, Environment
    <2>3. \A d \in Clients : \A t \in SpecsOf[d] :
             HeldBy(t) # None => HeldBy(t).data.version \in Nat
      BY HeldType DEF InOrder, Data
    <2> QED BY <1>2, <1>3, <2>1, <2>2, <2>3
            DEF InOrder, Chain, SecretInOrder, At, HeldBy
  <1>6. DataInOrder'
    <2>1. ASSUME NEW d \in Clients, worker[d].pc \in HoldsData
          PROVE  worker[d].data.version <= provider'[worker[d].cr.spec.slug]
      <3>1. /\ worker[d].data.version \in Nat
            /\ worker[d].cr.spec.slug \in Slugs
        BY <2>1, RunningTypes DEF At, HoldsData, Applied, InOrder, Data, SpecRecord
      <3>2. worker[d].data.version <= provider[worker[d].cr.spec.slug]
        BY <2>1 DEF InOrder, Chain, DataInOrder
      <3>3. provider'[worker[d].cr.spec.slug] \in Nat
        BY <3>1, BoundsAssumption, EnvironmentTypes
           DEF InOrder, TypeOK, Environment
      <3> QED BY <1>1, <3>1, <3>2, <3>3
    <2> QED BY <1>2, <2>1 DEF InOrder, Chain, DataInOrder, HeldBy
  <1> QED BY <1>4, <1>5, <1>6 DEF Chain

\* Users edit, delete and create objects, whose shapes move forward only.
LEMMA UserKeeps ==
    ASSUME InOrder, ForwardOnly, NEW c \in Clients,
           \/ DeleteClient(c)
           \/ \E s \in SpecsOf[c] : EditSpec(c, s) \/ CreateClient(c, s)
    PROVE  Chain'
  <1>1. ASSUME NEW cr \in CR, ChangeCR(c, cr), Backed(c, cr.hash),
               UNCHANGED <<cache, secrets, provider, worker>>,
               crs[c].spec.shape <= cr.spec.shape, cr.spec.shape \in Nat
        PROVE  Chain'
    <2>1. \A d \in Clients : crs'[d] = IF d = c THEN cr ELSE crs[d]
      BY <1>1 DEF ChangeCR, InOrder, TypeOK, ObjectTypes
    <2>2. \A d \in Clients : /\ cache[d].spec.shape <= crs[d].spec.shape
                             /\ cache[d].spec.shape \in Nat
                             /\ crs[d].spec.shape \in Nat
                             /\ Backed(d, crs[d].hash) /\ Backed(d, cache[d].hash)
      BY NumbersType DEF InOrder, Chain, CopiesInOrder, HashesBacked
    <2>3. ASSUME NEW d \in Clients
          PROVE  /\ cache[d].spec.shape <= cache'[d].spec.shape
                 /\ cache'[d].spec.shape <= crs'[d].spec.shape
                 /\ cache'[d].spec.shape \in Nat
                 /\ Backed(d, crs'[d].hash) /\ Backed(d, cache'[d].hash)
      BY <1>1, <2>1, <2>2
    <2> QED BY <1>1, <2>3, ObjectKeeps, Zenon
  <1>2. /\ crs[c] \in CR /\ Backed(c, crs[c].hash) /\ crs[c].spec.shape \in Nat
        /\ \A s \in SpecsOf[c] : s \in SpecRecord /\ s.shape \in Nat
    BY NumbersType, SpecsTyped
       DEF InOrder, TypeOK, ObjectTypes, Chain, HashesBacked
  <1>3. CASE DeleteClient(c)
    <2> DEFINE new == [crs[c] EXCEPT !.exists = FALSE]
    <2>1. new \in CR /\ new.spec = crs[c].spec /\ new.hash = crs[c].hash
      BY <1>2 DEF CR
    <2>2. ChangeCR(c, new) /\ UNCHANGED <<cache, secrets, provider, worker>>
      BY <1>3 DEF DeleteClient
    <2>3. crs[c].spec.shape <= crs[c].spec.shape
      BY <1>2
    <2> HIDE DEF new
    <2> QED BY <1>1, <1>2, <2>1, <2>2, <2>3
  <1>4. ASSUME NEW s \in SpecsOf[c], EditSpec(c, s)
        PROVE  Chain'
    <2> DEFINE new == [crs[c] EXCEPT !.spec = s, !.gen = crs[c].gen + 1]
    <2>1. new \in CR /\ new.spec = s /\ new.hash = crs[c].hash
      <3>1. crs[c].gen + 1 \in Nat
        BY <1>2, Fields
      <3> QED BY <1>2, <3>1 DEF CR
    <2>2. ChangeCR(c, new) /\ UNCHANGED <<cache, secrets, provider, worker>>
      BY <1>4 DEF EditSpec
    <2>3. crs[c].spec.shape <= s.shape
      BY <1>4 DEF EditSpec, Forward, Backward, Fault, ForwardOnly
    <2> HIDE DEF new
    <2> QED BY <1>1, <1>2, <2>1, <2>2, <2>3
  <1>5. ASSUME NEW s \in SpecsOf[c], CreateClient(c, s)
        PROVE  Chain'
    <2>1. /\ NewCR(s) \in CR /\ NewCR(s).spec = s /\ Backed(c, NewCR(s).hash)
      BY <1>2, NewCRType DEF Backed
    <2>2. crs[c].spec.shape <= s.shape
      BY <1>5 DEF CreateClient, Forward, Backward, Fault, ForwardOnly
    <2> QED BY <1>1, <1>2, <1>5, <2>1, <2>2 DEF CreateClient
  <1> QED BY <1>3, <1>4, <1>5

\* Steps that touch nothing the chain speaks of.
LEMMA NothingKeeps ==
    ASSUME InOrder, UNCHANGED <<crs, cache, worker, provider, secrets>>
    PROVE  Chain'
  BY DEF InOrder, Chain, CopiesInOrder, SecretInOrder, HashesBacked, Backed,
         DataInOrder, DataApplied, At, HeldBy

\* Every call of a reconciliation keeps the chain in order.
LEMMA StepKeeps ==
    ASSUME InOrder, ExclusiveTargets, ForwardOnly, NEW c \in Clients, Step(c)
    PROVE  Chain'
  <1>1. CASE FetchProvider(c)
    BY <1>1, FetchKeeps
  <1>2. CASE FetchCertificate(c)
    BY <1>2, CertificateKeeps
  <1>3. CASE CertificateFails(c)
    BY <1>3 DEF CertificateFails, Fault, ForwardOnly
  <1>4. CASE FetchFails(c)
    <2>1. /\ "AuthentikProviderFound" \in ConditionTypes
          /\ ~At(c, "idle") /\ worker[c].cr \in CR
      BY <1>4, RunningTypes DEF ConditionTypes, FetchFails, At, InOrder
    <2> QED BY <1>4, <2>1, SetConditionKeeps, MoveKeeps DEF FetchFails, Goto
  <1>5. CASE RefreshRequeue(c) \/ SkipUnchanged(c)
    BY <1>5, MoveKeeps DEF RefreshRequeue, SkipUnchanged, Finish, Idle
  <1>6. CASE ApplySecret(c)
    <2>1. AfterApply(worker[c].cr.spec, worker[c].data) \in Applied
      BY DEF AfterApply, AfterConfigMap, Applied
    <2> QED BY <1>6, <2>1, ApplyKeeps DEF ApplySecret, Goto
  <1>7. CASE ApplyFails(c)
    <2>1. /\ "SecretSynced" \in ConditionTypes
          /\ ~At(c, "idle") /\ worker[c].cr \in CR
      BY <1>7, RunningTypes DEF ConditionTypes, ApplyFails, At, InOrder
    <2>2. CASE WriteSecret(c)
      BY <1>7, <2>1, <2>2, SetConditionKeeps, ApplyKeeps
         DEF ApplyFails, AfterApplyError, Goto
    <2>3. CASE UNCHANGED secrets
      BY <1>7, <2>1, <2>3, SetConditionKeeps, MoveKeeps
         DEF ApplyFails, AfterApplyError, Goto
    <2> QED BY <1>7, <2>2, <2>3 DEF ApplyFails
  <1>8. CASE PatchConfigMap(c) \/ ConfigMapConflict(c) \/ ConfigMapFails(c)
    <2>1. /\ "ConfigMapSynced" \in ConditionTypes
          /\ ~At(c, "idle") /\ worker[c].cr \in CR
          /\ worker[c].pc \in Applied
          /\ AfterConfigMap(worker[c].cr.spec) \in Applied
      BY <1>8, RunningTypes
         DEF ConditionTypes, PatchConfigMap, ConfigMapConflict, ConfigMapFails, At,
             InOrder, Applied, AfterConfigMap
    <2>2. PICK status \in {"True", "False"} : ConfigMapDone(c, status)
      BY <1>8 DEF PatchConfigMap, ConfigMapConflict, ConfigMapFails
    <2>3. UNCHANGED <<crs, cache, provider, secrets>>
      BY <1>8 DEF PatchConfigMap, ConfigMapConflict, ConfigMapFails
    <2> QED BY <2>1, <2>2, <2>3, SetConditionKeeps, MoveKeeps
            DEF ConfigMapDone, Goto
  <1>9. CASE TriggerRollout(c) \/ RolloutFails(c)
    <2>1. /\ "RolloutTriggered" \in ConditionTypes
          /\ ~At(c, "idle") /\ worker[c].cr \in CR
          /\ worker[c].pc \in Applied /\ "record" \in Applied
      BY <1>9, RunningTypes
         DEF ConditionTypes, TriggerRollout, RolloutFails, At, InOrder, Applied
    <2>2. PICK status \in {"True", "False"} : RolloutDone(c, status)
      BY <1>9 DEF TriggerRollout, RolloutFails
    <2>3. UNCHANGED <<crs, cache, provider, secrets>>
      BY <1>9 DEF TriggerRollout, RolloutFails
    <2> QED BY <2>1, <2>2, <2>3, SetConditionKeeps, MoveKeeps DEF RolloutDone, Goto
  <1>10. CASE RecordStatus(c) \/ RecordConflict(c) \/ RecordFails(c)
                              \/ ReportFailure(c)
    BY <1>10, StatusKeeps
  <1> QED BY <1>1, <1>2, <1>3, <1>4, <1>5, <1>6, <1>7, <1>8, <1>9, <1>10 DEF Step

\* Every step of the system keeps the inductive invariant.
LEMMA NextKeeps ==
    ASSUME ExclusiveTargets, ForwardOnly, InOrder, [Next]_vars
    PROVE  InOrder'
  <1>1. TypeOK'
    BY StepTypes DEF InOrder
  <1> SUFFICES Chain'
    BY <1>1 DEF InOrder
  <1>2. ASSUME NEW c \in Clients, Take(c) PROVE Chain'
    BY <1>2, BeginKeeps, NothingKeeps DEF Take, DropDeleted, AwaitToken
  <1>3. ASSUME NEW c \in Clients, TimerFires(c) PROVE Chain'
    BY <1>3, NothingKeeps DEF TimerFires
  <1>4. CASE Informers
    BY <1>4, SyncKeeps, NothingKeeps DEF Informers, SyncConfigMap, SyncWorkload
  <1>5. CASE Environment
    <2>1. ASSUME NEW k \in Secrets, DeleteSecret(k) PROVE Chain'
      BY <2>1 DEF DeleteSecret, Fault, ForwardOnly
    <2> QED BY <1>5, <2>1, RotateKeeps, UserKeeps DEF Environment
  <1>6. CASE UNCHANGED vars
    BY <1>6, NothingKeeps DEF vars
  <1> QED BY <1>2, <1>3, <1>4, <1>5, <1>6, StepKeeps, RestartKeeps DEF Next

\* With a target Secret of its own for every client and specs and providers that
\* only move forward, the chain hash - Secret - data under way - copies stays in
\* order in every reachable state.
THEOREM AlwaysInOrder ==
    ASSUME ExclusiveTargets, ForwardOnly
    PROVE  Spec => []InOrder
  <1>1. Init => InOrder
    BY InitTypes, InitChain DEF InOrder
  <1>2. InOrder /\ [Next]_vars => InOrder'
    BY NextKeeps
  <1> QED BY <1>1, <1>2, PTL DEF Spec

-----------------------------------------------------------------------------
(* What follows from it *)

\* The recorded hash is the first link of the chain, the Secret the second.
LEMMA InOrderNeverAhead == ASSUME InOrder PROVE StatusNeverAhead
  <1> SUFFICES ASSUME NEW c \in Clients, crs[c].hash # None
               PROVE  /\ HeldBy(crs[c].spec) # None
                      /\ HeldBy(crs[c].spec).owner = c
                      /\ Precedes(crs[c].hash, HeldBy(crs[c].spec).data)
    BY DEF StatusNeverAhead
  <1>1. crs[c].spec \in SpecsOf[c]
    BY NumbersType DEF InOrder
  <1> QED BY <1>1 DEF InOrder, Chain, HashesBacked, Backed, SecretInOrder

\* The only step that replaces a Secret's data is an apply of newer data.
LEMMA InOrderForward ==
    ASSUME InOrder, ForwardOnly, ExclusiveTargets, [Next]_vars
    PROVE  \A k \in Secrets : secrets[k] # None /\ secrets'[k] # None
              => Precedes(secrets[k].data, secrets'[k].data)
  <1>1. ASSUME NEW k \in Secrets, secrets[k] # None
        PROVE  Precedes(secrets[k].data, secrets[k].data)
    BY <1>1, PrecedesReflexive DEF InOrder, TypeOK, TargetTypes
  <1>2. ASSUME NEW c \in Clients, At(c, "built"), WriteSecret(c),
               NEW k \in Secrets, secrets[k] # None
        PROVE  Precedes(secrets[k].data, secrets'[k].data)
    <2>1. /\ worker[c].pc \in HoldsData /\ worker[c].data \in Data
          /\ worker[c].cr.spec.target \in Secrets
      BY <1>2, RunningTypes DEF At, HoldsData, InOrder, SpecRecord
    <2>2. CASE k = worker[c].cr.spec.target
      <3>1. Precedes(secrets[k].data, worker[c].data)
        BY <1>2, <2>1, <2>2 DEF InOrder, Chain, DataInOrder, HeldBy
      <3> QED BY <1>2, <2>2, <3>1 DEF WriteSecret, InOrder, TypeOK, TargetTypes
    <2>3. CASE k # worker[c].cr.spec.target
      BY <1>1, <1>2, <2>3 DEF WriteSecret, InOrder, TypeOK, TargetTypes
    <2> QED BY <2>2, <2>3
  <1>3. \/ UNCHANGED secrets
        \/ \E c \in Clients : At(c, "built") /\ WriteSecret(c)
    BY DEF Next, Take, Begin, DropDeleted, AwaitToken, Step, FetchProvider,
           FetchFails, RefreshRequeue, FetchCertificate, CertificateFails,
           SkipUnchanged, ApplySecret, ApplyFails, PatchConfigMap,
           ConfigMapConflict, ConfigMapFails, TriggerRollout, RolloutFails,
           RecordStatus, RecordConflict, RecordFails, ReportFailure, TimerFires,
           Informers, SyncClient, SyncConfigMap, SyncWorkload, Restart,
           Environment, RotateProvider, EditSpec, DeleteClient, CreateClient,
           DeleteSecret, Fault, ForwardOnly, vars
  <1> QED BY <1>1, <1>2, <1>3

\* status.secretHash never records data the Secret has not yet received.
THEOREM StatusIsNeverAhead ==
    ASSUME ExclusiveTargets, ForwardOnly
    PROVE  Spec => []StatusNeverAhead
  BY AlwaysInOrder, InOrderNeverAhead, PTL

\* No step, of a worker with stale copies included, puts older data back into a
\* Secret.
THEOREM SecretIsNeverBackward ==
    ASSUME ExclusiveTargets, ForwardOnly
    PROVE  Spec => SecretNeverBackward
  <1> DEFINE Forth == \A k \in Secrets :
                         secrets[k] # None /\ secrets'[k] # None
                            => Precedes(secrets[k].data, secrets'[k].data)
  <1>1. InOrder /\ [Next]_vars => [Forth]_secrets
    BY InOrderForward
  <1> QED BY <1>1, AlwaysInOrder, PTL DEF Spec, SecretNeverBackward
=============================================================================
