------------------------------ MODULE CopyProofs ------------------------------
(***************************************************************************)
(* The optimistic lock: a copy with the live resourceVersion is a copy of  *)
(* the live object.  From it follow                                        *)
(*   NeverForgotten      no change of an object goes unnoticed, for any    *)
(*                       specs;                                            *)
(*   SyncedGeneration    SecretSynced of the current generation speaks of  *)
(*                       the current spec, for clients that do not share   *)
(*                       Secrets, under edits back and forth, deletions,   *)
(*                       crashes and lost answers;                         *)
(*   RecordedIsHeld      a hash is recorded only of data the Secret holds, *)
(*                       under the same;                                   *)
(*   ConditionsBacked    what ConfigMapSynced and RolloutTriggered report  *)
(*                       was done, with the chain of OrderProofs.          *)
(***************************************************************************)
EXTENDS TargetProofs, OrderProofs

USE DEF outside, objects, targets, queue

-----------------------------------------------------------------------------
(* Copies *)

\* An object is a copy of itself.
LEMMA CopyOfItself == ASSUME NEW cr \in CR PROVE CopyOf(cr, cr)
  BY DEF CopyOf

\* What setting a condition does to SecretSynced.
LEMMA SetConditionSynced ==
    ASSUME NEW cr \in CR, NEW type \in ConditionTypes,
           NEW status \in {"True", "False"}
    PROVE  SyncedCond(SetCondition(cr, type, status)) =
              IF type = "SecretSynced" THEN [status |-> status, gen |-> cr.gen]
                                       ELSE SyncedCond(cr)
  <1> DEFINE t   == "SecretSynced"
             new == [cr.conds EXCEPT ![type] = [status |-> status, gen |-> cr.gen]]
  <1>1. t \in ConditionTypes
    BY DEF ConditionTypes
  <1>2. SetCondition(cr, type, status) = [cr EXCEPT !.conds = new]
    BY DEF SetCondition
  <1> HIDE DEF t
  <1>3. new[t] = IF type = t THEN [status |-> status, gen |-> cr.gen]
                              ELSE cr.conds[t]
    BY <1>1, Fields DEF Conditions
  <1> HIDE DEF new
  <1>4. SetCondition(cr, type, status).conds = new
    BY <1>2 DEF CR
  <1> QED BY <1>3, <1>4 DEF t, SyncedCond

\* A condition may be set in a copy, SecretSynced only to False.
LEMMA CopyOfKept ==
    ASSUME NEW cr \in CR, NEW base, CopyOf(cr, base),
           NEW type \in ConditionTypes, NEW status \in {"True", "False"},
           type = "SecretSynced" => status = "False"
    PROVE  CopyOf(SetCondition(cr, type, status), base)
  BY SetConditionSynced, SetConditionKeeps DEF CopyOf

\* Recording an outcome sets SecretSynced to True for the copy's generation.
LEMMA RecordedConds ==
    ASSUME NEW w, w.cr \in CR, w.data \in Data
    PROVE  SyncedCond(Recorded(w)) = [status |-> "True", gen |-> w.cr.gen]
  <1> DEFINE cr == [w.cr EXCEPT !.hash = w.data]
  <1>1. cr \in CR /\ cr.gen = w.cr.gen
    BY DEF CR
  <1> HIDE DEF cr
  <1>2. "SecretSynced" \in ConditionTypes
    BY DEF ConditionTypes
  <1>3. Recorded(w) = SetCondition(cr, "SecretSynced", "True")
    BY DEF Recorded, cr
  <1> QED BY <1>1, <1>2, <1>3, SetConditionSynced

\* What a status write leaves in the API server.
LEMMA WriteStatusWrites ==
    ASSUME ObjectTypes, NEW c \in Clients, NEW cr \in CR, NEW touched,
           WriteStatus(c, cr, touched)
    PROVE  /\ \A d \in Clients \ {c} : crs'[d] = crs[d] /\ live'[d] = live[d]
           /\ crs'[c].exists = crs[c].exists /\ crs'[c].gen = crs[c].gen
           /\ crs'[c].spec = crs[c].spec
           /\ crs'[c].hash = cr.hash /\ crs'[c].conds = cr.conds
           /\ live'[c] = {} \/ (live'[c] = live[c] /\ crs'[c] = crs[c])
  <1> DEFINE new == [crs[c] EXCEPT !.hash = cr.hash, !.conds = cr.conds]
  <1>1. crs[c] \in CR
    BY DEF ObjectTypes
  <1>2. /\ new.exists = crs[c].exists /\ new.gen = crs[c].gen
        /\ new.spec = crs[c].spec /\ new.hash = cr.hash /\ new.conds = cr.conds
    BY <1>1 DEF CR
  <1>3. /\ crs' = [crs EXCEPT ![c] = new]
        /\ live' = [live EXCEPT ![c] = IF touched \/ new # crs[c] THEN {} ELSE @]
    BY DEF WriteStatus
  <1> HIDE DEF new
  <1>4. crs'[c] = new /\ \A d \in Clients \ {c} : crs'[d] = crs[d]
    BY <1>3 DEF ObjectTypes
  <1>5. /\ live'[c] = IF touched \/ new # crs[c] THEN {} ELSE live[c]
        /\ \A d \in Clients \ {c} : live'[d] = live[d]
    BY <1>3 DEF ObjectTypes
  <1> QED BY <1>2, <1>4, <1>5

-----------------------------------------------------------------------------
(* CopiesCurrent, by the kind of step *)

\* A worker that goes on with its copy, or ends.
LEMMA MoveCopies ==
    ASSUME TypeOK, CopiesCurrent, NEW c \in Clients,
           UNCHANGED <<crs, cache, live>>,
           NEW w, worker' = [worker EXCEPT ![c] = w],
           w.pc # "idle" =>
              /\ ~At(c, "idle")
              /\ w.cr.exists = worker[c].cr.exists
              /\ CopyOf(worker[c].cr, crs[c]) => CopyOf(w.cr, crs[c])
    PROVE  CopiesCurrent'
  <1>1. worker'[c] = w /\ \A d \in Clients \ {c} : worker'[d] = worker[d]
    BY DEF TypeOK, WorkerTypes
  <1>2. \A d \in Clients : /\ At(d, "idle")' <=> worker'[d].pc = "idle"
                           /\ At(d, "idle") <=> worker[d].pc = "idle"
                           /\ crs'[d] = crs[d] /\ cache'[d] = cache[d]
                           /\ live'[d] = live[d]
    BY DEF At
  <1>3. ASSUME NEW d \in Clients
        PROVE  /\ "cache" \in live'[d] => cache'[d] = crs'[d]
               /\ worker'[d].pc # "idle" => worker'[d].cr.exists
               /\ worker'[d].pc # "idle" /\ "worker" \in live'[d]
                     => /\ CopyOf(worker'[d].cr, crs'[d])
                        /\ cache'[d].spec = crs'[d].spec
    BY <1>1, <1>2 DEF CopiesCurrent
  <1> QED BY <1>3 DEF CopiesCurrent, At

\* A reconciliation that ends with or without a status write.
LEMMA StatusCopies ==
    ASSUME TypeOK, CopiesCurrent, NEW c \in Clients,
           worker' = [worker EXCEPT ![c] = Idle], UNCHANGED cache,
           \/ UNCHANGED objects
           \/ \E cr \in CR, touched \in BOOLEAN : WriteStatus(c, cr, touched)
    PROVE  CopiesCurrent'
  <1>1. worker'[c] = Idle /\ Idle.pc = "idle"
    BY DEF TypeOK, WorkerTypes, Idle
  <1>2. \A d \in Clients \ {c} : /\ worker'[d] = worker[d]
                                 /\ crs'[d] = crs[d] /\ live'[d] = live[d]
    BY WriteStatusWrites DEF TypeOK, WorkerTypes
  <1>3. "cache" \in live'[c] => "cache" \in live[c] /\ crs'[c] = crs[c]
    BY WriteStatusWrites DEF TypeOK
  <1> QED BY <1>1, <1>2, <1>3 DEF CopiesCurrent, At

\* A user's change leaves no current copy of the object.
LEMMA ChangeCopies ==
    ASSUME TypeOK, CopiesCurrent, NEW c \in Clients, NEW cr, ChangeCR(c, cr),
           UNCHANGED <<cache, worker>>
    PROVE  CopiesCurrent'
  <1>1. /\ \A d \in Clients \ {c} : crs'[d] = crs[d] /\ live'[d] = live[d]
        /\ live'[c] = {}
    BY DEF ChangeCR, TypeOK, ObjectTypes
  <1> QED BY <1>1 DEF CopiesCurrent, At

\* Reconciliations start from the informer's copy ...
LEMMA BeginCopies ==
    ASSUME TypeOK, CopiesCurrent, NEW c \in Clients, Begin(c)
    PROVE  CopiesCurrent'
  <1>1. /\ UNCHANGED <<crs, cache>> /\ cache[c].exists
        /\ worker'[c].pc = "fetch" /\ worker'[c].cr = cache[c]
        /\ \A d \in Clients \ {c} : worker'[d] = worker[d] /\ live'[d] = live[d]
        /\ live'[c] = IF "cache" \in live[c] THEN live[c] \cup {"worker"}
                                             ELSE live[c] \ {"worker"}
    BY DEF Begin, Goto, TypeOK, WorkerTypes, ObjectTypes
  <1>2. "cache" \in live'[c] => "cache" \in live[c]
    BY <1>1
  <1>3. "worker" \in live'[c] => cache[c] = crs[c] /\ CopyOf(cache[c], crs[c])
    BY <1>1, CopyOfItself DEF CopiesCurrent, TypeOK, ObjectTypes
  <1> QED BY <1>1, <1>2, <1>3 DEF CopiesCurrent, At

\* ... which watch events bring up to date, as a restart does.
LEMMA SyncCopies ==
    ASSUME TypeOK, CopiesCurrent,
           (\E c \in Clients : SyncClient(c)) \/ Restart
    PROVE  CopiesCurrent'
  <1>1. ASSUME NEW c \in Clients, SyncClient(c) PROVE CopiesCurrent'
    <2>1. /\ UNCHANGED <<crs, worker>> /\ cache'[c] = crs[c]
          /\ live'[c] = live[c] \cup {"cache"}
          /\ \A d \in Clients \ {c} : cache'[d] = cache[d] /\ live'[d] = live[d]
      BY <1>1 DEF SyncClient, TypeOK, ObjectTypes
    <2> QED BY <2>1 DEF CopiesCurrent, At
  <1>2. CASE Restart
    <2>1. /\ cache' = crs /\ crs' = crs
          /\ \A d \in Clients : worker'[d].pc = "idle"
      BY <1>2 DEF Restart, Idle
    <2> QED BY <2>1 DEF CopiesCurrent, At
  <1> QED BY <1>1, <1>2

\* The calls of a reconciliation that leave the object alone.
LEMMA CallCopies ==
    ASSUME TypeOK, CopiesCurrent, NEW c \in Clients,
           \/ FetchProvider(c) \/ FetchFails(c) \/ RefreshRequeue(c)
           \/ FetchCertificate(c) \/ CertificateFails(c) \/ SkipUnchanged(c)
           \/ ApplySecret(c) \/ ApplyFails(c)
           \/ PatchConfigMap(c) \/ ConfigMapConflict(c) \/ ConfigMapFails(c)
           \/ TriggerRollout(c) \/ RolloutFails(c)
    PROVE  CopiesCurrent'
  <1>1. ~At(c, "idle") /\ UNCHANGED <<crs, cache, live>>
    BY DEF FetchProvider, FetchFails, RefreshRequeue, FetchCertificate,
           CertificateFails, SkipUnchanged, ApplySecret, ApplyFails,
           PatchConfigMap, ConfigMapConflict, ConfigMapFails, TriggerRollout,
           RolloutFails, At
  <1>2. worker[c].cr \in CR
    BY <1>1, RunningTypes
  <1>3. CASE \E next, data : Goto(c, next, worker[c].cr, data)
    BY <1>1, <1>3, MoveCopies DEF Goto
  <1>4. ASSUME NEW next, NEW data, NEW type \in ConditionTypes,
               NEW status \in {"True", "False"},
               type = "SecretSynced" => status = "False",
               Goto(c, next, SetCondition(worker[c].cr, type, status), data)
        PROVE  CopiesCurrent'
    <2> DEFINE cr == SetCondition(worker[c].cr, type, status)
               w  == [pc |-> next, cr |-> cr, data |-> data]
    <2>1. cr.exists = worker[c].cr.exists
      BY <1>2, SetConditionKeeps
    <2>2. CopyOf(worker[c].cr, crs[c]) => CopyOf(cr, crs[c])
      BY <1>2, <1>4, CopyOfKept
    <2>3. worker' = [worker EXCEPT ![c] = w] /\ w.cr = cr
      BY <1>4 DEF Goto
    <2> HIDE DEF w, cr
    <2> QED BY <1>1, <2>1, <2>2, <2>3, MoveCopies
  <1>5. CASE Finish(c)
    <2>1. Idle.pc = "idle"
      BY DEF Idle
    <2> QED BY <1>1, <1>5, <2>1, MoveCopies DEF Finish
  <1>6. /\ "AuthentikProviderFound" \in ConditionTypes
        /\ "SecretSynced" \in ConditionTypes
        /\ "ConfigMapSynced" \in ConditionTypes
        /\ "RolloutTriggered" \in ConditionTypes
    BY DEF ConditionTypes
  <1>7. CASE FetchProvider(c) \/ FetchFails(c)
    BY <1>4, <1>6, <1>7 DEF FetchProvider, FetchFails
  <1>8. CASE FetchCertificate(c) \/ CertificateFails(c) \/ ApplySecret(c)
    BY <1>3, <1>8 DEF FetchCertificate, CertificateFails, ApplySecret
  <1>9. CASE ApplyFails(c)
    BY <1>4, <1>6, <1>9 DEF ApplyFails
  <1>10. CASE PatchConfigMap(c) \/ ConfigMapConflict(c) \/ ConfigMapFails(c)
    BY <1>4, <1>6, <1>10
       DEF PatchConfigMap, ConfigMapConflict, ConfigMapFails, ConfigMapDone
  <1>11. CASE TriggerRollout(c) \/ RolloutFails(c)
    BY <1>4, <1>6, <1>11 DEF TriggerRollout, RolloutFails, RolloutDone
  <1>12. CASE RefreshRequeue(c) \/ SkipUnchanged(c)
    BY <1>5, <1>12 DEF RefreshRequeue, SkipUnchanged
  <1> QED BY <1>7, <1>8, <1>9, <1>10, <1>11, <1>12

\* The status writes of a reconciliation.
LEMMA StatusWrites ==
    ASSUME TypeOK, NEW c \in Clients,
           \/ RecordStatus(c) \/ RecordConflict(c) \/ RecordFails(c)
           \/ ReportFailure(c)
    PROVE  /\ ~At(c, "idle") /\ worker[c].cr \in CR
           /\ worker' = [worker EXCEPT ![c] = Idle]
           /\ UNCHANGED <<cache, secrets, provider>>
           /\ \/ UNCHANGED objects
              \/ /\ At(c, "record") /\ MayUpdate(c) /\ worker[c].data \in Data
                 /\ Recorded(worker[c]) \in CR
                 /\ WriteStatus(c, Recorded(worker[c]), TRUE)
              \/ /\ At(c, "report") /\ MayUpdate(c)
                 /\ WriteStatus(c, worker[c].cr, FALSE)
  <1>1. ~At(c, "idle") /\ worker[c].cr \in CR
    BY RunningTypes
       DEF RecordStatus, RecordConflict, RecordFails, ReportFailure, At
  <1>2. At(c, "record") => worker[c].data \in Data /\ Recorded(worker[c]) \in CR
    BY <1>1, RunningTypes, RecordedKeeps DEF At, HoldsData, Applied
  <1>3. worker' = [worker EXCEPT ![c] = Idle] /\ UNCHANGED <<cache, secrets, provider>>
    BY DEF RecordStatus, RecordConflict, RecordFails, ReportFailure, Finish
  <1> QED BY <1>1, <1>2, <1>3
          DEF RecordStatus, RecordConflict, RecordFails, ReportFailure, Reported

\* Every step keeps current copies true to their object.
LEMMA CopiesStep ==
    ASSUME TypeOK, CopiesCurrent, [Next]_vars
    PROVE  CopiesCurrent'
  <1>1. ASSUME NEW c \in Clients, Step(c) PROVE CopiesCurrent'
    <2>1. CASE RecordStatus(c) \/ RecordConflict(c) \/ RecordFails(c)
                  \/ ReportFailure(c)
      BY <2>1, StatusWrites, StatusCopies
    <2> QED BY <1>1, <2>1, CallCopies DEF Step
  <1>2. ASSUME NEW c \in Clients, Take(c) PROVE CopiesCurrent'
    BY <1>2, BeginCopies
       DEF Take, DropDeleted, AwaitToken, CopiesCurrent, At
  <1>3. CASE Environment
    <2>1. ASSUME NEW c \in Clients, NEW cr, ChangeCR(c, cr),
                 UNCHANGED <<cache, worker>>
          PROVE  CopiesCurrent'
      BY <2>1, ChangeCopies
    <2>2. ASSUME UNCHANGED <<objects, cache, worker>> PROVE CopiesCurrent'
      BY <2>2 DEF CopiesCurrent, At
    <2> QED BY <1>3, <2>1, <2>2
            DEF Environment, RotateProvider, EditSpec, DeleteClient, CreateClient,
                DeleteSecret
  <1>4. CASE UNCHANGED <<objects, cache, worker>>
    BY <1>4 DEF CopiesCurrent, At
  <1> QED BY <1>1, <1>2, <1>3, <1>4, SyncCopies
          DEF Next, Informers, TimerFires, SyncConfigMap, SyncWorkload, vars

\* At the start the informer's copies are current and no worker runs.
LEMMA InitCopies == Init => CopiesCurrent
  BY DEF Init, CopiesCurrent, At, Idle

\* Copies with the live resourceVersion are copies of the live object, whatever
\* users, faults and other workers do.
THEOREM CopiesAreCurrent == Spec => []CopiesCurrent
  <1>1. (TypeOK /\ CopiesCurrent) /\ [Next]_vars => (TypeOK /\ CopiesCurrent)'
    BY StepTypes, CopiesStep
  <1> QED BY <1>1, InitTypes, InitCopies, PTL DEF Spec

-----------------------------------------------------------------------------
(* NeverForgotten *)

\* A reconciliation that starts, or does not: a client whose current copy is gone
\* is gone itself.
LEMMA TakeRemembers ==
    ASSUME TypeOK, CopiesCurrent, NeverForgotten, NEW c \in Clients, Take(c)
    PROVE  NeverForgotten'
  <1>1. /\ crs' = crs /\ dirty' = dirty \ {c}
        /\ \A d \in Clients \ {c} : /\ At(d, "idle")' <=> At(d, "idle")
                                    /\ live'[d] = live[d]
        /\ delayed \subseteq delayed'
    BY DEF Take, Begin, DropDeleted, AwaitToken, Dequeue, Goto, At, TypeOK,
           WorkerTypes, ObjectTypes
  <1>2. \A d \in Clients \ {c} :
           crs'[d].exists => \/ d \in (dirty \cup delayed)'
                             \/ ~At(d, "idle")'
                             \/ "cache" \notin live'[d]
    BY <1>1 DEF NeverForgotten
  <1>3. crs'[c].exists => \/ c \in (dirty \cup delayed)'
                          \/ ~At(c, "idle")'
                          \/ "cache" \notin live'[c]
    <2>1. CASE Begin(c)
      BY <2>1 DEF Begin, Goto, At, TypeOK, WorkerTypes
    <2>2. CASE DropDeleted(c)
      BY <2>2 DEF DropDeleted, CopiesCurrent
    <2>3. CASE AwaitToken(c)
      BY <2>3 DEF AwaitToken
    <2> QED BY <2>1, <2>2, <2>3 DEF Take
  <1> QED BY <1>2, <1>3 DEF NeverForgotten

\* Every step of a reconciliation goes on with it or adds the key to the queue.
LEMMA StepRemembers ==
    ASSUME TypeOK, NeverForgotten, NEW c \in Clients, Step(c)
    PROVE  NeverForgotten'
  <1>1. /\ dirty' = dirty
        /\ \/ delayed' = delayed \cup {c}
           \/ /\ UNCHANGED <<objects, delayed>>
              /\ \E pc \in PCs \ {"idle"} : \E cr, data : Goto(c, pc, cr, data)
    <2>1. CASE FetchProvider(c) \/ FetchFails(c) \/ FetchCertificate(c)
                  \/ CertificateFails(c)
      BY <2>1 DEF FetchProvider, FetchFails, FetchCertificate, CertificateFails, PCs
    <2>2. CASE ApplySecret(c) \/ ApplyFails(c)
      BY <2>2, NextSteps DEF ApplySecret, ApplyFails, AfterApplyError, PCs
    <2>3. CASE PatchConfigMap(c) \/ ConfigMapConflict(c) \/ ConfigMapFails(c)
      BY <2>3, NextSteps
         DEF PatchConfigMap, ConfigMapConflict, ConfigMapFails, ConfigMapDone
    <2>4. CASE TriggerRollout(c) \/ RolloutFails(c)
      BY <2>4 DEF TriggerRollout, RolloutFails, RolloutDone, PCs
    <2>5. CASE RefreshRequeue(c) \/ SkipUnchanged(c)
      BY <2>5 DEF RefreshRequeue, SkipUnchanged, Finish
    <2>6. CASE RecordStatus(c) \/ RecordConflict(c) \/ RecordFails(c)
                  \/ ReportFailure(c)
      BY <2>6 DEF RecordStatus, RecordConflict, RecordFails, ReportFailure, Finish
    <2> QED BY <2>1, <2>2, <2>3, <2>4, <2>5, <2>6 DEF Step
  <1>2. \A d \in Clients \ {c} : /\ worker'[d] = worker[d]
                                 /\ crs'[d] = crs[d] /\ live'[d] = live[d]
    <2>1. CASE \/ RecordStatus(c) \/ RecordConflict(c) \/ RecordFails(c)
               \/ ReportFailure(c)
      BY <2>1, StatusWrites, WriteStatusWrites DEF TypeOK, WorkerTypes
    <2>2. CASE \/ FetchProvider(c) \/ FetchFails(c) \/ RefreshRequeue(c)
               \/ FetchCertificate(c) \/ CertificateFails(c) \/ SkipUnchanged(c)
               \/ ApplySecret(c) \/ ApplyFails(c)
               \/ PatchConfigMap(c) \/ ConfigMapConflict(c) \/ ConfigMapFails(c)
               \/ TriggerRollout(c) \/ RolloutFails(c)
      BY <2>2
         DEF FetchProvider, FetchFails, RefreshRequeue, FetchCertificate,
             CertificateFails, SkipUnchanged, ApplySecret, ApplyFails,
             PatchConfigMap, ConfigMapConflict, ConfigMapFails, ConfigMapDone,
             TriggerRollout, RolloutFails, RolloutDone, Goto, Finish, TypeOK,
             WorkerTypes
    <2> QED BY <2>1, <2>2 DEF Step
  <1>3. c \in delayed' \/ ~At(c, "idle")'
    BY <1>1 DEF Goto, At, TypeOK, WorkerTypes
  <1> QED BY <1>1, <1>2, <1>3 DEF NeverForgotten, At

\* Every step leaves each existing client with someone to look at it.
LEMMA RememberStep ==
    ASSUME TypeOK, CopiesCurrent, NeverForgotten, [Next]_vars
    PROVE  NeverForgotten'
  <1>1. ASSUME NEW c \in Clients, TimerFires(c) PROVE NeverForgotten'
    BY <1>1 DEF TimerFires, NeverForgotten, At
  <1>2. ASSUME NEW c \in Clients, SyncClient(c) PROVE NeverForgotten'
    BY <1>2 DEF SyncClient, NeverForgotten, At, TypeOK, ObjectTypes
  <1>3. CASE Restart
    BY <1>3 DEF Restart, NeverForgotten
  <1>4. ASSUME NEW c \in Clients, NEW cr, ChangeCR(c, cr),
               UNCHANGED <<dirty, delayed, worker>>
        PROVE  NeverForgotten'
    BY <1>4 DEF ChangeCR, NeverForgotten, At, TypeOK, ObjectTypes
  <1>5. CASE UNCHANGED <<objects, queue, worker>>
    BY <1>5 DEF NeverForgotten, At
  <1>6. CASE Environment
    BY <1>4, <1>5, <1>6
       DEF Environment, RotateProvider, EditSpec, DeleteClient, CreateClient,
           DeleteSecret
  <1> QED BY <1>1, <1>2, <1>3, <1>5, <1>6, TakeRemembers, StepRemembers
          DEF Next, Informers, SyncConfigMap, SyncWorkload, vars

\* No existing client is ever forgotten: whatever faults, conflicts, deletions and
\* crashes, somebody is about to look at it again.  Needs no assumption on specs.
THEOREM NobodyIsForgotten == Spec => []NeverForgotten
  <1> DEFINE Inv == TypeOK /\ CopiesCurrent /\ NeverForgotten
  <1>1. Init => Inv
    BY InitTypes, InitCopies DEF Init, NeverForgotten
  <1>2. Inv /\ [Next]_vars => Inv'
    BY StepTypes, CopiesStep, RememberStep
  <1>3. Inv => NeverForgotten
    OBVIOUS
  <1> HIDE DEF Inv
  <1> QED BY <1>1, <1>2, <1>3, PTL DEF Spec

-----------------------------------------------------------------------------
(* SyncedGeneration *)

\* Data under way is built for the copy's spec and never changes shape.
LEMMA ShapeStep ==
    ASSUME TypeOK, DataOfSpec, [Next]_vars
    PROVE  DataOfSpec'
  <1>1. ASSUME NEW c \in Clients, NEW w, worker' = [worker EXCEPT ![c] = w],
               w.pc \in HoldsData => w.data.shape = w.cr.spec.shape
        PROVE  DataOfSpec'
    <2>1. worker'[c] = w /\ \A d \in Clients \ {c} : worker'[d] = worker[d]
      BY <1>1 DEF TypeOK, WorkerTypes
    <2> QED BY <1>1, <2>1 DEF DataOfSpec
  <1>2. ASSUME NEW c \in Clients, NEW pc, NEW cr, NEW data, Goto(c, pc, cr, data),
               pc \in HoldsData => data.shape = cr.spec.shape
        PROVE  DataOfSpec'
    BY <1>1, <1>2 DEF Goto
  <1>3. Idle.pc \notin HoldsData /\ "fetch" \notin HoldsData /\ "report" \notin HoldsData
    BY DEF Idle, HoldsData, Applied
  <1>4. ASSUME NEW c \in Clients, Step(c) PROVE DataOfSpec'
    <2>0. ~At(c, "idle")
      BY <1>4 DEF Step, FetchProvider, FetchFails, RefreshRequeue, FetchCertificate,
              CertificateFails, SkipUnchanged, ApplySecret, ApplyFails,
              PatchConfigMap, ConfigMapConflict, ConfigMapFails, TriggerRollout,
              RolloutFails, RecordStatus, RecordConflict, RecordFails,
              ReportFailure, At
    <2>1. /\ worker[c].cr \in CR /\ worker[c].cr.spec \in SpecRecord
          /\ worker[c].pc \in HoldsData
               => /\ worker[c].data \in Data
                  /\ worker[c].data.shape = worker[c].cr.spec.shape
      BY <2>0, RunningTypes DEF DataOfSpec
    <2>2. \A type \in ConditionTypes, status \in {"True", "False"} :
             SetCondition(worker[c].cr, type, status).spec = worker[c].cr.spec
      BY <2>1, SetConditionKeeps
    <2>3. /\ "AuthentikProviderFound" \in ConditionTypes
          /\ "SecretSynced" \in ConditionTypes
          /\ "ConfigMapSynced" \in ConditionTypes
          /\ "RolloutTriggered" \in ConditionTypes
      BY DEF ConditionTypes
    <2>4. CASE FetchProvider(c)
      <3>1. Build(worker[c].cr.spec).shape = worker[c].cr.spec.shape
        BY <2>1, BuildType DEF TypeOK
      <3> QED BY <1>2, <2>2, <2>3, <2>4, <3>1 DEF FetchProvider
    <2>5. CASE FetchFails(c)
      BY <1>2, <1>3, <2>5 DEF FetchFails
    <2>6. CASE FetchCertificate(c)
      <3>1. [worker[c].data EXCEPT !.cert = TRUE].shape = worker[c].cr.spec.shape
        BY <2>1, <2>6 DEF FetchCertificate, At, HoldsData, Data
      <3> QED BY <1>2, <2>6, <3>1 DEF FetchCertificate
    <2>7. CASE CertificateFails(c)
      BY <1>2, <2>1, <2>7 DEF CertificateFails, At, HoldsData
    <2>8. CASE ApplySecret(c)
      BY <1>2, <2>1, <2>8 DEF ApplySecret, At, HoldsData
    <2>9. CASE ApplyFails(c)
      BY <1>2, <1>3, <2>9 DEF ApplyFails, AfterApplyError
    <2>10. CASE PatchConfigMap(c) \/ ConfigMapConflict(c) \/ ConfigMapFails(c)
      BY <1>2, <2>1, <2>2, <2>3, <2>10
         DEF PatchConfigMap, ConfigMapConflict, ConfigMapFails, ConfigMapDone,
             At, HoldsData, Applied
    <2>11. CASE TriggerRollout(c) \/ RolloutFails(c)
      BY <1>2, <2>1, <2>2, <2>3, <2>11
         DEF TriggerRollout, RolloutFails, RolloutDone, At, HoldsData, Applied
    <2>12. CASE Finish(c)
      BY <1>1, <1>3, <2>12 DEF Finish
    <2> QED BY <1>4, <2>4, <2>5, <2>6, <2>7, <2>8, <2>9, <2>10, <2>11, <2>12
            DEF Step, RefreshRequeue, SkipUnchanged, RecordStatus, RecordConflict,
                RecordFails, ReportFailure
  <1>5. ASSUME NEW c \in Clients, Begin(c) PROVE DataOfSpec'
    BY <1>2, <1>3, <1>5 DEF Begin
  <1>6. CASE Restart
    BY <1>3, <1>6 DEF Restart, DataOfSpec
  <1>7. CASE UNCHANGED worker
    BY <1>7 DEF DataOfSpec
  <1> QED BY <1>4, <1>5, <1>6, <1>7
          DEF Next, vars, Take, DropDeleted, AwaitToken, TimerFires, Informers,
              SyncClient, SyncConfigMap, SyncWorkload, Environment,
              RotateProvider, EditSpec, DeleteClient, CreateClient, DeleteSecret

\* Nothing happens to the object, its copies keep their spec, and its Secret is
\* left alone or given data of the spec of its own worker.
LEMMA SyncedKept ==
    ASSUME TypeOK, SyncedStays, UNCHANGED <<crs, cache>>,
           \A d \in Clients :
              ~At(d, "idle")' => \/ /\ ~At(d, "idle")
                                    /\ worker'[d].cr.spec = worker[d].cr.spec
                                 \/ worker'[d].cr.spec = cache[d].spec,
           \A d \in Clients : \A s \in SpecsOf[d] :
              \/ HeldBy(s)' = HeldBy(s)
              \/ /\ ~At(d, "idle")
                 /\ HeldBy(s)' # None
                 /\ HeldBy(s)'.owner = d
                 /\ HeldBy(s)'.data.shape = worker[d].cr.spec.shape
              \/ s.target # crs[d].spec.target
    PROVE  SyncedStays'
  <1> SUFFICES ASSUME NEW d \in Clients
               PROVE  /\ SyncedCond(crs[d]).gen <= crs[d].gen
                      /\ Synced(crs[d]) =>
                            /\ cache[d].spec = crs[d].spec
                            /\ ~At(d, "idle")' => worker'[d].cr.spec = crs[d].spec
                            /\ HeldBy(crs[d].spec)' # None
                            /\ HeldBy(crs[d].spec)'.owner = d
                            /\ HeldBy(crs[d].spec)'.data.shape = crs[d].spec.shape
    BY DEF SyncedStays, HeldBy
  <1>1. crs[d].spec \in SpecsOf[d]
    BY DEF TypeOK, ObjectTypes
  <1> QED BY <1>1 DEF SyncedStays

\* Recording the outcome for a live copy makes it hold.
LEMMA RecordSynced ==
    ASSUME TypeOK, CopiesCurrent, DataOfSpec, DataApplied, SyncedStays,
           NEW c \in Clients,
           \/ RecordStatus(c) \/ RecordConflict(c) \/ RecordFails(c)
           \/ ReportFailure(c)
    PROVE  SyncedStays'
  <1>1. /\ ~At(c, "idle") /\ worker[c].cr \in CR
        /\ worker' = [worker EXCEPT ![c] = Idle]
        /\ UNCHANGED <<cache, secrets, provider>>
    BY StatusWrites
  <1>2. /\ worker'[c].pc = "idle"
        /\ \A d \in Clients \ {c} : worker'[d] = worker[d]
    BY <1>1 DEF TypeOK, WorkerTypes, Idle
  <1>3. CASE UNCHANGED objects
    BY <1>1, <1>2, <1>3, SyncedKept DEF HeldBy, At
  <1>4. ASSUME NEW cr \in CR, NEW touched, WriteStatus(c, cr, touched),
               MayUpdate(c), SyncedCond(cr).gen <= crs[c].gen,
               SyncedCond(cr) = [status |-> "True", gen |-> crs[c].gen]
                  => \/ Synced(crs[c])
                     \/ /\ HeldBy(crs[c].spec) # None
                        /\ HeldBy(crs[c].spec).owner = c
                        /\ HeldBy(crs[c].spec).data.shape = crs[c].spec.shape
        PROVE  SyncedStays'
    <2>1. /\ \A d \in Clients \ {c} : crs'[d] = crs[d]
          /\ crs'[c].gen = crs[c].gen /\ crs'[c].spec = crs[c].spec
          /\ crs'[c].conds = cr.conds
      BY <1>4, WriteStatusWrites DEF TypeOK
    <2>2. SyncedCond(crs'[c]) = SyncedCond(cr)
      BY <2>1 DEF SyncedCond
    <2>3. cache[c].spec = crs[c].spec
      BY <1>1, <1>4 DEF CopiesCurrent, MayUpdate
    <2>4. \A d \in Clients \ {c} :
             /\ SyncedCond(crs'[d]).gen <= crs'[d].gen
             /\ Synced(crs'[d]) =>
                   /\ cache'[d].spec = crs'[d].spec
                   /\ worker'[d].pc # "idle" => worker'[d].cr.spec = crs'[d].spec
                   /\ secrets'[crs'[d].spec.target] # None
                   /\ secrets'[crs'[d].spec.target].owner = d
                   /\ secrets'[crs'[d].spec.target].data.shape = crs'[d].spec.shape
      BY <1>1, <1>2, <2>1 DEF SyncedStays, At, HeldBy
    <2>5. /\ SyncedCond(crs'[c]).gen <= crs'[c].gen
          /\ Synced(crs'[c]) =>
                /\ cache'[c].spec = crs'[c].spec
                /\ secrets'[crs'[c].spec.target] # None
                /\ secrets'[crs'[c].spec.target].owner = c
                /\ secrets'[crs'[c].spec.target].data.shape = crs'[c].spec.shape
      BY <1>1, <1>4, <2>1, <2>2, <2>3 DEF SyncedStays, Synced, HeldBy
    <2> QED BY <1>2, <2>4, <2>5 DEF SyncedStays, At, HeldBy
  <1>5. CASE /\ At(c, "record") /\ MayUpdate(c) /\ worker[c].data \in Data
             /\ Recorded(worker[c]) \in CR
             /\ WriteStatus(c, Recorded(worker[c]), TRUE)
    <2>1. /\ worker[c].cr.gen = crs[c].gen /\ worker[c].cr.spec = crs[c].spec
          /\ crs[c].gen \in Nat
      BY <1>1, <1>5, Fields DEF CopiesCurrent, CopyOf, MayUpdate, TypeOK, ObjectTypes
    <2>2. SyncedCond(Recorded(worker[c])) = [status |-> "True", gen |-> crs[c].gen]
      BY <1>1, <1>5, <2>1, RecordedConds
    <2>3. /\ HeldBy(crs[c].spec) = [owner |-> c, data |-> worker[c].data]
          /\ worker[c].data.shape = crs[c].spec.shape
      BY <1>5, <2>1 DEF DataApplied, DataOfSpec, At, Applied, HoldsData
    <2>4. HeldBy(crs[c].spec) # None
      BY <1>5, <2>3, NoneAssumption
    <2>5. SyncedCond(Recorded(worker[c])).gen <= crs[c].gen
      BY <2>1, <2>2
    <2>6. /\ HeldBy(crs[c].spec).owner = c
          /\ HeldBy(crs[c].spec).data.shape = crs[c].spec.shape
      BY <2>3
    <2> QED BY <1>4, <1>5, <2>4, <2>5, <2>6
  <1>6. CASE At(c, "report") /\ MayUpdate(c) /\ WriteStatus(c, worker[c].cr, FALSE)
    <2>1. CopyOf(worker[c].cr, crs[c]) /\ crs[c].gen \in Nat
      BY <1>1, <1>6, Fields DEF CopiesCurrent, MayUpdate, TypeOK, ObjectTypes
    <2>2. \/ SyncedCond(worker[c].cr) = SyncedCond(crs[c])
          \/ SyncedCond(worker[c].cr) = [status |-> "False", gen |-> crs[c].gen]
      BY <2>1 DEF CopyOf
    <2>3. SyncedCond(worker[c].cr).gen <= crs[c].gen
      BY <2>1, <2>2 DEF SyncedStays
    <2>4. SyncedCond(worker[c].cr) = [status |-> "True", gen |-> crs[c].gen]
             => Synced(crs[c])
      BY <2>2 DEF Synced
    <2> QED BY <1>1, <1>4, <1>6, <2>3, <2>4
  <1> QED BY <1>3, <1>5, <1>6, StatusWrites

\* A write of a client's Secret, seen through every spec of every client.
LEMMA WriteSecretSeen ==
    ASSUME TypeOK, DisjointTargets, NEW c \in Clients,
           worker[c].pc \in HoldsData, WriteSecret(c),
           NEW d \in Clients, NEW s \in SpecsOf[d]
    PROVE  \/ HeldBy(s)' = HeldBy(s)
           \/ /\ d = c
              /\ HeldBy(s)' # None
              /\ HeldBy(s)' = [owner |-> c, data |-> worker[c].data]
  <1>1. /\ ~At(c, "idle") /\ worker[c].data \in Data
        /\ worker[c].cr.spec \in SpecsOf[c] /\ worker[c].cr.spec.target \in Secrets
    BY RunningTypes DEF At, HoldsData, Applied, SpecRecord
  <1> DEFINE new == [owner |-> c, data |-> worker[c].data]
  <1>2. new # None
    BY <1>1, NoneAssumption
  <1> HIDE DEF new
  <1>3. \A k \in Secrets :
           secrets'[k] = IF k = worker[c].cr.spec.target THEN new ELSE secrets[k]
    BY DEF WriteSecret, TypeOK, TargetTypes, new
  <1>4. s.target \in Secrets
    BY SpecsTyped DEF SpecRecord
  <1>5. CASE d = c
    BY <1>2, <1>3, <1>4, <1>5 DEF HeldBy, new
  <1>6. CASE d # c
    BY <1>1, <1>6, OthersUntouched
  <1> QED BY <1>5, <1>6

\* A new object has SecretSynced for no generation.
LEMMA NewCRSynced ==
    ASSUME NEW s
    PROVE  /\ SyncedCond(NewCR(s)).gen <= NewCR(s).gen
           /\ ~Synced(NewCR(s))
  <1>1. "SecretSynced" \in ConditionTypes
    BY DEF ConditionTypes
  <1>2. SyncedCond(NewCR(s)) = [status |-> "Unknown", gen |-> 0]
    BY <1>1 DEF SyncedCond, NewCR, NoConditions
  <1> QED BY <1>2 DEF Synced, NewCR

\* Every step keeps SecretSynced of the current generation true.
LEMMA SyncedStep ==
    ASSUME TypeOK, CopiesCurrent, DataOfSpec, DataApplied, SyncedStays,
           DisjointTargets, "secretDeleted" \notin Env, [Next]_vars
    PROVE  SyncedStays'
  <1>1. ASSUME NEW c \in Clients, Step(c) PROVE SyncedStays'
    <2>1. CASE \/ RecordStatus(c) \/ RecordConflict(c) \/ RecordFails(c)
               \/ ReportFailure(c)
      BY <2>1, RecordSynced
    <2>2. CASE \/ FetchProvider(c) \/ FetchFails(c) \/ RefreshRequeue(c)
               \/ FetchCertificate(c) \/ CertificateFails(c) \/ SkipUnchanged(c)
               \/ ApplySecret(c) \/ ApplyFails(c)
               \/ PatchConfigMap(c) \/ ConfigMapConflict(c) \/ ConfigMapFails(c)
               \/ TriggerRollout(c) \/ RolloutFails(c)
      <3>1. /\ ~At(c, "idle") /\ worker[c].cr \in CR /\ UNCHANGED <<crs, cache>>
        BY <2>2, RunningTypes
           DEF FetchProvider, FetchFails, RefreshRequeue, FetchCertificate,
               CertificateFails, SkipUnchanged, ApplySecret, ApplyFails,
               PatchConfigMap, ConfigMapConflict, ConfigMapFails, TriggerRollout,
               RolloutFails, At
      <3>2. \A type \in ConditionTypes, status \in {"True", "False"} :
               SetCondition(worker[c].cr, type, status).spec = worker[c].cr.spec
        BY <3>1, SetConditionKeeps
      <3>3. \/ worker' = [worker EXCEPT ![c] = Idle]
            \/ \E pc, cr, data : /\ Goto(c, pc, cr, data)
                                 /\ cr.spec = worker[c].cr.spec
        BY <2>2, <3>2
           DEF FetchProvider, FetchFails, RefreshRequeue, FetchCertificate,
               CertificateFails, SkipUnchanged, ApplySecret, ApplyFails,
               PatchConfigMap, ConfigMapConflict, ConfigMapFails, ConfigMapDone,
               TriggerRollout, RolloutFails, RolloutDone, Finish, ConditionTypes
      <3>4. \A d \in Clients :
               worker'[d].pc # "idle" => /\ worker[d].pc # "idle"
                                         /\ worker'[d].cr.spec = worker[d].cr.spec
        BY <3>1, <3>3 DEF Goto, Idle, TypeOK, WorkerTypes, At
      <3>5. UNCHANGED secrets \/ (worker[c].pc \in HoldsData /\ WriteSecret(c))
        BY <2>2
           DEF FetchProvider, FetchFails, RefreshRequeue, FetchCertificate,
               CertificateFails, SkipUnchanged, ApplySecret, ApplyFails,
               PatchConfigMap, ConfigMapConflict, ConfigMapFails, TriggerRollout,
               RolloutFails, At, HoldsData
      <3>6. ASSUME NEW d \in Clients, NEW s \in SpecsOf[d]
            PROVE  \/ HeldBy(s)' = HeldBy(s)
                   \/ /\ ~At(d, "idle")
                      /\ HeldBy(s)' # None
                      /\ HeldBy(s)'.owner = d
                      /\ HeldBy(s)'.data.shape = worker[d].cr.spec.shape
        <4>1. CASE UNCHANGED secrets
          BY <4>1 DEF HeldBy
        <4>2. CASE worker[c].pc \in HoldsData /\ WriteSecret(c)
          <5>1. worker[c].data.shape = worker[c].cr.spec.shape
            BY <4>2 DEF DataOfSpec
          <5> QED BY <3>1, <4>2, <5>1, WriteSecretSeen
        <4> QED BY <3>5, <4>1, <4>2
      <3> QED BY <3>1, <3>4, <3>6, SyncedKept DEF At
    <2> QED BY <1>1, <2>1, <2>2 DEF Step
  <1>2. ASSUME NEW c \in Clients, Begin(c) PROVE SyncedStays'
    <2>1. /\ UNCHANGED <<crs, cache, secrets>>
          /\ worker'[c].cr = cache[c]
          /\ \A d \in Clients \ {c} : worker'[d] = worker[d]
      BY <1>2 DEF Begin, Goto, TypeOK, WorkerTypes
    <2> QED BY <2>1, SyncedKept DEF HeldBy, At
  <1>3. CASE UNCHANGED <<crs, cache, worker, secrets>>
    BY <1>3, SyncedKept DEF HeldBy, At
  <1>4. ASSUME NEW c \in Clients, SyncClient(c) PROVE SyncedStays'
    <2>1. /\ UNCHANGED <<crs, worker, secrets>> /\ cache'[c] = crs[c]
          /\ \A d \in Clients \ {c} : cache'[d] = cache[d]
      BY <1>4 DEF SyncClient, TypeOK, ObjectTypes
    <2> QED BY <2>1 DEF SyncedStays, HeldBy, At
  <1>5. CASE Restart
    <2>1. /\ cache' = crs /\ UNCHANGED <<crs, secrets>>
          /\ \A d \in Clients : worker'[d].pc = "idle"
      BY <1>5 DEF Restart, Idle
    <2> QED BY <2>1 DEF SyncedStays, HeldBy, At
  <1>6. ASSUME NEW c \in Clients, NEW cr, ChangeCR(c, cr),
               UNCHANGED <<cache, worker, secrets>>,
               SyncedCond(cr).gen <= cr.gen,
               Synced(cr) => Synced(crs[c]) /\ cr.spec = crs[c].spec
        PROVE  SyncedStays'
    <2>1. crs'[c] = cr /\ \A d \in Clients \ {c} : crs'[d] = crs[d]
      BY <1>6 DEF ChangeCR, TypeOK, ObjectTypes
    <2>2. ASSUME NEW d \in Clients
          PROVE  /\ SyncedCond(crs'[d]).gen <= crs'[d].gen
                 /\ Synced(crs'[d]) =>
                       /\ cache'[d].spec = crs'[d].spec
                       /\ worker'[d].pc # "idle" => worker'[d].cr.spec = crs'[d].spec
                       /\ secrets'[crs'[d].spec.target] # None
                       /\ secrets'[crs'[d].spec.target].owner = d
                       /\ secrets'[crs'[d].spec.target].data.shape = crs'[d].spec.shape
      BY <1>6, <2>1 DEF SyncedStays, HeldBy, At
    <2> QED BY <2>2 DEF SyncedStays, HeldBy, At
  <1>7. ASSUME NEW c \in Clients, NEW s \in SpecsOf[c], EditSpec(c, s)
        PROVE  SyncedStays'
    <2> DEFINE new == [crs[c] EXCEPT !.spec = s, !.gen = crs[c].gen + 1]
    <2>1. crs[c] \in CR /\ crs[c].gen \in Nat
      BY Fields DEF TypeOK, ObjectTypes
    <2>2. new.gen = crs[c].gen + 1 /\ new.conds = crs[c].conds
      BY <2>1 DEF CR
    <2>3. ChangeCR(c, new) /\ UNCHANGED <<cache, worker, secrets>>
      BY <1>7 DEF EditSpec
    <2> HIDE DEF new
    <2>4. SyncedCond(new) = SyncedCond(crs[c])
      BY <2>2 DEF SyncedCond
    <2>5. SyncedCond(crs[c]).gen \in Nat /\ SyncedCond(crs[c]).gen <= crs[c].gen
      <3>1. "SecretSynced" \in ConditionTypes
        BY DEF ConditionTypes
      <3>2. SyncedCond(crs[c]) \in [status: {"Unknown", "True", "False"}, gen: Nat]
        BY <2>1, <3>1, Fields DEF SyncedCond, Conditions
      <3> QED BY <3>2 DEF SyncedStays
    <2>6. SyncedCond(new).gen <= new.gen /\ ~Synced(new)
      BY <2>1, <2>2, <2>4, <2>5 DEF Synced
    <2> QED BY <1>6, <2>3, <2>6
  <1>8. ASSUME NEW c \in Clients, DeleteClient(c)
        PROVE  SyncedStays'
    <2> DEFINE new == [crs[c] EXCEPT !.exists = FALSE]
    <2>1. /\ new.gen = crs[c].gen /\ new.conds = crs[c].conds
          /\ new.spec = crs[c].spec
      BY DEF TypeOK, ObjectTypes, CR
    <2>2. ChangeCR(c, new) /\ UNCHANGED <<cache, worker, secrets>>
      BY <1>8 DEF DeleteClient
    <2> HIDE DEF new
    <2>3. SyncedCond(new) = SyncedCond(crs[c])
      BY <2>1 DEF SyncedCond
    <2>4. SyncedCond(new).gen <= new.gen /\ (Synced(new) => Synced(crs[c]))
      BY <2>1, <2>3 DEF Synced, SyncedStays
    <2> QED BY <1>6, <2>1, <2>2, <2>4
  <1>9. ASSUME NEW c \in Clients, NEW s \in SpecsOf[c], CreateClient(c, s)
        PROVE  SyncedStays'
    <2>1. ChangeCR(c, NewCR(s)) /\ UNCHANGED <<cache, worker, secrets>>
      BY <1>9 DEF CreateClient
    <2>2. /\ SyncedCond(NewCR(s)).gen <= NewCR(s).gen /\ ~Synced(NewCR(s))
      BY NewCRSynced
    <2> QED BY <1>6, <2>1, <2>2
  <1>10. ASSUME NEW k \in Secrets, DeleteSecret(k) PROVE FALSE
    BY <1>10 DEF DeleteSecret, Fault
  <1> QED
    BY <1>1, <1>2, <1>3, <1>4, <1>5, <1>7, <1>8, <1>9, <1>10
       DEF Next, vars, Take, DropDeleted, AwaitToken, TimerFires, Informers,
           SyncConfigMap, SyncWorkload, Environment, RotateProvider

\* SecretSynced = True with the current generation means that the Secret the spec
\* names carries data of that spec, for clients with disjoint targets that nobody
\* deletes, whatever edits, reversals, crashes, conflicts and lost answers.
THEOREM SyncedIsOfGeneration ==
    ASSUME DisjointTargets, "secretDeleted" \notin Env
    PROVE  Spec => []SyncedGeneration
  <1> DEFINE Inv == /\ TypeOK /\ DataApplied /\ CopiesCurrent /\ DataOfSpec
                    /\ SyncedStays
  <1>1. Init => Inv
    <2> SUFFICES ASSUME Init PROVE Inv
      OBVIOUS
    <2>1. TypeOK /\ CopiesCurrent
      BY InitTypes, InitCopies
    <2>2. DataApplied /\ DataOfSpec
      BY DEF Init, DataApplied, DataOfSpec, Idle, HoldsData, Applied
    <2>3. SyncedStays
      <3>1. PICK f : crs = [c \in Clients |-> NewCR(f[c])]
        BY DEF Init
      <3>2. \A c \in Clients : SyncedCond(crs[c]).gen <= crs[c].gen /\ ~Synced(crs[c])
        BY <3>1, NewCRSynced
      <3> QED BY <3>2 DEF SyncedStays
    <2> QED BY <2>1, <2>2, <2>3
  <1>2. Inv /\ [Next]_vars => Inv'
    BY StepTypes, DataAppliedStep, CopiesStep, ShapeStep, SyncedStep
  <1>3. Inv => SyncedGeneration
    BY DEF SyncedGeneration, SyncedStays
  <1> HIDE DEF Inv
  <1> QED BY <1>1, <1>2, <1>3, PTL DEF Spec

-----------------------------------------------------------------------------
(* RecordedIsHeld *)

\* A status write changes the recorded hash only at the end of a reconciliation,
\* to the data that the Secret has held since its apply.
LEMMA StatusRecordsHeld ==
    ASSUME TypeOK, CopiesCurrent, DataApplied, NEW c \in Clients,
           \/ RecordStatus(c) \/ RecordConflict(c) \/ RecordFails(c)
           \/ ReportFailure(c)
    PROVE  /\ \A d \in Clients \ {c} : crs'[d].hash = crs[d].hash
           /\ crs'[c].hash # crs[c].hash
                 => HeldBy(crs[c].spec) = [owner |-> c, data |-> crs'[c].hash]
  <1>1. ~At(c, "idle") /\ worker[c].cr \in CR
    BY StatusWrites, RunningTypes
  <1>2. ASSUME MayUpdate(c)
        PROVE  worker[c].cr.spec = crs[c].spec /\ worker[c].cr.hash = crs[c].hash
    BY <1>1, <1>2 DEF CopiesCurrent, MayUpdate, CopyOf
  <1>3. CASE UNCHANGED objects
    BY <1>3
  <1>4. CASE /\ At(c, "report") /\ MayUpdate(c)
             /\ WriteStatus(c, worker[c].cr, FALSE)
    BY <1>1, <1>2, <1>4, WriteStatusWrites DEF TypeOK
  <1>5. CASE /\ At(c, "record") /\ MayUpdate(c) /\ worker[c].data \in Data
             /\ Recorded(worker[c]) \in CR
             /\ WriteStatus(c, Recorded(worker[c]), TRUE)
    <2>1. /\ \A d \in Clients \ {c} : crs'[d] = crs[d]
          /\ crs'[c].hash = Recorded(worker[c]).hash
      BY <1>5, WriteStatusWrites DEF TypeOK
    <2>2. Recorded(worker[c]).hash = worker[c].data
      BY <1>1, <1>5, RecordedKeeps
    <2>3. HeldBy(worker[c].cr.spec) = [owner |-> c, data |-> worker[c].data]
      BY <1>5 DEF DataApplied, At, Applied
    <2> QED BY <1>2, <1>5, <2>1, <2>2, <2>3
  <1> QED BY <1>3, <1>4, <1>5, StatusWrites

\* No other step records a hash: users edit the spec or start an empty status.
LEMMA HashStep ==
    ASSUME TypeOK, CopiesCurrent, DataApplied, [Next]_vars, NEW c \in Clients,
           crs'[c].hash # crs[c].hash, crs'[c].hash # None
    PROVE  HeldBy(crs[c].spec) = [owner |-> c, data |-> crs'[c].hash]
  <1>1. crs \in [Clients -> CR]
    BY DEF TypeOK, ObjectTypes
  <1>2. ASSUME NEW d \in Clients, NEW s \in SpecsOf[d],
               EditSpec(d, s) \/ CreateClient(d, s) \/ DeleteClient(d)
        PROVE  FALSE
    <2>1. PICK new : crs' = [crs EXCEPT ![d] = new] /\ new.hash \in {crs[d].hash, None}
      <3>1. CASE EditSpec(d, s)
        BY <1>1, <3>1 DEF EditSpec, ChangeCR, CR
      <3>2. CASE CreateClient(d, s)
        BY <3>2 DEF CreateClient, ChangeCR, NewCR
      <3>3. CASE DeleteClient(d)
        BY <1>1, <3>3 DEF DeleteClient, ChangeCR, CR
      <3> QED BY <1>2, <3>1, <3>2, <3>3
    <2> QED BY <1>1, <2>1
  <1>3. \A d \in Clients : crs[d].spec \in SpecsOf[d]
    BY DEF TypeOK, ObjectTypes
  <1>4. PICK d \in Clients : \/ RecordStatus(d) \/ RecordConflict(d)
                             \/ RecordFails(d) \/ ReportFailure(d)
    BY <1>2, <1>3
       DEF Next, vars, Take, Begin, DropDeleted, AwaitToken, Step, TimerFires,
           Informers, SyncClient, SyncConfigMap, SyncWorkload, Restart,
           Environment, RotateProvider, DeleteSecret, FetchProvider, FetchFails,
           RefreshRequeue, FetchCertificate, CertificateFails, SkipUnchanged,
           ApplySecret, ApplyFails, PatchConfigMap, ConfigMapConflict,
           ConfigMapFails, TriggerRollout, RolloutFails
  <1> QED BY <1>4, StatusRecordsHeld

\* A hash enters the status only while the Secret of the current spec holds its
\* data, for clients that do not share Secrets and that nobody deletes, whatever
\* edits, reversals, crashes, conflicts and lost answers.
THEOREM RecordedHashIsHeld ==
    ASSUME DisjointTargets, "secretDeleted" \notin Env
    PROVE  Spec => RecordedIsHeld
  <1> DEFINE Inv == TypeOK /\ CopiesCurrent /\ DataApplied
             Held == \A c \in Clients :
                        crs'[c].hash # crs[c].hash /\ crs'[c].hash # None
                           => HeldBy(crs[c].spec)
                                 = [owner |-> c, data |-> crs'[c].hash]
  <1>1. Init => Inv
    <2>1. Init => DataApplied
      BY DEF Init, DataApplied, Idle, Applied
    <2> QED BY <2>1, InitTypes, InitCopies
  <1>2. Inv /\ [Next]_vars => Inv'
    BY StepTypes, CopiesStep, DataAppliedStep
  <1>3. Inv /\ [Next]_vars => [Held]_crs
    BY HashStep
  <1> HIDE DEF Inv
  <1> QED BY <1>1, <1>2, <1>3, PTL DEF Spec, RecordedIsHeld

-----------------------------------------------------------------------------
(* ConditionsBacked: the targets other than the Secret *)

\* Setting a condition sets it ...
LEMMA SetConditionThis ==
    ASSUME NEW cr \in CR, NEW type \in ConditionTypes,
           NEW status \in {"True", "False"}
    PROVE  SetCondition(cr, type, status).conds[type] =
              [status |-> status, gen |-> cr.gen]
  <1> DEFINE cond == [status |-> status, gen |-> cr.gen]
             new  == [cr.conds EXCEPT ![type] = cond]
  <1>1. new[type] = cond
    BY Fields DEF Conditions
  <1>2. SetCondition(cr, type, status) = [cr EXCEPT !.conds = new]
    BY DEF SetCondition
  <1> HIDE DEF new
  <1> QED BY <1>1, <1>2 DEF CR

\* ... and leaves the others.
LEMMA SetConditionOther ==
    ASSUME NEW cr \in CR, NEW type, NEW status, NEW t \in ConditionTypes, t # type
    PROVE  SetCondition(cr, type, status).conds[t] = cr.conds[t]
  <1> DEFINE new == [cr.conds EXCEPT ![type] = [status |-> status, gen |-> cr.gen]]
  <1>1. new[t] = cr.conds[t]
    BY Fields DEF Conditions
  <1>2. SetCondition(cr, type, status) = [cr EXCEPT !.conds = new]
    BY DEF SetCondition
  <1> HIDE DEF new
  <1> QED BY <1>1, <1>2 DEF CR

\* No step takes a client's Secret away or puts older data into it.
LEMMA SecretGrows ==
    ASSUME InOrder, ExclusiveTargets, ForwardOnly, [Next]_vars,
           NEW c \in Clients, NEW s \in SpecsOf[c],
           NEW d \in Data, HeldBy(s) # None, Precedes(d, HeldBy(s).data)
    PROVE  /\ secrets'[s.target] # None
           /\ Precedes(d, secrets'[s.target].data)
  <1>1. s.target \in Secrets /\ HeldBy(s).data \in Data
    BY HeldType DEF InOrder
  <1>2. secrets'[s.target] # None
    <2>1. \A k \in Secrets : ~DeleteSecret(k)
      BY DEF DeleteSecret, Fault, ForwardOnly
    <2>2. \/ UNCHANGED secrets
          \/ \E e \in Clients : At(e, "built") /\ WriteSecret(e)
      BY <2>1
         DEF Next, Take, Begin, DropDeleted, AwaitToken, Step, FetchProvider,
             FetchFails, RefreshRequeue, FetchCertificate, CertificateFails,
             SkipUnchanged, ApplySecret, ApplyFails, PatchConfigMap,
             ConfigMapConflict, ConfigMapFails, TriggerRollout, RolloutFails,
             RecordStatus, RecordConflict, RecordFails, ReportFailure, TimerFires,
             Informers, SyncClient, SyncConfigMap, SyncWorkload, Restart,
             Environment, RotateProvider, EditSpec, DeleteClient, CreateClient, vars
    <2>3. ASSUME NEW e \in Clients, At(e, "built"), WriteSecret(e)
          PROVE  secrets'[s.target] # None
      <3>1. /\ worker[e].data \in Data
            /\ worker[e].cr.spec.target \in Secrets
        BY <2>3, RunningTypes DEF At, HoldsData, InOrder, SpecRecord
      <3>2. [owner |-> e, data |-> worker[e].data] # None
        BY <3>1, NoneAssumption
      <3> QED BY <1>1, <2>3, <3>1, <3>2
              DEF WriteSecret, HeldBy, InOrder, TypeOK, TargetTypes
    <2> QED BY <2>2, <2>3 DEF HeldBy
  <1>3. Precedes(HeldBy(s).data, secrets'[s.target].data)
    BY <1>1, <1>2, InOrderForward DEF HeldBy
  <1>4. secrets'[s.target].data \in Data
    BY <1>1, <1>2, StepTypes DEF InOrder, TypeOK, TargetTypes
  <1> QED BY <1>1, <1>2, <1>3, <1>4, PrecedesTransitive

\* A worker past the apply carries what every spec of its client sees applied.
LEMMA AppliedSeen ==
    ASSUME InOrder, ExclusiveTargets, NEW c \in Clients,
           worker[c].pc \in Applied, NEW s \in SpecsOf[c]
    PROVE  /\ worker[c].data \in Data /\ Complete(worker[c].data)
           /\ HeldBy(s) # None /\ HeldBy(s).data = worker[c].data
  <1>1. /\ ~At(c, "idle") /\ worker[c].pc \in HoldsData /\ worker[c].pc # "cert"
        /\ worker[c].cr.spec \in SpecsOf[c] /\ worker[c].data \in Data
    BY RunningTypes DEF At, HoldsData, Applied, InOrder
  <1>2. HeldBy(worker[c].cr.spec) = [owner |-> c, data |-> worker[c].data]
    BY DEF InOrder, Chain, DataApplied
  <1>3. HeldBy(s) = HeldBy(worker[c].cr.spec)
    BY <1>1 DEF ExclusiveTargets, HeldBy
  <1>4. [owner |-> c, data |-> worker[c].data] # None
    BY <1>1, NoneAssumption
  <1> QED BY <1>1, <1>2, <1>3, <1>4 DEF InOrder, Chain, DataInOrder

\* What the proof holds on to.
OutcomesInv == InOrder /\ CopiesCurrent /\ FreshIsCurrent /\ OutcomesInOrder

\* A client's ConfigMap key changes only at its own worker's call, to its data.
LEMMA KeyChanges ==
    ASSUME OutcomesInv, DisjointPatches, [Next]_vars,
           NEW c \in Clients, NEW s \in SpecsOf[c], s.cmap # None,
           cmaps'[s.cmap].data[s.key] # PatchedBy(s)
    PROVE  At(c, "configmap") /\ cmaps'[s.cmap].data[s.key] = worker[c].data
  <1>1. s.cmap \in ConfigMaps /\ s.key \in Keys
    BY SpecsTyped DEF SpecRecord
  <1>2. PICK d \in Clients : /\ At(d, "configmap")
                             /\ worker[d].cr.spec.cmap = s.cmap
                             /\ worker[d].cr.spec.key = s.key
                             /\ worker[d].data = cmaps'[s.cmap].data[s.key]
    BY <1>1, KeyStep DEF OutcomesInv, InOrder, PatchedBy
  <1>3. worker[d].cr.spec \in SpecsOf[d]
    BY <1>2, RunningTypes DEF At, OutcomesInv, InOrder
  <1>4. d = c
    BY <1>2, <1>3 DEF DisjointPatches
  <1> QED BY <1>2, <1>4

\* The same for the annotation of its workload.
LEMMA AnnotationChanges ==
    ASSUME OutcomesInv, DisjointPatches, ExclusiveTargets, [Next]_vars,
           NEW c \in Clients, NEW s \in SpecsOf[c], s.workload # None,
           workloads'[s.workload].hash # AnnotatedBy(s)
    PROVE  At(c, "rollout") /\ workloads'[s.workload].hash = worker[c].data
  <1>1. s.workload \in Workloads
    BY SpecsTyped DEF SpecRecord
  <1>2. PICK d \in Clients :
           /\ At(d, "rollout")
           /\ worker[d].cr.spec.workload = s.workload
           /\ HeldBy(worker[d].cr.spec).data = workloads'[s.workload].hash
    BY <1>1, AnnotationStep DEF OutcomesInv, InOrder, Chain, AnnotatedBy
  <1>3. worker[d].cr.spec \in SpecsOf[d]
    BY <1>2, RunningTypes DEF At, OutcomesInv, InOrder
  <1>4. d = c
    BY <1>2, <1>3 DEF DisjointPatches
  <1>5. HeldBy(worker[c].cr.spec).data = worker[c].data
    BY <1>2, <1>3, <1>4, AppliedSeen DEF At, Applied, OutcomesInv
  <1> QED BY <1>2, <1>4, <1>5

\* Types of what the targets carry.
LEMMA PatchTypes ==
    ASSUME TypeOK, NEW c \in Clients, NEW s \in SpecsOf[c]
    PROVE  /\ s.cmap # None => PatchedBy(s) \in Data \cup {None}
           /\ s.workload # None =>
                 /\ s.workload \in Workloads
                 /\ AnnotatedBy(s) \in Data \cup {None}
                 /\ workloads[s.workload].cached \in Data \cup {None}
  BY SpecsTyped DEF TypeOK, TargetTypes, SpecRecord, PatchedBy, AnnotatedBy

\* What a target of a client covers before a step it covers after it.
LEMMA CoverageKept ==
    ASSUME OutcomesInv, DisjointPatches, ExclusiveTargets, [Next]_vars,
           NEW c \in Clients, NEW s \in SpecsOf[c], NEW h \in Data
    PROVE  /\ s.cmap # None /\ Covers(PatchedBy(s), h)
                 => Covers(cmaps'[s.cmap].data[s.key], h)
           /\ s.workload # None /\ Covers(AnnotatedBy(s), h)
                 => Covers(workloads'[s.workload].hash, h)
  <1>1. ASSUME NEW held \in Data, FromSecret(s, held), Precedes(h, held),
               worker[c].pc \in Applied
        PROVE  Covers(worker[c].data, h)
    <2>1. held # None
      BY NoneAssumption
    <2>2. /\ worker[c].data \in Data /\ Precedes(held, worker[c].data)
      BY <1>1, <2>1, AppliedSeen DEF FromSecret, OutcomesInv
    <2> QED BY <1>1, <2>2, PrecedesTransitive, NoneAssumption DEF Covers
  <1>2. ASSUME s.cmap # None, Covers(PatchedBy(s), h)
        PROVE  Covers(cmaps'[s.cmap].data[s.key], h)
    <2>1. PatchedBy(s) \in Data /\ FromSecret(s, PatchedBy(s))
                                /\ Precedes(h, PatchedBy(s))
      BY <1>2, PatchTypes
         DEF Covers, OutcomesInv, OutcomesInOrder, PatchesInOrder, InOrder
    <2>2. CASE cmaps'[s.cmap].data[s.key] = PatchedBy(s)
      BY <1>2, <2>2
    <2>3. CASE cmaps'[s.cmap].data[s.key] # PatchedBy(s)
      BY <1>1, <1>2, <2>1, <2>3, KeyChanges DEF At, Applied
    <2> QED BY <2>2, <2>3
  <1>3. ASSUME s.workload # None, Covers(AnnotatedBy(s), h)
        PROVE  Covers(workloads'[s.workload].hash, h)
    <2>1. AnnotatedBy(s) \in Data /\ FromSecret(s, AnnotatedBy(s))
                                  /\ Precedes(h, AnnotatedBy(s))
      BY <1>3, PatchTypes
         DEF Covers, OutcomesInv, OutcomesInOrder, PatchesInOrder, InOrder
    <2>2. CASE workloads'[s.workload].hash = AnnotatedBy(s)
      BY <1>3, <2>2
    <2>3. CASE workloads'[s.workload].hash # AnnotatedBy(s)
      BY <1>1, <1>3, <2>1, <2>3, AnnotationChanges DEF At, Applied
    <2> QED BY <2>2, <2>3
  <1> QED BY <1>2, <1>3

\* A successful update leaves the worker's data under its key.
LEMMA PatchWritten ==
    ASSUME OutcomesInv, NEW c \in Clients, At(c, "configmap"), WriteConfigMap(c)
    PROVE  LET spec == worker[c].cr.spec IN
           cmaps'[spec.cmap].data[spec.key] = worker[c].data
  <1> DEFINE spec == worker[c].cr.spec
             new  == [cmaps[spec.cmap].cached EXCEPT ![spec.key] = worker[c].data]
  <1>1. spec.cmap \in ConfigMaps /\ spec.key \in Keys
    BY RunningTypes
       DEF At, TypeOK, WorkerTypes, HasSource, SpecRecord, OutcomesInv, InOrder
  <1>2. cmaps \in [ConfigMaps -> [data: [Keys -> Data \cup {None}],
                                  cached: [Keys -> Data \cup {None}],
                                  fresh: BOOLEAN]]
    BY DEF OutcomesInv, InOrder, TypeOK, TargetTypes
  <1>3. cmaps' = [cmaps EXCEPT ![spec.cmap].data = new,
                               ![spec.cmap].fresh =
                                  @ /\ new = cmaps[spec.cmap].data]
    BY DEF WriteConfigMap
  <1>4. new[spec.key] = worker[c].data
    BY <1>1, <1>2
  <1> HIDE DEF new, spec
  <1>5. cmaps'[spec.cmap].data = new
    BY <1>1, <1>2, <1>3
  <1> QED BY <1>4, <1>5 DEF spec

\* So does a successful rollout, the empty patch included: the cached annotation
\* it is computed from is not newer than the stored one.
LEMMA AnnotationWritten ==
    ASSUME OutcomesInv, ExclusiveTargets, NEW c \in Clients, At(c, "rollout"),
           WriteAnnotation(c)
    PROVE  workloads'[worker[c].cr.spec.workload].hash = worker[c].data
  <1> DEFINE spec == worker[c].cr.spec
             w    == spec.workload
  <1>1. /\ spec \in SpecsOf[c] /\ w # None /\ w \in Workloads
        /\ worker[c].pc \in Applied
    BY RunningTypes
       DEF At, TypeOK, WorkerTypes, SpecRecord, OutcomesInv, InOrder, Applied
  <1>2. /\ worker[c].data \in Data /\ Complete(worker[c].data)
        /\ HeldBy(spec) # None /\ HeldBy(spec).data = worker[c].data
    BY <1>1, AppliedSeen DEF OutcomesInv
  <1>3. workloads \in [Workloads -> [hash: Data \cup {None}, cached: Data \cup {None}]]
    BY DEF OutcomesInv, InOrder, TypeOK, TargetTypes
  <1>4. workloads[w].cached = worker[c].data => workloads[w].hash = worker[c].data
    <2> SUFFICES ASSUME workloads[w].cached = worker[c].data
                 PROVE  workloads[w].hash = worker[c].data
      OBVIOUS
    <2>1. workloads[w].cached # None
      BY <1>2, NoneAssumption
    <2>2. /\ workloads[w].hash # None
          /\ Precedes(worker[c].data, workloads[w].hash)
      BY <1>1, <2>1
         DEF OutcomesInv, OutcomesInOrder, PatchesInOrder, Covers, AnnotatedBy
    <2>3. Complete(workloads[w].hash) /\ Precedes(workloads[w].hash, worker[c].data)
      BY <1>1, <1>2, <2>2
         DEF OutcomesInv, OutcomesInOrder, PatchesInOrder, FromSecret, AnnotatedBy
    <2>4. workloads[w].hash \in Data
      BY <1>1, <1>3, <2>2
    <2> QED BY <1>2, <2>2, <2>3, <2>4, PrecedesAntisymmetric
  <1>5. workloads' = [workloads EXCEPT ![w].hash =
                         IF workloads[w].cached = worker[c].data
                         THEN @ ELSE worker[c].data]
    BY DEF WriteAnnotation
  <1> HIDE DEF w
  <1> QED BY <1>1, <1>3, <1>4, <1>5 DEF w

\* The cached annotation is always one that was stored.
LEMMA CachedAnnotation ==
    ASSUME TypeOK, [Next]_vars, NEW w \in Workloads
    PROVE  \/ workloads'[w].cached = workloads[w].cached
           \/ workloads'[w].cached = workloads'[w].hash
  <1>1. workloads \in [Workloads -> [hash: Data \cup {None}, cached: Data \cup {None}]]
    BY DEF TypeOK, TargetTypes
  <1>2. ASSUME NEW c \in Clients, WriteAnnotation(c)
        PROVE  workloads'[w].cached = workloads[w].cached
    BY <1>1, <1>2 DEF WriteAnnotation
  <1>3. ASSUME NEW v \in Workloads, SyncWorkload(v)
        PROVE  \/ workloads'[w].cached = workloads[w].cached
               \/ workloads'[w].cached = workloads'[w].hash
    BY <1>1, <1>3 DEF SyncWorkload
  <1>4. CASE Restart
    BY <1>1, <1>4 DEF Restart
  <1>5. CASE UNCHANGED workloads
    BY <1>5
  <1> QED
    BY <1>2, <1>3, <1>4, <1>5
       DEF Next, vars, Take, Begin, DropDeleted, AwaitToken, Step, TimerFires,
           Informers, SyncClient, SyncConfigMap, Environment, RotateProvider,
           EditSpec, DeleteClient, CreateClient, DeleteSecret, FetchProvider,
           FetchFails, RefreshRequeue, FetchCertificate, CertificateFails,
           SkipUnchanged, ApplySecret, ApplyFails, PatchConfigMap,
           ConfigMapConflict, ConfigMapFails, TriggerRollout, RolloutFails,
           RecordStatus, RecordConflict, RecordFails, ReportFailure

\* Keys and annotations go on to come from the Secret.
LEMMA PatchesStep ==
    ASSUME OutcomesInv, DisjointPatches, ExclusiveTargets, ForwardOnly, [Next]_vars
    PROVE  PatchesInOrder'
  <1> SUFFICES ASSUME NEW c \in Clients, NEW s \in SpecsOf[c]
               PROVE  /\ s.cmap # None => FromSecret(s, PatchedBy(s))'
                      /\ s.workload # None =>
                            /\ FromSecret(s, AnnotatedBy(s))'
                            /\ workloads'[s.workload].cached # None
                                  => /\ Complete(workloads'[s.workload].cached)
                                     /\ Covers(workloads'[s.workload].hash,
                                               workloads'[s.workload].cached)
    BY DEF PatchesInOrder, AnnotatedBy
  <1> DEFINE Backing(held) == /\ Complete(held)
                              /\ secrets'[s.target] # None
                              /\ Precedes(held, secrets'[s.target].data)
  <1>1. ASSUME NEW held \in Data, FromSecret(s, held) PROVE Backing(held)
    <2>1. held # None
      BY NoneAssumption
    <2> QED BY <1>1, <2>1, SecretGrows DEF FromSecret, OutcomesInv
  <1>2. ASSUME worker[c].pc \in Applied PROVE Backing(worker[c].data)
    <2>1. /\ worker[c].data \in Data /\ Complete(worker[c].data)
          /\ HeldBy(s) # None /\ HeldBy(s).data = worker[c].data
      BY <1>2, AppliedSeen DEF OutcomesInv
    <2> QED BY <2>1, PrecedesReflexive, SecretGrows DEF OutcomesInv
  <1>3. ASSUME s.cmap # None, cmaps'[s.cmap].data[s.key] # None
        PROVE  Backing(cmaps'[s.cmap].data[s.key])
    <2>1. CASE cmaps'[s.cmap].data[s.key] = PatchedBy(s)
      <3>1. PatchedBy(s) \in Data /\ FromSecret(s, PatchedBy(s))
        BY <1>3, <2>1, PatchTypes
           DEF OutcomesInv, OutcomesInOrder, PatchesInOrder, InOrder
      <3> QED BY <1>1, <2>1, <3>1
    <2>2. CASE cmaps'[s.cmap].data[s.key] # PatchedBy(s)
      BY <1>2, <1>3, <2>2, KeyChanges DEF At, Applied
    <2> QED BY <2>1, <2>2
  <1>4. ASSUME s.workload # None, workloads'[s.workload].hash # None
        PROVE  Backing(workloads'[s.workload].hash)
    <2>1. CASE workloads'[s.workload].hash = AnnotatedBy(s)
      <3>1. AnnotatedBy(s) \in Data /\ FromSecret(s, AnnotatedBy(s))
        BY <1>4, <2>1, PatchTypes
           DEF OutcomesInv, OutcomesInOrder, PatchesInOrder, InOrder
      <3> QED BY <1>1, <2>1, <3>1
    <2>2. CASE workloads'[s.workload].hash # AnnotatedBy(s)
      BY <1>2, <1>4, <2>2, AnnotationChanges DEF At, Applied
    <2> QED BY <2>1, <2>2
  <1>5. ASSUME s.workload # None, workloads'[s.workload].cached # None
        PROVE  /\ Complete(workloads'[s.workload].cached)
               /\ Covers(workloads'[s.workload].hash, workloads'[s.workload].cached)
    <2> DEFINE cached == workloads[s.workload].cached
    <2>1. s.workload \in Workloads /\ cached \in Data \cup {None}
      BY <1>5, PatchTypes DEF OutcomesInv, InOrder
    <2>2. CASE workloads'[s.workload].cached = cached
      <3>1. cached \in Data /\ Complete(cached) /\ Covers(AnnotatedBy(s), cached)
        BY <1>5, <2>1, <2>2 DEF OutcomesInv, OutcomesInOrder, PatchesInOrder
      <3> QED BY <1>5, <2>2, <3>1, CoverageKept
    <2>3. CASE workloads'[s.workload].cached = workloads'[s.workload].hash
      <3>1. workloads'[s.workload].hash \in Data
        BY <1>5, <2>1, <2>3, StepTypes
           DEF OutcomesInv, InOrder, TypeOK, TargetTypes
      <3> QED BY <1>4, <1>5, <2>3, <3>1, PrecedesReflexive DEF Covers
    <2> QED BY <2>1, <2>2, <2>3, CachedAnnotation DEF OutcomesInv, InOrder
  <1> QED BY <1>3, <1>4, <1>5 DEF FromSecret, PatchedBy, AnnotatedBy, HeldBy

\* An outcome is noted as it was, and stays true while the worker goes on.
LEMMA OutcomesStep ==
    ASSUME OutcomesInv, DisjointPatches, ExclusiveTargets, [Next]_vars
    PROVE  OutcomesTrue'
  <1> DEFINE True(w) ==
          /\ w.pc \in {"rollout", "record"} /\ HasSource(w.cr.spec, w.data)
             /\ w.cr.conds["ConfigMapSynced"].status = "True"
                => cmaps'[w.cr.spec.cmap].data[w.cr.spec.key] = w.data
          /\ w.pc = "record" /\ w.cr.spec.workload # None
             /\ w.cr.conds["RolloutTriggered"].status = "True"
                => workloads'[w.cr.spec.workload].hash = w.data
  <1>0. SUFFICES \A d \in Clients : True(worker'[d])
    BY DEF OutcomesTrue, PatchedBy, AnnotatedBy
  <1>1. ASSUME NEW d \in Clients PROVE True(worker[d])
    <2> SUFFICES ASSUME worker[d].pc \in {"rollout", "record"} PROVE True(worker[d])
      OBVIOUS
    <2>1. worker[d].cr.spec \in SpecsOf[d]
      BY RunningTypes DEF At, OutcomesInv, InOrder
    <2>2. worker[d].cr.spec.cmap # None
             => cmaps'[worker[d].cr.spec.cmap].data[worker[d].cr.spec.key]
                   = PatchedBy(worker[d].cr.spec)
      BY <2>1, KeyChanges DEF At
    <2>3. worker[d].pc = "record" /\ worker[d].cr.spec.workload # None
             => workloads'[worker[d].cr.spec.workload].hash
                   = AnnotatedBy(worker[d].cr.spec)
      BY <2>1, AnnotationChanges DEF At
    <2> QED BY <2>2, <2>3 DEF OutcomesInv, OutcomesInOrder, OutcomesTrue, HasSource
  <1>2. \A w : w.pc \notin {"rollout", "record"} => True(w)
    OBVIOUS
  <1>3. ASSUME NEW c \in Clients, \A d \in Clients \ {c} : worker'[d] = worker[d],
               True(worker'[c])
        PROVE  \A d \in Clients : True(worker'[d])
    BY <1>1, <1>3
  <1>4. CASE UNCHANGED worker
    BY <1>1, <1>4
  <1>5. CASE Restart
    BY <1>5 DEF Restart, Idle
  <1>6. ASSUME NEW c \in Clients, Begin(c) \/ Step(c)
        PROVE  \A d \in Clients : True(worker'[d])
    <2>1. \A d \in Clients \ {c} : worker'[d] = worker[d]
      BY <1>6 DEF Begin, Step, FetchProvider, FetchFails, RefreshRequeue,
              FetchCertificate, CertificateFails, SkipUnchanged, ApplySecret,
              ApplyFails, PatchConfigMap, ConfigMapConflict, ConfigMapFails,
              ConfigMapDone, TriggerRollout, RolloutFails, RolloutDone,
              RecordStatus, RecordConflict, RecordFails, ReportFailure, Goto,
              Finish, OutcomesInv, InOrder, TypeOK, WorkerTypes
    <2>2. ASSUME NEW pc, NEW cr, NEW data, Goto(c, pc, cr, data)
          PROVE  /\ worker'[c].pc = pc /\ worker'[c].cr = cr
                 /\ worker'[c].data = data
      BY <2>2 DEF Goto, OutcomesInv, InOrder, TypeOK, WorkerTypes
    <2>3. CASE Begin(c) \/ FetchProvider(c) \/ FetchFails(c)
                  \/ FetchCertificate(c) \/ CertificateFails(c) \/ ApplyFails(c)
      <3>1. worker'[c].pc \notin {"rollout", "record"}
        BY <2>2, <2>3
           DEF Begin, FetchProvider, FetchFails, FetchCertificate,
               CertificateFails, ApplyFails, AfterApplyError
      <3> QED BY <1>2, <1>3, <2>1, <3>1
    <2>4. CASE Finish(c)
      <3>1. worker'[c].pc \notin {"rollout", "record"}
        BY <2>4 DEF Finish, Idle, OutcomesInv, InOrder, TypeOK, WorkerTypes
      <3> QED BY <1>2, <1>3, <2>1, <3>1
    <2>5. CASE ApplySecret(c)
      <3>1. /\ worker'[c].pc = AfterApply(worker[c].cr.spec, worker[c].data)
            /\ worker'[c].cr = worker[c].cr
            /\ worker'[c].data = worker[c].data
        BY <2>2, <2>5 DEF ApplySecret
      <3>2. True(worker'[c])
        BY <3>1 DEF AfterApply, AfterConfigMap
      <3> QED BY <1>3, <2>1, <3>2
    <2>6. CASE PatchConfigMap(c) \/ ConfigMapConflict(c) \/ ConfigMapFails(c)
      <3> DEFINE spec == worker[c].cr.spec
      <3>1. /\ worker[c].cr \in CR /\ At(c, "configmap")
            /\ "ConfigMapSynced" \in ConditionTypes
        BY <2>6, RunningTypes
           DEF PatchConfigMap, ConfigMapConflict, ConfigMapFails, At, OutcomesInv,
               InOrder, ConditionTypes
      <3>2. PICK status \in {"True", "False"} :
               /\ ConfigMapDone(c, status)
               /\ status = "True" => WriteConfigMap(c)
        BY <2>6 DEF PatchConfigMap, ConfigMapConflict, ConfigMapFails
      <3>3. /\ worker'[c].pc = AfterConfigMap(spec)
            /\ worker'[c].cr.spec = spec /\ worker'[c].data = worker[c].data
            /\ worker'[c].cr.conds["ConfigMapSynced"].status = status
        <4> DEFINE copy == SetCondition(worker[c].cr, "ConfigMapSynced", status)
        <4>1. /\ copy.spec = spec
              /\ copy.conds["ConfigMapSynced"]
                    = [status |-> status, gen |-> worker[c].cr.gen]
          BY <3>1, SetConditionKeeps, SetConditionThis
        <4>2. Goto(c, AfterConfigMap(spec), copy, worker[c].data)
          BY <3>2 DEF ConfigMapDone
        <4> HIDE DEF copy
        <4> QED BY <2>2, <4>1, <4>2
      <3>4. status = "True" => cmaps'[spec.cmap].data[spec.key] = worker[c].data
        BY <3>1, <3>2, PatchWritten
      <3>5. True(worker'[c])
        BY <3>3, <3>4 DEF AfterConfigMap
      <3> QED BY <1>3, <2>1, <3>5
    <2>7. CASE TriggerRollout(c) \/ RolloutFails(c)
      <3> DEFINE spec == worker[c].cr.spec
      <3>1. /\ worker[c].cr \in CR /\ At(c, "rollout")
            /\ "ConfigMapSynced" \in ConditionTypes
            /\ "RolloutTriggered" \in ConditionTypes
        BY <2>7, RunningTypes
           DEF TriggerRollout, RolloutFails, At, OutcomesInv, InOrder, ConditionTypes
      <3>2. PICK status \in {"True", "False"} :
               /\ RolloutDone(c, status)
               /\ status = "True" => WriteAnnotation(c)
        BY <2>7 DEF TriggerRollout, RolloutFails
      <3>3. /\ worker'[c].pc = "record"
            /\ worker'[c].cr.spec = spec /\ worker'[c].data = worker[c].data
            /\ worker'[c].cr.conds["RolloutTriggered"].status = status
            /\ worker'[c].cr.conds["ConfigMapSynced"]
                  = worker[c].cr.conds["ConfigMapSynced"]
        <4> DEFINE copy == SetCondition(worker[c].cr, "RolloutTriggered", status)
        <4>1. copy.spec = spec
          BY <3>1, SetConditionKeeps
        <4>2. copy.conds["RolloutTriggered"]
                 = [status |-> status, gen |-> worker[c].cr.gen]
          BY <3>1, SetConditionThis
        <4>3. copy.conds["ConfigMapSynced"] = worker[c].cr.conds["ConfigMapSynced"]
          BY <3>1, SetConditionOther
        <4>4. Goto(c, "record", copy, worker[c].data)
          BY <3>2 DEF RolloutDone
        <4> HIDE DEF copy
        <4>5. /\ worker'[c].pc = "record" /\ worker'[c].cr = copy
              /\ worker'[c].data = worker[c].data
          BY <2>2, <4>4
        <4> QED BY <4>1, <4>2, <4>3, <4>5
      <3>4. status = "True" => workloads'[spec.workload].hash = worker[c].data
        BY <3>1, <3>2, AnnotationWritten
      <3>5. True(worker[c])
        BY <1>1
      <3>6. True(worker'[c])
        BY <3>1, <3>3, <3>4, <3>5 DEF At
      <3> QED BY <1>3, <2>1, <3>6
    <2> QED
      BY <1>6, <2>3, <2>4, <2>5, <2>6, <2>7
         DEF Step, RefreshRequeue, SkipUnchanged, RecordStatus, RecordConflict,
             RecordFails, ReportFailure
  <1> QED
    BY <1>4, <1>5, <1>6
       DEF Next, vars, Take, DropDeleted, AwaitToken, TimerFires, Informers,
           SyncClient, SyncConfigMap, SyncWorkload, Environment, RotateProvider,
           EditSpec, DeleteClient, CreateClient, DeleteSecret

\* Truthful, of a copy and the targets after the step.
TruthAfter(cr) ==
    /\ \A type \in ConditionTypes : cr.conds[type].gen <= cr.gen
    /\ cr.hash # None =>
          /\ HasSource(cr.spec, cr.hash) /\ TrueNow(cr, "ConfigMapSynced")
                => Covers(cmaps'[cr.spec.cmap].data[cr.spec.key], cr.hash)
          /\ cr.spec.workload # None /\ TrueNow(cr, "RolloutTriggered")
                => Covers(workloads'[cr.spec.workload].hash, cr.hash)

\* A copy of any client that tells the truth goes on to do so.
LEMMA TruthKept ==
    ASSUME OutcomesInv, DisjointPatches, ExclusiveTargets, [Next]_vars,
           NEW c \in Clients, NEW cr \in CR, cr.spec \in SpecsOf[c], Truthful(cr)
    PROVE  TruthAfter(cr)
  <1>1. cr.hash # None => cr.hash \in Data
    BY Fields
  <1> QED BY <1>1, CoverageKept DEF TruthAfter, Truthful, Fulfilled, HasSource

\* Only generation, spec, hash and conditions matter.
LEMMA TruthSame ==
    ASSUME NEW cr, TruthAfter(cr), NEW same,
           same.gen = cr.gen, same.spec = cr.spec, same.hash = cr.hash,
           same.conds = cr.conds
    PROVE  TruthAfter(same)
  BY DEF TruthAfter, TrueNow

\* Setting a condition keeps a copy truthful if what it says is so.
LEMMA TruthSet ==
    ASSUME NEW cr \in CR, TruthAfter(cr),
           NEW type \in ConditionTypes, NEW status \in {"True", "False"},
           type = "ConfigMapSynced" /\ status = "True" /\ cr.hash # None
              => Covers(cmaps'[cr.spec.cmap].data[cr.spec.key], cr.hash),
           type = "RolloutTriggered" /\ status = "True" /\ cr.hash # None
              => Covers(workloads'[cr.spec.workload].hash, cr.hash)
    PROVE  TruthAfter(SetCondition(cr, type, status))
  <1> DEFINE new == SetCondition(cr, type, status)
  <1>1. /\ new.gen = cr.gen /\ new.spec = cr.spec /\ new.hash = cr.hash
        /\ cr.gen \in Nat
    BY SetConditionKeeps, Fields
  <1>2. new.conds[type] = [status |-> status, gen |-> cr.gen]
    BY SetConditionThis
  <1>3. \A t \in ConditionTypes : t # type => new.conds[t] = cr.conds[t]
    BY SetConditionOther
  <1> HIDE DEF new
  <1>4. \A t \in ConditionTypes : new.conds[t].gen <= new.gen
    BY <1>1, <1>2, <1>3 DEF TruthAfter
  <1>5. ASSUME NEW t \in ConditionTypes, TrueNow(new, t)
        PROVE  (t = type /\ status = "True") \/ TrueNow(cr, t)
    BY <1>1, <1>2, <1>3, <1>5 DEF TrueNow
  <1>6. "ConfigMapSynced" \in ConditionTypes /\ "RolloutTriggered" \in ConditionTypes
    BY DEF ConditionTypes
  <1>7. new.hash # None /\ HasSource(new.spec, new.hash)
                        /\ TrueNow(new, "ConfigMapSynced")
           => Covers(cmaps'[new.spec.cmap].data[new.spec.key], new.hash)
    BY <1>1, <1>5, <1>6 DEF TruthAfter
  <1>8. new.hash # None /\ new.spec.workload # None
                        /\ TrueNow(new, "RolloutTriggered")
           => Covers(workloads'[new.spec.workload].hash, new.hash)
    BY <1>1, <1>5, <1>6 DEF TruthAfter
  <1>9. TruthAfter(new)
    BY <1>4, <1>7, <1>8 DEF TruthAfter
  <1> QED BY <1>9 DEF new

\* The data a worker has applied covers the hash of its copy.
LEMMA OwnDataCovers ==
    ASSUME InOrder, ExclusiveTargets, NEW c \in Clients, worker[c].pc \in Applied,
           worker[c].cr.hash # None
    PROVE  Covers(worker[c].data, worker[c].cr.hash)
  <1>1. ~At(c, "idle") /\ worker[c].cr.spec \in SpecsOf[c]
    BY RunningTypes DEF At, Applied, InOrder
  <1>2. /\ worker[c].data \in Data
        /\ HeldBy(worker[c].cr.spec).data = worker[c].data
    BY <1>1, AppliedSeen
  <1>3. Precedes(worker[c].cr.hash, worker[c].data)
    BY <1>1, <1>2 DEF InOrder, Chain, HashesBacked, Backed
  <1> QED BY <1>2, <1>3, NoneAssumption DEF Covers

\* A worker's copy, whatever the worker does with it.
LEMMA WorkerTruthful ==
    ASSUME OutcomesInv, DisjointPatches, ExclusiveTargets, [Next]_vars,
           NEW c \in Clients, Step(c), worker'[c].pc # "idle"
    PROVE  TruthAfter(worker'[c].cr)
  <1>1. ~At(c, "idle")
    BY DEF Step, FetchProvider, FetchFails, RefreshRequeue, FetchCertificate,
           CertificateFails, SkipUnchanged, ApplySecret, ApplyFails,
           PatchConfigMap, ConfigMapConflict, ConfigMapFails, TriggerRollout,
           RolloutFails, RecordStatus, RecordConflict, RecordFails,
           ReportFailure, At
  <1>2. /\ worker[c].cr \in CR /\ worker[c].cr.spec \in SpecsOf[c]
        /\ Truthful(worker[c].cr)
    BY <1>1, RunningTypes DEF OutcomesInv, OutcomesInOrder, CopiesTruthful, InOrder
  <1>3. TruthAfter(worker[c].cr)
    BY <1>2, TruthKept
  <1>4. ASSUME NEW pc, NEW cr, NEW data, Goto(c, pc, cr, data)
        PROVE  worker'[c].cr = cr
    BY <1>4 DEF Goto, OutcomesInv, InOrder, TypeOK, WorkerTypes
  <1>5. ASSUME Finish(c) PROVE FALSE
    BY <1>5 DEF Finish, Idle, OutcomesInv, InOrder, TypeOK, WorkerTypes
  <1>6. /\ "AuthentikProviderFound" \in ConditionTypes
        /\ "SecretSynced" \in ConditionTypes
        /\ "ConfigMapSynced" \in ConditionTypes
        /\ "RolloutTriggered" \in ConditionTypes
    BY DEF ConditionTypes
  <1>7. CASE FetchProvider(c) \/ FetchFails(c) \/ ApplyFails(c)
    <2>1. PICK type \in {"AuthentikProviderFound", "SecretSynced"},
               status \in {"True", "False"} :
             worker'[c].cr = SetCondition(worker[c].cr, type, status)
      BY <1>4, <1>7 DEF FetchProvider, FetchFails, ApplyFails
    <2>2. /\ type \in ConditionTypes
          /\ type # "ConfigMapSynced" /\ type # "RolloutTriggered"
      BY <1>6
    <2> QED BY <1>2, <1>3, <2>1, <2>2, TruthSet
  <1>8. CASE FetchCertificate(c) \/ CertificateFails(c) \/ ApplySecret(c)
    BY <1>3, <1>4, <1>8 DEF FetchCertificate, CertificateFails, ApplySecret
  <1>9. CASE PatchConfigMap(c) \/ ConfigMapConflict(c) \/ ConfigMapFails(c)
    <2>1. PICK status \in {"True", "False"} :
             /\ At(c, "configmap")
             /\ ConfigMapDone(c, status)
             /\ status = "True" => WriteConfigMap(c)
      BY <1>9 DEF PatchConfigMap, ConfigMapConflict, ConfigMapFails
    <2>2. worker'[c].cr = SetCondition(worker[c].cr, "ConfigMapSynced", status)
      BY <1>4, <2>1 DEF ConfigMapDone
    <2>3. status = "True" /\ worker[c].cr.hash # None
             => Covers(cmaps'[worker[c].cr.spec.cmap].data[worker[c].cr.spec.key],
                       worker[c].cr.hash)
      BY <2>1, PatchWritten, OwnDataCovers DEF At, Applied, OutcomesInv
    <2>4. "ConfigMapSynced" # "RolloutTriggered"
      OBVIOUS
    <2> QED BY <1>2, <1>3, <1>6, <2>2, <2>3, <2>4, TruthSet
  <1>10. CASE TriggerRollout(c) \/ RolloutFails(c)
    <2>1. PICK status \in {"True", "False"} :
             /\ At(c, "rollout")
             /\ RolloutDone(c, status)
             /\ status = "True" => WriteAnnotation(c)
      BY <1>10 DEF TriggerRollout, RolloutFails
    <2>2. worker'[c].cr = SetCondition(worker[c].cr, "RolloutTriggered", status)
      BY <1>4, <2>1 DEF RolloutDone
    <2>3. status = "True" /\ worker[c].cr.hash # None
             => Covers(workloads'[worker[c].cr.spec.workload].hash,
                       worker[c].cr.hash)
      BY <2>1, AnnotationWritten, OwnDataCovers DEF At, Applied, OutcomesInv
    <2>4. "ConfigMapSynced" # "RolloutTriggered"
      OBVIOUS
    <2> QED BY <1>2, <1>3, <1>6, <2>2, <2>3, <2>4, TruthSet
  <1> QED
    BY <1>5, <1>7, <1>8, <1>9, <1>10
       DEF Step, RefreshRequeue, SkipUnchanged, RecordStatus, RecordConflict,
           RecordFails, ReportFailure

\* The stored object after a status write.
LEMMA StatusTruthful ==
    ASSUME OutcomesInv, DisjointPatches, ExclusiveTargets, [Next]_vars,
           NEW c \in Clients,
           \/ RecordStatus(c) \/ RecordConflict(c) \/ RecordFails(c)
           \/ ReportFailure(c)
    PROVE  TruthAfter(crs'[c])
  <1>1. /\ ~At(c, "idle") /\ worker[c].cr \in CR
        /\ worker[c].cr.spec \in SpecsOf[c] /\ Truthful(worker[c].cr)
    BY StatusWrites, RunningTypes
       DEF OutcomesInv, OutcomesInOrder, CopiesTruthful, InOrder
  <1>2. CASE UNCHANGED objects
    <2>1. crs[c] \in CR /\ crs[c].spec \in SpecsOf[c] /\ Truthful(crs[c])
      BY DEF OutcomesInv, OutcomesInOrder, CopiesTruthful, InOrder, TypeOK,
             ObjectTypes
    <2> QED BY <1>2, <2>1, TruthKept
  <1>3. ASSUME NEW cr \in CR, NEW touched, WriteStatus(c, cr, touched),
               MayUpdate(c), TruthAfter(cr),
               cr.gen = worker[c].cr.gen, cr.spec = worker[c].cr.spec
        PROVE  TruthAfter(crs'[c])
    <2>1. worker[c].cr.gen = crs[c].gen /\ worker[c].cr.spec = crs[c].spec
      BY <1>1, <1>3 DEF OutcomesInv, CopiesCurrent, MayUpdate, CopyOf
    <2>2. /\ crs'[c].gen = crs[c].gen /\ crs'[c].spec = crs[c].spec
          /\ crs'[c].hash = cr.hash /\ crs'[c].conds = cr.conds
      BY <1>3, WriteStatusWrites DEF OutcomesInv, InOrder, TypeOK
    <2> QED BY <1>3, <2>1, <2>2, TruthSame
  <1>4. CASE /\ At(c, "report") /\ MayUpdate(c)
             /\ WriteStatus(c, worker[c].cr, FALSE)
    BY <1>1, <1>3, <1>4, TruthKept
  <1>5. CASE /\ At(c, "record") /\ MayUpdate(c) /\ worker[c].data \in Data
             /\ Recorded(worker[c]) \in CR
             /\ WriteStatus(c, Recorded(worker[c]), TRUE)
    <2> DEFINE w  == worker[c]
               cr == [w.cr EXCEPT !.hash = w.data]
    <2>1. /\ cr \in CR /\ cr.gen = w.cr.gen /\ cr.spec = w.cr.spec
          /\ cr.hash = w.data /\ cr.conds = w.cr.conds
      BY <1>1, <1>5 DEF CR
    <2>2. UNCHANGED <<cmaps, workloads>>
      BY DEF RecordStatus, RecordConflict, RecordFails, ReportFailure
    <2>3. Covers(w.data, w.data)
      BY <1>5, PrecedesReflexive, NoneAssumption DEF Covers
    <2>4. Recorded(w) = SetCondition(cr, "SecretSynced", "True")
      BY DEF Recorded
    <2> HIDE DEF cr
    <2>5. TruthAfter(cr)
      <3>1. \A type \in ConditionTypes : cr.conds[type].gen <= cr.gen
        BY <1>1, <2>1 DEF Truthful
      <3>2. HasSource(cr.spec, cr.hash) /\ TrueNow(cr, "ConfigMapSynced")
               => Covers(cmaps'[cr.spec.cmap].data[cr.spec.key], cr.hash)
        BY <1>5, <2>1, <2>2, <2>3
           DEF OutcomesInv, OutcomesInOrder, OutcomesTrue, PatchedBy, TrueNow, At
      <3>3. cr.spec.workload # None /\ TrueNow(cr, "RolloutTriggered")
               => Covers(workloads'[cr.spec.workload].hash, cr.hash)
        BY <1>5, <2>1, <2>2, <2>3
           DEF OutcomesInv, OutcomesInOrder, OutcomesTrue, AnnotatedBy, TrueNow, At
      <3> QED BY <3>1, <3>2, <3>3 DEF TruthAfter
    <2>6. /\ "SecretSynced" \in ConditionTypes
          /\ "SecretSynced" # "ConfigMapSynced" /\ "SecretSynced" # "RolloutTriggered"
      BY DEF ConditionTypes
    <2>7. /\ TruthAfter(Recorded(w)) /\ Recorded(w).gen = w.cr.gen
          /\ Recorded(w).spec = w.cr.spec
      BY <2>1, <2>4, <2>5, <2>6, TruthSet, SetConditionKeeps
    <2> QED BY <1>3, <1>5, <2>7
  <1> QED BY <1>2, <1>4, <1>5, StatusWrites DEF OutcomesInv, InOrder

\* The stored object after a user's change: an edit leaves no condition of its
\* generation, a new object has recorded nothing.
LEMMA UserTruthful ==
    ASSUME OutcomesInv, DisjointPatches, ExclusiveTargets, [Next]_vars,
           NEW c \in Clients, NEW s \in SpecsOf[c],
           EditSpec(c, s) \/ CreateClient(c, s) \/ DeleteClient(c)
    PROVE  TruthAfter(crs'[c])
  <1>1. /\ crs[c] \in CR /\ crs[c].spec \in SpecsOf[c] /\ Truthful(crs[c])
        /\ crs \in [Clients -> CR]
    BY DEF OutcomesInv, OutcomesInOrder, CopiesTruthful, InOrder, TypeOK,
           ObjectTypes
  <1>2. CASE EditSpec(c, s)
    <2> DEFINE new == [crs[c] EXCEPT !.spec = s, !.gen = crs[c].gen + 1]
    <2>1. /\ new.gen = crs[c].gen + 1 /\ new.conds = crs[c].conds
          /\ crs[c].gen \in Nat /\ crs[c].conds \in Conditions
      BY <1>1, Fields DEF CR
    <2>2. crs'[c] = new
      BY <1>1, <1>2 DEF EditSpec, ChangeCR
    <2> HIDE DEF new
    <2>3. \A t \in ConditionTypes : /\ new.conds[t].gen \in Nat
                                    /\ new.conds[t].gen <= crs[c].gen
      BY <1>1, <2>1 DEF Truthful, Conditions
    <2>4. \A t \in ConditionTypes : new.conds[t].gen <= new.gen /\ ~TrueNow(new, t)
      BY <2>1, <2>3 DEF TrueNow
    <2>5. "ConfigMapSynced" \in ConditionTypes /\ "RolloutTriggered" \in ConditionTypes
      BY DEF ConditionTypes
    <2> QED BY <2>2, <2>4, <2>5 DEF TruthAfter
  <1>3. CASE CreateClient(c, s)
    <2>1. crs'[c] = NewCR(s)
      BY <1>1, <1>3 DEF CreateClient, ChangeCR
    <2>2. \A t \in ConditionTypes : NewCR(s).conds[t].gen <= NewCR(s).gen
      BY DEF NewCR, NoConditions
    <2>3. NewCR(s).hash = None
      BY DEF NewCR
    <2> QED BY <2>1, <2>2, <2>3 DEF TruthAfter
  <1>4. CASE DeleteClient(c)
    <2>1. /\ crs'[c].gen = crs[c].gen /\ crs'[c].spec = crs[c].spec
          /\ crs'[c].hash = crs[c].hash /\ crs'[c].conds = crs[c].conds
      BY <1>1, <1>4 DEF DeleteClient, ChangeCR, CR
    <2> QED BY <1>1, <2>1, TruthKept, TruthSame
  <1> QED BY <1>2, <1>3, <1>4

\* Every copy goes on to tell the truth.
LEMMA CopiesTruthfulStep ==
    ASSUME OutcomesInv, DisjointPatches, ExclusiveTargets, [Next]_vars
    PROVE  CopiesTruthful'
  <1> SUFFICES ASSUME NEW d \in Clients
               PROVE  /\ TruthAfter(crs'[d]) /\ TruthAfter(cache'[d])
                      /\ worker'[d].pc # "idle" => TruthAfter(worker'[d].cr)
    BY DEF CopiesTruthful, Truthful, Fulfilled, TruthAfter, TrueNow, PatchedBy,
           AnnotatedBy, At
  <1>1. /\ crs[d] \in CR /\ crs[d].spec \in SpecsOf[d] /\ Truthful(crs[d])
        /\ cache[d] \in CR /\ cache[d].spec \in SpecsOf[d] /\ Truthful(cache[d])
    BY DEF OutcomesInv, OutcomesInOrder, CopiesTruthful, InOrder, TypeOK,
           ObjectTypes
  <1>2. TruthAfter(crs[d]) /\ TruthAfter(cache[d])
    BY <1>1, TruthKept
  <1>3. worker[d].pc # "idle" => TruthAfter(worker[d].cr)
    BY RunningTypes, TruthKept
       DEF OutcomesInv, OutcomesInOrder, CopiesTruthful, InOrder, At
  <1>4. TypeOK
    BY DEF OutcomesInv, InOrder
  <1>5. ASSUME NEW c \in Clients, Step(c)
        PROVE  /\ TruthAfter(crs'[d]) /\ TruthAfter(cache'[d])
               /\ worker'[d].pc # "idle" => TruthAfter(worker'[d].cr)
    <2>1. CASE \/ RecordStatus(c) \/ RecordConflict(c) \/ RecordFails(c)
               \/ ReportFailure(c)
      <3>1. cache' = cache /\ worker' = [worker EXCEPT ![c] = Idle]
        BY <1>4, <2>1, StatusWrites
      <3>2. worker'[d].pc # "idle" => worker'[d] = worker[d]
        BY <1>4, <3>1 DEF TypeOK, WorkerTypes, Idle
      <3>3. d # c => crs'[d] = crs[d]
        BY <1>4, <2>1, StatusWrites, WriteStatusWrites DEF TypeOK
      <3>4. d = c => TruthAfter(crs'[d])
        BY <2>1, StatusTruthful
      <3> QED BY <1>2, <1>3, <3>1, <3>2, <3>3, <3>4
    <2>2. CASE \/ FetchProvider(c) \/ FetchFails(c) \/ RefreshRequeue(c)
               \/ FetchCertificate(c) \/ CertificateFails(c) \/ SkipUnchanged(c)
               \/ ApplySecret(c) \/ ApplyFails(c)
               \/ PatchConfigMap(c) \/ ConfigMapConflict(c) \/ ConfigMapFails(c)
               \/ TriggerRollout(c) \/ RolloutFails(c)
      <3>1. UNCHANGED <<crs, cache>>
        BY <2>2
           DEF FetchProvider, FetchFails, RefreshRequeue, FetchCertificate,
               CertificateFails, SkipUnchanged, ApplySecret, ApplyFails,
               PatchConfigMap, ConfigMapConflict, ConfigMapFails, TriggerRollout,
               RolloutFails
      <3>2. d # c => worker'[d] = worker[d]
        BY <1>4, <2>2
           DEF FetchProvider, FetchFails, RefreshRequeue, FetchCertificate,
               CertificateFails, SkipUnchanged, ApplySecret, ApplyFails,
               PatchConfigMap, ConfigMapConflict, ConfigMapFails, ConfigMapDone,
               TriggerRollout, RolloutFails, RolloutDone, Goto, Finish, TypeOK,
               WorkerTypes
      <3>3. d = c /\ worker'[d].pc # "idle" => TruthAfter(worker'[d].cr)
        BY <1>5, WorkerTruthful
      <3> QED BY <1>2, <1>3, <3>1, <3>2, <3>3
    <2> QED BY <1>5, <2>1, <2>2 DEF Step
  <1>6. ASSUME NEW c \in Clients, Begin(c)
        PROVE  /\ TruthAfter(crs'[d]) /\ TruthAfter(cache'[d])
               /\ worker'[d].pc # "idle" => TruthAfter(worker'[d].cr)
    <2>1. /\ UNCHANGED <<crs, cache>>
          /\ worker'[d] = worker[d] \/ worker'[d].cr = cache[d]
      BY <1>4, <1>6 DEF Begin, Goto, TypeOK, WorkerTypes
    <2> QED BY <1>2, <1>3, <2>1
  <1>7. CASE UNCHANGED <<crs, cache, worker>>
    BY <1>2, <1>3, <1>7
  <1>8. ASSUME NEW c \in Clients, SyncClient(c)
        PROVE  /\ TruthAfter(crs'[d]) /\ TruthAfter(cache'[d])
               /\ worker'[d].pc # "idle" => TruthAfter(worker'[d].cr)
    <2>1. /\ UNCHANGED <<crs, worker>>
          /\ cache'[d] = cache[d] \/ cache'[d] = crs[d]
      BY <1>4, <1>8 DEF SyncClient, TypeOK, ObjectTypes
    <2> QED BY <1>2, <1>3, <2>1
  <1>9. CASE Restart
    <2>1. crs' = crs /\ cache' = crs /\ worker'[d].pc = "idle"
      BY <1>9 DEF Restart, Idle
    <2> QED BY <1>2, <2>1
  <1>10. ASSUME NEW c \in Clients, NEW s \in SpecsOf[c],
                EditSpec(c, s) \/ CreateClient(c, s) \/ DeleteClient(c)
         PROVE  /\ TruthAfter(crs'[d]) /\ TruthAfter(cache'[d])
                /\ worker'[d].pc # "idle" => TruthAfter(worker'[d].cr)
    <2>1. UNCHANGED <<cache, worker>> /\ (d # c => crs'[d] = crs[d])
      BY <1>4, <1>10
         DEF EditSpec, CreateClient, DeleteClient, ChangeCR, TypeOK, ObjectTypes
    <2>2. d = c => TruthAfter(crs'[d])
      BY <1>10, UserTruthful
    <2> QED BY <1>2, <1>3, <2>1, <2>2
  <1>11. ASSUME NEW c \in Clients, DeleteClient(c)
         PROVE  \E s \in SpecsOf[c] : TRUE
    BY <1>4 DEF TypeOK, ObjectTypes
  <1> QED
    BY <1>5, <1>6, <1>7, <1>8, <1>9, <1>10, <1>11
       DEF Next, vars, Take, DropDeleted, AwaitToken, TimerFires, Informers,
           SyncConfigMap, SyncWorkload, Environment, RotateProvider, DeleteSecret

\* At the start nothing is recorded or written.
LEMMA InitOutcomes == Init => OutcomesInOrder
  <1> SUFFICES ASSUME Init PROVE OutcomesInOrder
    OBVIOUS
  <1>1. PICK f : /\ \A c \in Clients : f[c] \in SpecsOf[c]
                 /\ crs = [c \in Clients |-> NewCR(f[c])]
    BY DEF Init
  <1>2. PatchesInOrder
    BY SpecsTyped
       DEF Init, PatchesInOrder, FromSecret, PatchedBy, AnnotatedBy, SpecRecord
  <1>3. OutcomesTrue
    BY DEF Init, OutcomesTrue, Idle
  <1>4. \A c \in Clients : Truthful(NewCR(f[c]))
    BY DEF Truthful, Fulfilled, NewCR, NoConditions
  <1>5. CopiesTruthful
    <2>1. \A c \in Clients : /\ crs[c] = NewCR(f[c]) /\ cache[c] = NewCR(f[c])
                            /\ worker[c].pc = "idle"
      BY <1>1 DEF Init, Idle
    <2> QED BY <1>4, <2>1 DEF CopiesTruthful, At
  <1> QED BY <1>2, <1>3, <1>5 DEF OutcomesInOrder

\* Clients with targets of their own and data that moves forward: ConfigMap keys,
\* annotations and what any copy says of them stay in order, whatever edits,
\* rotations, stale copies, conflicts, lost answers and crashes there are.
THEOREM OutcomesAreInOrder ==
    ASSUME ExclusiveTargets, DisjointPatches, ForwardOnly
    PROVE  Spec => []OutcomesInOrder
  <1>1. Init => OutcomesInv
    <2>1. Init => FreshIsCurrent
      BY DEF Init, FreshIsCurrent
    <2> QED BY <2>1, InitTypes, InitChain, InitCopies, InitOutcomes
            DEF OutcomesInv, InOrder
  <1>2. OutcomesInv /\ [Next]_vars => OutcomesInv'
    BY NextKeeps, CopiesStep, FreshStep, PatchesStep, OutcomesStep,
       CopiesTruthfulStep
       DEF OutcomesInv, OutcomesInOrder, InOrder
  <1>3. OutcomesInv => OutcomesInOrder
    BY DEF OutcomesInv
  <1> QED BY <1>1, <1>2, <1>3, PTL DEF Spec

\* A condition that is True for the current generation says what is so, for any
\* number of such clients, whatever lies between the call and the status write.
THEOREM ConditionsAreBacked ==
    ASSUME ExclusiveTargets, DisjointPatches, ForwardOnly
    PROVE  Spec => []ConditionsBacked
  <1>1. OutcomesInOrder => ConditionsBacked
    BY DEF OutcomesInOrder, CopiesTruthful, Truthful, ConditionsBacked
  <1> QED BY <1>1, OutcomesAreInOrder, PTL
=============================================================================
