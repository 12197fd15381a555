----------------------------- MODULE TokenProofs -----------------------------
(***************************************************************************)
(* Type correctness of TokenRefresh, and that a token Secret is never left *)
(* deleted, for any number of workers that refresh it at the same time.    *)
(***************************************************************************)
EXTENDS TokenRefresh, TLAPS

PCs == WorkerPCs \cup RunPCs \cup JobPCs
Holding == {"load", "store", "apply"}

USE DEF At, TokenKeys

\* The conjuncts of TypeOK about actors.
ActorTypes ==
    /\ pc \in [Actors -> PCs]
    /\ \A w \in Workers : pc[w] \notin JobPCs
    /\ pc[Job] \in (RunPCs \ {"delete"}) \cup JobPCs
    /\ held \in [Actors -> TokenKeys \cup {None}]
    /\ \A a \in Actors : pc[a] \in Holding <=> held[a] # None

\* The conjuncts about everything else.
StoreTypes ==
    /\ deployment \in Deployments
    /\ key \in TokenKeys /\ ready \in BOOLEAN
    /\ memory \in TokenKeys \cup {None}
    /\ secret \in TokenKeys \cup {None}
    /\ cached \in TokenKeys \cup {None}
    /\ served \in [Workers -> BOOLEAN]
    /\ faults \in 0..MaxFaults

\* TypeOK says no more and no less.
LEMMA TypeParts == TypeOK <=> ActorTypes /\ StoreTypes
BY DEF TypeOK, ActorTypes, StoreTypes, PCs, Holding

\* An actor that moves to a label of its kind, holding a token there exactly if
\* the label asks for one, keeps the types of all actors.
LEMMA MoveTypes ==
    ASSUME ActorTypes, NEW a \in Actors, NEW label \in PCs,
           NEW token \in TokenKeys \cup {None},
           a = Job => label \in (RunPCs \ {"delete"}) \cup JobPCs,
           a # Job => label \notin JobPCs,
           label \in Holding <=> token # None,
           pc' = [pc EXCEPT ![a] = label],
           held' = [held EXCEPT ![a] = token]
    PROVE  ActorTypes'
BY DeploymentAssumption DEF ActorTypes, Actors

\* The same for an actor that holds nothing, before or after.
LEMMA MoveEmpty ==
    ASSUME ActorTypes, NEW a \in Actors, NEW label \in PCs,
           a = Job => label \in (RunPCs \ {"delete"}) \cup JobPCs,
           a # Job => label \notin JobPCs,
           pc[a] \notin Holding, label \notin Holding,
           pc' = [pc EXCEPT ![a] = label],
           held' = held
    PROVE  ActorTypes'
BY DeploymentAssumption DEF ActorTypes, Actors

\* Fail ends a run where its kind of actor ends.
LEMMA FailTypes ==
    ASSUME ActorTypes, StoreTypes, NEW a \in Actors, Fail(a),
           \/ pc[a] \notin Holding /\ held' = held
           \/ held' = [held EXCEPT ![a] = None]
    PROVE  ActorTypes' /\ served' \in [Workers -> BOOLEAN]
<1> DEFINE label == IF a = Job THEN "failed" ELSE "idle"
<1>1. /\ label \in PCs /\ label \notin Holding
      /\ a = Job => label \in (RunPCs \ {"delete"}) \cup JobPCs
      /\ a # Job => label \notin JobPCs
  BY DEF PCs, WorkerPCs, RunPCs, JobPCs, Holding
<1>2. pc' = [pc EXCEPT ![a] = label]
  BY DEF Fail, Goto
<1>3. ActorTypes'
  <2>1. CASE pc[a] \notin Holding /\ held' = held
    BY <2>1, <1>1, <1>2, MoveEmpty
  <2>2. CASE held' = [held EXCEPT ![a] = None]
    BY <2>2, <1>1, <1>2, MoveTypes
  <2> QED
    BY <2>1, <2>2
<1>4. served' \in [Workers -> BOOLEAN]
  BY DEF Fail, StoreTypes, Actors
<1> QED
  BY <1>3, <1>4

-----------------------------------------------------------------------------
\* Nothing that happens around the actors changes where they are.
LEMMA QuietTypes ==
    ASSUME ActorTypes, UNCHANGED <<pc, held>>
    PROVE  ActorTypes'
BY DEF ActorTypes

\* The steps of a reconciliation keep every type.
LEMMA ReconcileTypes ==
    ASSUME TypeOK, NEW w \in Workers,
           \/ Begin(w) \/ LoadToken(w) \/ StoreLoaded(w) \/ Recheck(w)
           \/ Answered(w) \/ Denied(w) \/ Unreachable(w)
           \/ ClearToken(w) \/ NoBootstrapSecret(w)
           \/ Reload(w) \/ ReloadFails(w) \/ StoreReloaded(w)
    PROVE  TypeOK'
<1> USE DEF world, stored, Goto, WorkerPCs, RunPCs, JobPCs, Holding, PCs
<1>1. ActorTypes /\ StoreTypes /\ w \in Actors /\ w # Job
  BY TypeParts, DeploymentAssumption DEF Actors
<1>2. held[w] \in TokenKeys \cup {None}
  BY <1>1 DEF ActorTypes
<1>3. SUFFICES ActorTypes' /\ StoreTypes'
  BY TypeParts, PTL
<1>4. CASE Begin(w)
  BY <1>1, <1>4, MoveEmpty DEF Begin, StoreTypes
<1>5. CASE LoadToken(w)
  BY <1>1, <1>5, MoveTypes DEF LoadToken, StoreTypes
<1>6. CASE StoreLoaded(w)
  BY <1>1, <1>2, <1>6, MoveTypes DEF StoreLoaded, SetToken, StoreTypes
<1>7. CASE Recheck(w)
  BY <1>1, <1>7, MoveEmpty, FailTypes DEF Recheck, StoreTypes
<1>8. CASE Answered(w)
  BY <1>1, <1>8, MoveEmpty DEF Answered, StoreTypes
<1>9. CASE Denied(w)
  BY <1>1, <1>9, MoveEmpty DEF Denied, StoreTypes
<1>10. CASE Unreachable(w)
  BY <1>1, <1>10, FailTypes DEF Unreachable, StoreTypes
<1>11. CASE ClearToken(w)
  BY <1>1, <1>11, MoveEmpty DEF ClearToken, StoreTypes
<1>12. CASE NoBootstrapSecret(w)
  BY <1>1, <1>12, FailTypes DEF NoBootstrapSecret, StoreTypes
<1>13. CASE Reload(w)
  BY <1>1, <1>13, MoveTypes DEF Reload, StoreTypes
<1>14. CASE ReloadFails(w)
  BY <1>1, <1>14, FailTypes DEF ReloadFails, StoreTypes
<1>15. CASE StoreReloaded(w)
  BY <1>1, <1>2, <1>15, MoveTypes DEF StoreReloaded, SetToken, StoreTypes
<1> QED
  BY <1>4, <1>5, <1>6, <1>7, <1>8, <1>9, <1>10, <1>11, <1>12, <1>13, <1>14,
     <1>15

\* So do the steps of bootstrap.Run, in a worker and in the Job.
LEMMA RunTypes ==
    ASSUME TypeOK, NEW a \in Actors, RunStep(a)
    PROVE  TypeOK'
<1> USE DEF world, stored, Goto, WorkerPCs, RunPCs, JobPCs, Holding, PCs
<1>1. ActorTypes /\ StoreTypes
  BY TypeParts
<1>2. held[a] \in TokenKeys \cup {None} /\ (a # Job => a \in Workers)
  BY <1>1 DEF ActorTypes, Actors
<1>3. SUFFICES ActorTypes' /\ StoreTypes'
  BY TypeParts, PTL
<1>4. CASE Check(a)
  BY <1>1, <1>4, MoveEmpty DEF Check, WhenPresent, StoreTypes
<1>5. CASE Delete(a)
  BY <1>1, <1>5, MoveEmpty DEF Delete, AfterDelete, StoreTypes
<1>6. CASE DeleteFails(a)
  BY <1>1, <1>6, FailTypes DEF DeleteFails, StoreTypes
<1>7. CASE Wait(a)
  BY <1>1, <1>7, MoveEmpty DEF Wait, StoreTypes
<1>8. CASE WaitTimesOut(a)
  BY <1>1, <1>8, FailTypes, DeploymentAssumption
  DEF WaitTimesOut, Fault, StoreTypes
<1>9. CASE Mint(a)
  BY <1>1, <1>9, MoveTypes, DeploymentAssumption DEF Mint, StoreTypes
<1>10. CASE MintFails(a)
  BY <1>1, <1>10, FailTypes DEF MintFails, StoreTypes
<1>11. CASE Apply(a)
  <2>1. /\ AfterApply(a) \in PCs /\ AfterApply(a) \notin Holding
        /\ a = Job => AfterApply(a) \in (RunPCs \ {"delete"}) \cup JobPCs
        /\ a # Job => AfterApply(a) \notin JobPCs
    BY DEF AfterApply
  <2>2. ActorTypes'
    BY <1>1, <1>11, <2>1, MoveTypes DEF Apply
  <2>3. StoreTypes'
    BY <1>1, <1>2, <1>11 DEF Apply, StoreTypes
  <2> QED
    BY <2>2, <2>3
<1>12. CASE KubeFails(a)
  <2>1. ActorTypes' /\ served' \in [Workers -> BOOLEAN]
    BY <1>1, <1>12, FailTypes DEF KubeFails
  <2>2. secret' \in TokenKeys \cup {None}
    BY <1>1, <1>2, <1>12 DEF KubeFails, StoreTypes
  <2>3. faults' \in 0..MaxFaults
    BY <1>1, <1>12, DeploymentAssumption DEF KubeFails, Fault, StoreTypes
  <2> QED
    BY <1>1, <1>12, <2>1, <2>2, <2>3 DEF KubeFails, StoreTypes
<1> QED
  BY <1>4, <1>5, <1>6, <1>7, <1>8, <1>9, <1>10, <1>11, <1>12 DEF RunStep

\* And the surroundings.
LEMMA SurroundingTypes ==
    ASSUME TypeOK,
           \/ RestartJob \/ SyncSecret \/ Restart \/ DeleteTokenSecret
           \/ ReplaceKey \/ Outage \/ Recover
    PROVE  TypeOK'
<1> USE DEF world, stored, Goto, WorkerPCs, RunPCs, JobPCs, Holding, PCs
<1>1. ActorTypes /\ StoreTypes /\ Job \in Actors
  BY TypeParts DEF Actors
<1>2. SUFFICES ActorTypes' /\ StoreTypes'
  BY TypeParts, PTL
<1>3. CASE RestartJob
  BY <1>1, <1>3, MoveEmpty DEF RestartJob, StoreTypes
<1>4. CASE SyncSecret
  BY <1>1, <1>4, QuietTypes DEF SyncSecret, StoreTypes
<1>5. CASE Restart
  <2>1. ActorTypes'
    BY <1>1, <1>5, DeploymentAssumption DEF Restart, ActorTypes, Actors
  <2>2. StoreTypes'
    BY <1>1, <1>5, DeploymentAssumption DEF Restart, Fault, StoreTypes
  <2> QED
    BY <2>1, <2>2
<1>6. CASE DeleteTokenSecret
  BY <1>1, <1>6, QuietTypes, DeploymentAssumption
  DEF DeleteTokenSecret, Fault, StoreTypes
<1>7. CASE ReplaceKey
  BY <1>1, <1>7, QuietTypes, DeploymentAssumption DEF ReplaceKey, StoreTypes
<1>8. CASE Outage
  <2>1. ready' \in BOOLEAN
    BY <1>8 DEF Outage
  <2>2. faults' \in 0..MaxFaults
    BY <1>1, <1>8, DeploymentAssumption DEF Outage, Fault, StoreTypes
  <2>3. ActorTypes'
    BY <1>1, <1>8, QuietTypes DEF Outage
  <2> QED
    BY <1>1, <1>8, <2>1, <2>2, <2>3 DEF Outage, StoreTypes
<1>9. CASE Recover
  BY <1>1, <1>9, QuietTypes DEF Recover, StoreTypes
<1> QED
  BY <1>3, <1>4, <1>5, <1>6, <1>7, <1>8, <1>9

\* The initial values have their types ...
LEMMA InitTypes == Init => TypeOK
<1> SUFFICES ASSUME Init PROVE ActorTypes /\ StoreTypes
  BY TypeParts
<1>1. 0 \in TokenKeys /\ 0 \in 0..MaxFaults
  BY DeploymentAssumption
<1>2. ActorTypes
  BY DeploymentAssumption
  DEF Init, ActorTypes, Actors, PCs, Holding, WorkerPCs, RunPCs, JobPCs
<1>3. StoreTypes
  BY <1>1 DEF Init, StoreTypes
<1> QED
  BY <1>2, <1>3

\* ... and every step keeps them.
LEMMA StepTypes == TypeOK /\ [Next]_vars => TypeOK'
<1> SUFFICES ASSUME TypeOK, [Next]_vars PROVE TypeOK'
  OBVIOUS
<1>1. CASE \E w \in Workers : WorkerStep(w)
  BY <1>1, ReconcileTypes, RunTypes DEF WorkerStep, Actors
<1>2. CASE RunStep(Job)
  BY <1>2, RunTypes DEF Actors
<1>3. CASE \/ RestartJob \/ SyncSecret \/ Restart \/ DeleteTokenSecret
           \/ ReplaceKey \/ Outage \/ Recover
  BY <1>3, SurroundingTypes
<1>4. CASE UNCHANGED vars
  BY <1>4 DEF TypeOK, vars
<1> QED
  BY <1>1, <1>2, <1>3, <1>4 DEF Next

\* The token model keeps its types for any number of workers, whatever fails.
THEOREM TokenTypeCorrect == Spec => []TypeOK
BY InitTypes, StepTypes, PTL DEF Spec

-----------------------------------------------------------------------------
(***************************************************************************)
(* Recreating is not inductive: what is missing is that, as long as        *)
(* nothing has failed, Authentik is still up when a run that has waited    *)
(* for it asks it for the token.                                           *)
(***************************************************************************)

\* A fault-free run mints only while Authentik is up.
ReadyToMint == faults = 0 => \A a \in Actors : At(a, "mint") => ready

\* The inductive invariant.
RecreatingInv == TypeOK /\ ReadyToMint /\ Recreating

\* On the way to write the token Secret.
OnTheWay(a) == pc[a] \in {"wait", "mint", "apply"}

\* Without a fault a worker's other steps leave deployment, Secret and Authentik
\* alone and do not take it to or from where it writes the Secret.
LEMMA ReconcileAside ==
    ASSUME TypeOK, NEW w \in Workers,
           \/ Begin(w) \/ LoadToken(w) \/ StoreLoaded(w) \/ Recheck(w)
           \/ Answered(w) \/ Denied(w) \/ Unreachable(w)
           \/ ClearToken(w) \/ NoBootstrapSecret(w)
           \/ Reload(w) \/ ReloadFails(w) \/ StoreReloaded(w)
    PROVE  /\ UNCHANGED <<deployment, ready, secret, faults>>
           /\ ~OnTheWay(w) /\ pc'[w] # "mint"
           /\ \A b \in Actors \ {w} : pc'[b] = pc[b]
<1>1. pc \in [Actors -> PCs] /\ w \in Actors
  BY TypeParts DEF ActorTypes, Actors
<1> QED
  BY <1>1
  DEF world, stored, Goto, Fail, OnTheWay, Begin, LoadToken, StoreLoaded,
      Recheck, Answered, Denied, Unreachable, ClearToken, NoBootstrapSecret,
      Reload, ReloadFails, StoreReloaded

\* A step of bootstrap.Run after which there still has been no fault: an actor on
\* the way stays there or has written the Secret, and one whose check finds no
\* Secret sets out.
LEMMA RunForward ==
    ASSUME TypeOK, ReadyToMint, NEW a \in Actors, RunStep(a), faults' = 0
    PROVE  /\ faults = 0 /\ UNCHANGED <<deployment, ready>>
           /\ pc'[a] = "mint" => ready
           /\ \A b \in Actors \ {a} : pc'[b] = pc[b]
           /\ secret' = None =>
                 \/ OnTheWay(a)'
                 \/ ~CanMint(a)
                 \/ secret = None /\ ~OnTheWay(a) /\ ~(a = Job /\ At(Job, "check"))
<1>1. /\ pc \in [Actors -> PCs] /\ faults \in Nat
      /\ At(a, "apply") => held[a] # None
  BY TypeParts, DeploymentAssumption DEF ActorTypes, StoreTypes, Holding
<1> USE DEF world, stored, Goto, OnTheWay
<1>2. ~Fault("slow") /\ ~Fault("kubeFault")
  BY <1>1 DEF Fault
<1>3. CASE Check(a)
  BY <1>1, <1>3 DEF Check, Seen, WhenPresent
<1>4. CASE Delete(a)
  BY <1>1, <1>4 DEF Delete, AfterDelete
<1>5. CASE DeleteFails(a)
  BY <1>1, <1>5 DEF DeleteFails, Fail
<1>6. CASE Wait(a)
  BY <1>1, <1>6 DEF Wait
<1>7. CASE Mint(a)
  BY <1>1, <1>7 DEF Mint
<1>8. CASE MintFails(a)
  BY <1>1, <1>8 DEF MintFails, Fail, ReadyToMint, CanMint
<1>9. CASE Apply(a)
  BY <1>1, <1>9 DEF Apply, AfterApply
<1> QED
  BY <1>2, <1>3, <1>4, <1>5, <1>6, <1>7, <1>8, <1>9
  DEF RunStep, WaitTimesOut, KubeFails

\* Around the actors, only faults could get in the way.
LEMMA SurroundingsForward ==
    ASSUME TypeOK, faults' = 0,
           \/ RestartJob \/ SyncSecret \/ Restart \/ DeleteTokenSecret
           \/ ReplaceKey \/ Outage \/ Recover
    PROVE  /\ faults = 0 /\ UNCHANGED <<deployment, secret>>
           /\ ready => ready'
           /\ \A b \in Actors :
                 pc'[b] # pc[b] => ~OnTheWay(b) /\ pc'[b] = "check"
<1>1. pc \in [Actors -> PCs] /\ faults \in Nat
  BY TypeParts, DeploymentAssumption DEF ActorTypes, StoreTypes
<1>2. ~Fault("crash") /\ ~Fault("deleted") /\ ~Fault("outage")
  BY <1>1 DEF Fault
<1> QED
  BY <1>1, <1>2
  DEF world, stored, Goto, OnTheWay, JobPCs, RestartJob, SyncSecret, Restart,
      DeleteTokenSecret, ReplaceKey, Outage, Recover

\* Every step keeps the invariant: a worker, the Job, the surroundings.
LEMMA RecreatingStep == RecreatingInv /\ [Next]_vars => RecreatingInv'
<1> SUFFICES ASSUME RecreatingInv, [Next]_vars
             PROVE  RecreatingInv'
  OBVIOUS
<1>1. TypeOK /\ ReadyToMint /\ Recreating /\ TypeOK'
  BY StepTypes DEF RecreatingInv
<1>2. SUFFICES ASSUME faults' = 0 PROVE ReadyToMint' /\ Recreating'
  BY <1>1 DEF RecreatingInv, ReadyToMint, Recreating, Faultless
<1>3. SUFFICES /\ \A a \in Actors : pc'[a] = "mint" => ready'
               /\ Working' /\ secret' = None =>
                     (\E a \in Actors : OnTheWay(a)') \/ pc'[Job] = "check"
  BY DEF ReadyToMint, Recreating, Faultless, OnTheWay
<1>4. ASSUME faults = 0
      PROVE  /\ \A a \in Actors : pc[a] = "mint" => ready
             /\ Working /\ secret = None =>
                   (\E a \in Actors : OnTheWay(a)) \/ pc[Job] = "check"
  BY <1>1, <1>4 DEF ReadyToMint, Recreating, Faultless, OnTheWay
<1>5. Job \in Actors
  BY DEF Actors
<1>6. ASSUME NEW a \in Actors, RunStep(a)
      PROVE  /\ \A b \in Actors : pc'[b] = "mint" => ready'
             /\ Working' /\ secret' = None =>
                   (\E b \in Actors : OnTheWay(b)') \/ pc'[Job] = "check"
  BY <1>1, <1>2, <1>4, <1>5, <1>6, RunForward DEF Working, CanMint, OnTheWay
<1>7. ASSUME NEW w \in Workers, WorkerStep(w)
      PROVE  /\ \A b \in Actors : pc'[b] = "mint" => ready'
             /\ Working' /\ secret' = None =>
                   (\E b \in Actors : OnTheWay(b)') \/ pc'[Job] = "check"
  <2>1. w \in Actors /\ w # Job
    BY DeploymentAssumption DEF Actors
  <2>2. CASE RunStep(w)
    BY <1>6, <2>1, <2>2
  <2>3. CASE ~RunStep(w)
    BY <1>1, <1>2, <1>4, <1>5, <1>7, <2>1, <2>3, ReconcileAside
    DEF WorkerStep, Working, CanMint, OnTheWay
  <2> QED
    BY <2>2, <2>3
<1>8. CASE \/ RestartJob \/ SyncSecret \/ Restart \/ DeleteTokenSecret
           \/ ReplaceKey \/ Outage \/ Recover
  BY <1>1, <1>2, <1>4, <1>5, <1>8, SurroundingsForward DEF Working, CanMint, OnTheWay
<1>9. CASE UNCHANGED vars
  BY <1>2, <1>4, <1>9 DEF vars, Working, CanMint, OnTheWay
<1> QED
  BY <1>5, <1>6, <1>7, <1>8, <1>9 DEF Next

\* However many workers refresh at the same time, and with a Job beside them, the
\* token Secret is never left deleted while nothing fails.
THEOREM AlwaysRecreating == Spec => []Recreating
<1>1. Init => RecreatingInv
  BY InitTypes, DeploymentAssumption
  DEF Init, RecreatingInv, ReadyToMint, Recreating, Actors
<1>2. RecreatingInv => Recreating
  BY DEF RecreatingInv
<1> QED
  BY <1>1, <1>2, RecreatingStep, PTL DEF Spec
=============================================================================
