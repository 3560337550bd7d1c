------------------------ MODULE ServingRuntime_proofs ------------------------
(* Proofs about the serving runtime reconciler, for every value of the constants: about        *)
(* RuntimeDeployment, what it deploys for a runtime, and about RuntimeScaling, when and with   *)
(* how many replicas.                                                                          *)
EXTENDS RuntimeScaling, RuntimeDeployment, SequenceTheorems, FiniteSetTheorems, TLAPS

-----------------------------------------------------------------------------
(* RuntimeDeployment: admission and the autoscaler *)

\* The runtime and the cluster are of the sets they are chosen from.
InputsInv == rt \in RuntimeSet /\ cfg \in ClusterSet

\* A reconcile that failed is not gone on with.
OutcomeInv == outcome \in {"none", "applied"} \/ phase = "ended"

\* Past the webhook a runtime is admitted, and an autoscaler is made of its annotations.
ScaleInv ==
    /\ phase # "admit" /\ outcome # "denied" => Admitted(rt)
    /\ scaler # NoHPA => /\ rt.ann.class = "hpa" /\ rt.multiModel /\ Admitted(rt)
                         /\ scaler = CreateHPA(rt.ann)

LEMMA InitInputs == DeploymentInit => InputsInv
  BY CasesAssumption DEF DeploymentInit, InputsInv

\* Every step leaves the runtime and the cluster alone.
LEMMA InputsKept == [DeploymentNext]_deploymentVars => UNCHANGED inputs
<1> SUFFICES ASSUME [DeploymentNext]_deploymentVars PROVE UNCHANGED inputs
  OBVIOUS
<1> USE DEF Proceed, Fail, Change, inputs
<1>1. CASE Handle BY <1>1 DEF Handle
<1>2. CASE Validate BY <1>2 DEF Validate
<1>3. CASE GetPVCs BY <1>3 DEF GetPVCs
<1>4. CASE DeleteDeployment BY <1>4 DEF DeleteDeployment
<1>5. CASE Scale BY <1>5 DEF Scale
<1>6. CASE \E e \in entries : ReadStorageEntry(e) BY <1>6 DEF ReadStorageEntry
<1>7. CASE LoadManifest BY <1>7 DEF LoadManifest
<1>8. CASE AddVolumes BY <1>8 DEF AddVolumes
<1>9. CASE AddMMDomainSocketMount BY <1>9 DEF AddMMDomainSocketMount
<1>10. CASE AddPassThroughPodFields BY <1>10 DEF AddPassThroughPodFields
<1>11. CASE AddContainer BY <1>11 DEF AddContainer
<1>12. CASE AddAdapter BY <1>12 DEF AddAdapter
<1>13. CASE NoAdapter BY <1>13 DEF NoAdapter
<1>14. CASE SyncGracePeriod BY <1>14 DEF SyncGracePeriod
<1>15. CASE AddMMEnvVars BY <1>15 DEF AddMMEnvVars
<1>16. CASE AddModelTypeConstraints BY <1>16 DEF AddModelTypeConstraints
<1>17. CASE ConfigureEtcdSecret BY <1>17 DEF ConfigureEtcdSecret
<1>18. CASE AddRESTProxy BY <1>18 DEF AddRESTProxy
<1>19. CASE ConfigureTLSSecret BY <1>19 DEF ConfigureTLSSecret
<1>20. CASE ConfigureMetadata BY <1>20 DEF ConfigureMetadata
<1>21. CASE EnsureMMContainerIsLast BY <1>21 DEF EnsureMMContainerIsLast
<1>22. CASE ConfigureImagePullSecrets BY <1>22 DEF ConfigureImagePullSecrets
<1>23. CASE AddPuller BY <1>23 DEF AddPuller
<1>24. CASE ApplyManifest BY <1>24 DEF ApplyManifest
<1>25. CASE ReconcileAgain BY <1>25 DEF ReconcileAgain
<1>26. CASE UNCHANGED deploymentVars BY <1>26 DEF deploymentVars
<1>27. QED
  BY <1>1, <1>2, <1>3, <1>4, <1>5, <1>6, <1>7, <1>8, <1>9, <1>10, <1>11, <1>12, <1>13, <1>14, <1>15,
     <1>16, <1>17, <1>18, <1>19, <1>20, <1>21, <1>22, <1>23, <1>24, <1>25, <1>26 DEF DeploymentNext

\* The steps that build the deployment.
BuildSteps ==
    {"manifest", "volumes", "mmsocket", "fields", "containers", "grace", "env", "constraints", "etcd", "proxy",
     "tls", "metadata", "last", "secrets", "puller"}

BuildNext ==
    \/ LoadManifest \/ AddVolumes \/ AddMMDomainSocketMount \/ AddPassThroughPodFields
    \/ AddContainer \/ AddAdapter \/ NoAdapter
    \/ SyncGracePeriod \/ AddMMEnvVars \/ AddModelTypeConstraints \/ ConfigureEtcdSecret
    \/ AddRESTProxy \/ ConfigureTLSSecret \/ ConfigureMetadata \/ EnsureMMContainerIsLast
    \/ ConfigureImagePullSecrets \/ AddPuller

\* Such a step changes the pod only, and goes on, or else the reconcile ends with an error.
BuildStep ==
    /\ phase \in BuildSteps
    /\ UNCHANGED <<inputs, found, scaler, applied>>
    /\ \/ phase' \in BuildSteps \cup {"apply"} /\ UNCHANGED outcome
       \/ phase' = "ended" /\ outcome' \in {"error", "panic"}

LEMMA BuildIsStep == BuildNext => BuildStep
<1> SUFFICES ASSUME BuildNext PROVE BuildStep
  OBVIOUS
<1> USE DEF BuildStep, BuildSteps, Proceed, Fail, Change, AtStep, inputs, found
<1>7. CASE LoadManifest BY <1>7 DEF LoadManifest
<1>8. CASE AddVolumes BY <1>8 DEF AddVolumes
<1>9. CASE AddMMDomainSocketMount BY <1>9 DEF AddMMDomainSocketMount
<1>10. CASE AddPassThroughPodFields BY <1>10 DEF AddPassThroughPodFields
<1>11. CASE AddContainer BY <1>11 DEF AddContainer
<1>12. CASE AddAdapter BY <1>12 DEF AddAdapter
<1>13. CASE NoAdapter BY <1>13 DEF NoAdapter
<1>14. CASE SyncGracePeriod BY <1>14 DEF SyncGracePeriod
<1>15. CASE AddMMEnvVars BY <1>15 DEF AddMMEnvVars
<1>16. CASE AddModelTypeConstraints BY <1>16 DEF AddModelTypeConstraints
<1>17. CASE ConfigureEtcdSecret BY <1>17 DEF ConfigureEtcdSecret
<1>18. CASE AddRESTProxy BY <1>18 DEF AddRESTProxy
<1>19. CASE ConfigureTLSSecret BY <1>19 DEF ConfigureTLSSecret
<1>20. CASE ConfigureMetadata BY <1>20 DEF ConfigureMetadata
<1>21. CASE EnsureMMContainerIsLast BY <1>21 DEF EnsureMMContainerIsLast
<1>22. CASE ConfigureImagePullSecrets BY <1>22 DEF ConfigureImagePullSecrets
<1>23. CASE AddPuller BY <1>23 DEF AddPuller
<1>24. QED
  BY <1>7, <1>8, <1>9, <1>10, <1>11, <1>12, <1>13, <1>14, <1>15, <1>16, <1>17, <1>18, <1>19, <1>20, <1>21,
     <1>22, <1>23 DEF BuildNext

\* Every step of the specification, with the ones that build the deployment as one.
LEMMA StepKinds ==
    [DeploymentNext]_deploymentVars =>
      \/ Handle \/ Validate \/ GetPVCs \/ DeleteDeployment \/ Scale
      \/ \E e \in entries : ReadStorageEntry(e)
      \/ BuildNext \/ ApplyManifest \/ ReconcileAgain \/ UNCHANGED deploymentVars
  BY DEF DeploymentNext, BuildNext

LEMMA NextScale ==
    InputsInv /\ OutcomeInv /\ ScaleInv /\ [DeploymentNext]_deploymentVars
      => InputsInv' /\ OutcomeInv' /\ ScaleInv'
<1> SUFFICES ASSUME InputsInv, OutcomeInv, ScaleInv, [DeploymentNext]_deploymentVars
             PROVE  InputsInv' /\ OutcomeInv' /\ ScaleInv'
  OBVIOUS
<1>a. UNCHANGED <<rt, cfg>>
  BY InputsKept DEF inputs
<1>b. InputsInv'
  BY <1>a DEF InputsInv
<1>c. Admitted(rt)' = Admitted(rt) /\ CreateHPA(rt.ann)' = CreateHPA(rt.ann) /\ NoHPA' = NoHPA
  BY <1>a
<1> USE DEF OutcomeInv, ScaleInv, Proceed, Fail, AtStep
<1>1. CASE Handle
  BY <1>1, <1>a, <1>b, <1>c DEF Handle
<1>2. CASE Validate
  BY <1>2, <1>a, <1>b, <1>c DEF Validate
<1>3. CASE GetPVCs
  BY <1>3, <1>a, <1>b, <1>c DEF GetPVCs
<1>4. CASE DeleteDeployment
  BY <1>4, <1>a, <1>b, <1>c DEF DeleteDeployment
<1>5. CASE Scale
  BY <1>5, <1>a, <1>b, <1>c DEF Scale
<1>6. CASE \E e \in entries : ReadStorageEntry(e)
  BY <1>6, <1>a, <1>b, <1>c DEF ReadStorageEntry
<1>7. CASE BuildNext
  BY <1>7, <1>a, <1>b, <1>c, BuildIsStep DEF BuildStep, BuildSteps
<1>8. CASE ApplyManifest
  BY <1>8, <1>a, <1>b, <1>c DEF ApplyManifest
<1>9. CASE ReconcileAgain
  BY <1>9, <1>a, <1>b, <1>c DEF ReconcileAgain
<1>10. CASE UNCHANGED deploymentVars
  BY <1>10, <1>a, <1>b, <1>c DEF deploymentVars
<1>11. QED
  BY <1>1, <1>2, <1>3, <1>4, <1>5, <1>6, <1>7, <1>8, <1>9, <1>10, StepKinds

\* What an admitted runtime makes of its annotations: the arithmetic of the two readings.
LEMMA AdmittedBounds == InputsInv /\ ScaleInv => AdmittedScale
<1> SUFFICES ASSUME InputsInv, ScaleInv, scaler # NoHPA, Fits(rt.ann.min), Fits(rt.ann.max)
             PROVE  /\ 1 <= scaler.min /\ scaler.min <= scaler.max
                    /\ scaler.min = (IF rt.ann.min.given THEN rt.ann.min.n ELSE 1)
                    /\ scaler.max = (IF rt.ann.max.given THEN rt.ann.max.n ELSE 1)
  BY DEF AdmittedScale
<1>1. rt.ann.min \in NumberSet /\ rt.ann.max \in NumberSet
  BY DEF InputsInv, RuntimeSet, AnnotationSet
<1>2. ValidateScalingHPA(rt.ann)
  BY DEF ScaleInv, Admitted, ValidateAutoScalingReplicas
<1> DEFINE lo == IF rt.ann.min.given THEN rt.ann.min.n ELSE 1
           hi == IF rt.ann.max.given THEN rt.ann.max.n ELSE 1
<1>3. lo \in Int /\ hi \in Int /\ 1 <= lo /\ lo <= hi
  BY <1>1, <1>2 DEF ValidateScalingHPA, NumberSet
<1>4. Int32Max \in Nat
  BY DeploymentAssumption
<1>5. ParseInt32(rt.ann.min) = lo
  BY <1>1, <1>2, <1>3, <1>4 DEF ParseInt32, ValidateScalingHPA, NumberSet, Fits
<1>6. ParseInt32(rt.ann.max) = hi
  BY <1>1, <1>2, <1>3, <1>4 DEF ParseInt32, ValidateScalingHPA, NumberSet, Fits
<1>7. scaler = [min |-> lo, max |-> hi]
  BY <1>3, <1>5, <1>6 DEF ScaleInv, CreateHPA
<1>8. QED
  BY <1>3, <1>7

\* AdmittedScale, for every int32 and uint16 limit and every annotation: what the webhook admits
\* (servingruntime_webhook.go:154-199) makes, in createHPA (hpa_reconciler.go:90-143), an
\* autoscaler with the bounds of the annotations, and these in order.
THEOREM AdmittedScales == DeploymentSpec => []AdmittedScale
<1>1. DeploymentInit => InputsInv /\ OutcomeInv /\ ScaleInv
  BY InitInputs DEF DeploymentInit, OutcomeInv, ScaleInv
<1>2. QED
  BY <1>1, NextScale, AdmittedBounds, PTL DEF DeploymentSpec

-----------------------------------------------------------------------------
(* RuntimeDeployment: the order of the claims *)

\* A set of natural numbers that is not empty has a smallest element.
LEMMA SmallestNumber ==
    ASSUME NEW S \in SUBSET Nat, S # {}
    PROVE  \E x \in S : \A y \in S : x <= y
<1> DEFINE R == {p \in Nat \X Nat : p[1] < p[2]}
<1>1. IsWellFoundedOn(R, Nat)
  BY NatLessThanWellFounded, Zenon DEF OpToRel
<1>2. PICK x \in S : \A y \in S : ~ (<<y, x>> \in R)
  <2> HIDE DEF R
  <2> QED BY <1>1, WFMin
<1>3. ASSUME NEW y \in S PROVE x <= y
  <2>1. <<y, x>> \notin R /\ <<y, x>> \in Nat \X Nat
    BY <1>2
  <2>2. ~ (y < x)
    BY <2>1
  <2>3. QED BY <2>2
<1>4. QED BY <1>3

\* The names of claims are finitely many.
LEMMA ClaimsFinite ==
    ASSUME NEW S \in SUBSET Range(PVCOrder)
    PROVE  IsFiniteSet(S) /\ Cardinality(S) \in Nat
<1>1. PVCOrder \in Surjection(1..Len(PVCOrder), Range(PVCOrder))
  BY DeploymentAssumption DEF Surjection, Range
<1>2. IsFiniteSet(1..Len(PVCOrder))
  BY DeploymentAssumption, FS_Interval
<1>3. IsFiniteSet(Range(PVCOrder))
  BY <1>1, <1>2, FS_Surjection
<1>4. QED
  BY <1>3, FS_Subset, FS_CardinalityType

\* A claim does not come both before and after another.
LEMMA BeforeStrict ==
    ASSUME NEW c, NEW d, Before(c, d), Before(d, c)
    PROVE  FALSE
<1>1. PICK i, j \in DOMAIN PVCOrder : i < j /\ PVCOrder[i] = c /\ PVCOrder[j] = d
  BY DEF Before
<1>2. PICK k, l \in DOMAIN PVCOrder : k < l /\ PVCOrder[k] = d /\ PVCOrder[l] = c
  BY DEF Before
<1>3. i = l /\ j = k
  BY <1>1, <1>2, DeploymentAssumption DEF IsInjective
<1>4. i \in Nat /\ j \in Nat
  BY DeploymentAssumption
<1>5. QED
  BY <1>1, <1>2, <1>3, <1>4

\* An enumeration of a set of claims has all of them.
LEMMA EnumerationComplete ==
    ASSUME NEW S \in SUBSET Range(PVCOrder), NEW q \in SetToSeqs(S), NEW c \in S
    PROVE  \E i \in DOMAIN q : q[i] = c
<1> DEFINE D == 1..Cardinality(S)
<1>1. IsFiniteSet(S) /\ Cardinality(S) \in Nat
  BY ClaimsFinite
<1>2. q \in [D -> S] /\ \A i, j \in D : i # j => q[i] # q[j]
  BY DEF SetToSeqs
<1>3. q \in Injection(D, S)
  BY <1>2 DEF Injection, IsInjective
<1>4. IsFiniteSet(D) /\ Cardinality(D) = Cardinality(S)
  BY <1>1, FS_Interval
<1>5. q \in Surjection(D, S)
  BY <1>1, <1>3, <1>4, FS_Injection
<1>6. QED
  BY <1>2, <1>5 DEF Surjection

\* Where two orders of the same claims agree up to a place, the next claim of the one does not
\* come before the next claim of the other.
LEMMA NotBefore ==
    ASSUME NEW S \in SUBSET Range(PVCOrder), NEW q \in Ordered(S), NEW r \in Ordered(S),
           NEW k \in 1..Cardinality(S), q[k] # r[k],
           \A i \in 1..Cardinality(S) : i < k => q[i] = r[i]
    PROVE  Before(q[k], r[k])
<1>1. Cardinality(S) \in Nat
  BY ClaimsFinite
<1>2. /\ q \in SetToSeqs(S) /\ r \in SetToSeqs(S)
      /\ q \in [1..Cardinality(S) -> S] /\ r \in [1..Cardinality(S) -> S]
      /\ \A i, j \in 1..Cardinality(S) : i # j => r[i] # r[j]
      /\ \A i, j \in 1..Cardinality(S) : i < j => Before(q[i], q[j])
  BY DEF Ordered, SetToSeqs
<1>3. PICK m \in 1..Cardinality(S) : q[m] = r[k]
  <2>1. r[k] \in S /\ DOMAIN q = 1..Cardinality(S)
    BY <1>2
  <2>2. \E i \in DOMAIN q : q[i] = r[k]
    BY <1>2, <2>1, EnumerationComplete
  <2>3. QED BY <2>1, <2>2
<1>4. ~ (m < k)
  BY <1>2, <1>3
<1>5. m # k
  BY <1>3
<1>6. k < m
  BY <1>1, <1>4, <1>5
<1>7. QED
  BY <1>2, <1>3, <1>6

\* A set of claims has one order (sort.Strings in getPVCs).
LEMMA OrderedUnique ==
    ASSUME NEW S \in SUBSET Range(PVCOrder), NEW q \in Ordered(S), NEW r \in Ordered(S)
    PROVE  q = r
<1>1. Cardinality(S) \in Nat
  BY ClaimsFinite
<1>2. q \in [1..Cardinality(S) -> S] /\ r \in [1..Cardinality(S) -> S]
  BY DEF Ordered, SetToSeqs
<1>3. SUFFICES ASSUME q # r PROVE FALSE
  OBVIOUS
<1> DEFINE D == {i \in 1..Cardinality(S) : q[i] # r[i]}
<1>4. D # {}
  <2>1. SUFFICES ASSUME D = {} PROVE FALSE
    OBVIOUS
  <2>2. \A i \in 1..Cardinality(S) : q[i] = r[i]
    BY <2>1
  <2>3. q = [i \in 1..Cardinality(S) |-> q[i]] /\ r = [i \in 1..Cardinality(S) |-> r[i]]
    BY <1>2
  <2>4. q = r
    BY <2>2, <2>3
  <2>5. QED BY <1>3, <2>4
<1>5. D \in SUBSET Nat
  BY <1>1
<1>6. PICK k \in D : \A i \in D : k <= i
  <2> HIDE DEF D
  <2> QED BY <1>4, <1>5, SmallestNumber
<1>7. k \in 1..Cardinality(S) /\ q[k] # r[k]
  OBVIOUS
<1>8. \A i \in 1..Cardinality(S) : i < k => q[i] = r[i]
  BY <1>1, <1>6
<1>9. Before(q[k], r[k])
  BY <1>7, <1>8, NotBefore
<1>10. Before(r[k], q[k])
  BY <1>7, <1>8, NotBefore
<1>11. QED
  BY <1>9, <1>10, BeforeStrict

\* The claims that complete entries name, and all claims of the deployment.
SecretClaims(E) == {e.name : e \in {d \in E : d.type = "pvc"}}
TheClaims == SecretClaims(cfg.storage) \cup PredictorClaims

\* What is found in the secret is made of what has been read of it, whatever was read first; the
\* claims of a deployment are in order, and with complete entries they are always the same.
ClaimsInv ==
    /\ entries \subseteq cfg.storage
    /\ conf.name \in Range(PVCOrder) \cup {""}
    /\ claims \subseteq Range(PVCOrder)
    /\ pvcs \in Seq(Range(PVCOrder))
    /\ phase = "storage" /\ CompleteSecret => claims = SecretClaims(cfg.storage \ entries)
    /\ phase \in BuildSteps \cup {"scale", "apply"} /\ CompleteSecret => pvcs \in Ordered(TheClaims)

LEMMA OrderedType ==
    ASSUME NEW S \in SUBSET Range(PVCOrder), NEW q \in Ordered(S)
    PROVE  q \in Seq(Range(PVCOrder))
<1>1. Cardinality(S) \in Nat
  BY ClaimsFinite
<1>2. q \in [1..Cardinality(S) -> S]
  BY DEF Ordered, SetToSeqs
<1>3. q \in [1..Cardinality(S) -> Range(PVCOrder)]
  BY <1>2
<1>4. QED
  BY <1>1, <1>3

\* An entry that says what it is, and a claim its name, adds its own claim and no other.
LEMMA ReadComplete ==
    ASSUME InputsInv, ClaimsInv, NEW e \in entries, ReadStorageEntry(e), CompleteSecret
    PROVE  claims' = SecretClaims(cfg.storage \ (entries \ {e}))
<1>1. e \in cfg.storage /\ e.type # "" /\ (e.type = "pvc" => e.name # "")
  BY DEF ClaimsInv, CompleteSecret
<1>2. claims = SecretClaims(cfg.storage \ entries)
  BY DEF ClaimsInv, ReadStorageEntry, AtStep
<1>3. conf'.type = e.type /\ (e.type = "pvc" => conf'.name = e.name)
  BY <1>1 DEF ReadStorageEntry, Decode
<1>4. claims' = claims \cup (IF e.type = "pvc" THEN {e.name} ELSE {})
  BY <1>1, <1>3 DEF ReadStorageEntry
<1>5. cfg.storage \ (entries \ {e}) = (cfg.storage \ entries) \cup {e}
  BY <1>1
<1>6. QED
  BY <1>2, <1>4, <1>5 DEF SecretClaims

LEMMA NextClaims ==
    InputsInv /\ ClaimsInv /\ [DeploymentNext]_deploymentVars => ClaimsInv'
<1> SUFFICES ASSUME InputsInv, ClaimsInv, [DeploymentNext]_deploymentVars
             PROVE  ClaimsInv'
  OBVIOUS
<1>a. UNCHANGED <<rt, cfg>>
  BY InputsKept DEF inputs
<1>b. CompleteSecret' = CompleteSecret /\ TheClaims' = TheClaims
  BY <1>a DEF CompleteSecret, TheClaims, SecretClaims, PredictorClaims
<1>c. /\ cfg.storage \in SUBSET [type : STRING, name : Range(PVCOrder) \cup {""}]
      /\ cfg.predictorPVCs \in SUBSET Range(PVCOrder)
  BY DEF InputsInv, ClusterSet
<1> USE DEF ClaimsInv, Proceed, Fail, AtStep
<1>1. CASE Handle
  BY <1>1, <1>a, <1>b DEF Handle, found, BuildSteps
<1>2. CASE Validate
  <2>1. CASE phase' = "ended"
    BY <1>2, <1>a, <1>b, <2>1 DEF Validate, found, BuildSteps
  <2>2. CASE phase' # "ended"
    <3>1. entries' = cfg.storage /\ conf' = [type |-> "", name |-> ""] /\ claims' = {} /\ pvcs' = <<>> /\ phase' = "storage"
      BY <1>2, <2>2 DEF Validate
    <3>2. claims' = SecretClaims(cfg'.storage \ entries')
      BY <3>1, <1>a DEF SecretClaims
    <3>3. conf'.name = "" /\ entries' \subseteq cfg'.storage /\ phase' \notin BuildSteps \cup {"scale", "apply"}
      BY <3>1, <1>a DEF BuildSteps
    <3>4. pvcs' \in Seq(Range(PVCOrder))
      BY <3>1, EmptySeq
    <3>5. claims' \subseteq Range(PVCOrder)
      BY <3>1
    <3>6. QED
      BY <3>2, <3>3, <3>4, <3>5
  <2>3. QED BY <2>1, <2>2
<1>3. CASE GetPVCs
  <2>1. claims \cup PredictorClaims \in SUBSET Range(PVCOrder)
    BY <1>c DEF PredictorClaims
  <2>2. pvcs' \in Seq(Range(PVCOrder))
    BY <1>3, <2>1, OrderedType DEF GetPVCs
  <2>3. CompleteSecret => claims \cup PredictorClaims = TheClaims
    BY <1>3 DEF GetPVCs, TheClaims
  <2>4. CompleteSecret' => pvcs' \in Ordered(TheClaims)
    BY <1>3, <1>b, <2>3 DEF GetPVCs
  <2>5. Ordered(TheClaims)' = Ordered(TheClaims)
    BY <1>b
  <2>6. QED
    BY <1>3, <1>a, <1>b, <2>2, <2>4, <2>5 DEF GetPVCs
<1>4. CASE DeleteDeployment
  BY <1>4, <1>a, <1>b DEF DeleteDeployment, found, BuildSteps
<1>5. CASE Scale
  BY <1>5, <1>a, <1>b DEF Scale, found
<1>6. CASE \E e \in entries : ReadStorageEntry(e)
  <2>1. PICK e \in entries : ReadStorageEntry(e)
    BY <1>6
  <2>2. CompleteSecret => claims' = SecretClaims(cfg.storage \ (entries \ {e}))
    BY <2>1, ReadComplete
  <2>3. e.name \in Range(PVCOrder) \cup {""}
    BY <1>c
  <2>4. conf'.name \in Range(PVCOrder) \cup {""}
    BY <2>1, <2>3 DEF ReadStorageEntry, Decode
  <2>5. claims' \subseteq Range(PVCOrder)
    BY <2>1, <2>4 DEF ReadStorageEntry
  <2>6. entries' = entries \ {e} /\ phase' = "storage" /\ pvcs' = pvcs
    BY <2>1 DEF ReadStorageEntry
  <2>7. CompleteSecret => claims' = SecretClaims((cfg.storage)' \ entries')
    BY <1>a, <2>2, <2>6
  <2>8. QED
    BY <1>a, <1>b, <2>4, <2>5, <2>6, <2>7 DEF BuildSteps
<1>7. CASE BuildNext
  <2>1. BuildStep
    BY <1>7, BuildIsStep
  <2>2. UNCHANGED <<entries, conf, claims, pvcs>> /\ phase # "storage" /\ phase' # "storage" /\ phase \in BuildSteps
    BY <2>1 DEF BuildStep, found, BuildSteps
  <2>3. QED
    BY <2>2, <1>a, <1>b
<1>8. CASE ApplyManifest
  BY <1>8, <1>a, <1>b DEF ApplyManifest, found, BuildSteps
<1>9. CASE ReconcileAgain
  BY <1>9, <1>a, <1>b DEF ReconcileAgain, found, BuildSteps
<1>10. CASE UNCHANGED deploymentVars
  BY <1>10, <1>a, <1>b DEF deploymentVars, found
<1>11. QED
  BY <1>1, <1>2, <1>3, <1>4, <1>5, <1>6, <1>7, <1>8, <1>9, <1>10, StepKinds

-----------------------------------------------------------------------------
(* RuntimeDeployment: a deployment is a function of the runtime, the cluster and the claims *)

\* The transformations read no more than the runtime, the cluster and what they are given.
LEMMA SameVocabulary ==
    ASSUME UNCHANGED <<rt, cfg>>
    PROVE  /\ UnixDomainSockets' = UnixDomainSockets /\ UseStorageHelper' = UseStorageHelper
           /\ MountPoint' = MountPoint /\ SocketDirs' = SocketDirs
           /\ AdapterEnv' = AdapterEnv /\ TLSEnv' = TLSEnv /\ TLSContainers' = TLSContainers
           /\ DataEnv' = DataEnv /\ ManagementEnv' = ManagementEnv /\ ExtraEnv' = ExtraEnv
           /\ Given(rt.data)' = Given(rt.data)
<1>1. UnixDomainSockets' = UnixDomainSockets
  BY DEF UnixDomainSockets, Endpoints
<1>2. UseStorageHelper' = UseStorageHelper
  BY DEF UseStorageHelper
<1>3. MountPoint' = MountPoint
  BY DEF MountPoint
<1>4. SocketDirs' = SocketDirs
  BY DEF SocketDirs, Endpoints
<1>5. AdapterEnv' = AdapterEnv
  BY DEF AdapterEnv
<1>6. TLSEnv' = TLSEnv
  BY DEF TLSEnv
<1>7. TLSContainers' = TLSContainers
  BY DEF TLSContainers
<1>8. DataEnv' = DataEnv
  BY DEF DataEnv
<1>9. ManagementEnv' = ManagementEnv
  BY <1>2 DEF ManagementEnv
<1>10. ExtraEnv' = ExtraEnv
  BY DEF ExtraEnv
<1>11. Given(rt.data)' = Given(rt.data)
  OBVIOUS
<1>12. QED BY <1>1, <1>2, <1>3, <1>4, <1>5, <1>6, <1>7, <1>8, <1>9, <1>10, <1>11

LEMMA SameTransformations ==
    ASSUME UNCHANGED <<rt, cfg>>, NEW p, NEW cs, NEW c, NEW b, NEW arr
    PROVE  /\ addVolumes(p, cs)' = addVolumes(p, cs)
           /\ addMMDomainSocketMount(p)' = addMMDomainSocketMount(p)
           /\ addPassThroughPodFields(p)' = addPassThroughPodFields(p)
           /\ addContainer(cs, c, b)' = addContainer(cs, c, b)
           /\ addAdapter(cs, b)' = addAdapter(cs, b)
           /\ addMMEnvVars(p)' = addMMEnvVars(p)
           /\ addRESTProxy(p)' = addRESTProxy(p)
           /\ configureTLSSecret(p)' = configureTLSSecret(p)
           /\ configureMetadata(p)' = configureMetadata(p)
           /\ configureImagePullSecrets(p, arr)' = configureImagePullSecrets(p, arr)
           /\ addPuller(p, cs)' = addPuller(p, cs)
<1>1. addVolumes(p, cs)' = addVolumes(p, cs)
  BY SameVocabulary DEF addVolumes
<1>2. addMMDomainSocketMount(p)' = addMMDomainSocketMount(p)
  BY SameVocabulary DEF addMMDomainSocketMount
<1>3. addPassThroughPodFields(p)' = addPassThroughPodFields(p)
  BY DEF addPassThroughPodFields
<1>a. ASSUME NEW a PROVE AddDomainSocketMount(a)' = AddDomainSocketMount(a)
  BY SameVocabulary DEF AddDomainSocketMount
<1>4. addContainer(cs, c, b)' = addContainer(cs, c, b)
  BY <1>a DEF addContainer, ContainerMounts
<1>5. addAdapter(cs, b)' = addAdapter(cs, b)
  BY <1>a, SameVocabulary DEF addAdapter
<1>6. addMMEnvVars(p)' = addMMEnvVars(p)
  BY SameVocabulary DEF addMMEnvVars
<1>7. addRESTProxy(p)' = addRESTProxy(p)
  BY DEF addRESTProxy
<1>8. configureTLSSecret(p)' = configureTLSSecret(p)
  <2>1. ASSUME NEW d PROVE WithTLS(d)' = WithTLS(d)
    BY SameVocabulary DEF WithTLS
  <2>2. QED BY <2>1, SameVocabulary DEF configureTLSSecret
<1>9. configureMetadata(p)' = configureMetadata(p)
  BY DEF configureMetadata
<1>10. configureImagePullSecrets(p, arr)' = configureImagePullSecrets(p, arr)
  BY DEF configureImagePullSecrets
<1>11. addPuller(p, cs)' = addPuller(p, cs)
  <2>1. Puller(cs)' = Puller(cs)
    BY DEF Puller, PullerMounts
  <2>2. QED BY <2>1, SameVocabulary DEF addPuller
<1>12. QED BY <1>1, <1>2, <1>3, <1>4, <1>5, <1>6, <1>7, <1>8, <1>9, <1>10, <1>11

\* The pod and the array that the containers are added to; then one container after the other.
Start(cs) ==
    Build(addPassThroughPodFields(addMMDomainSocketMount(addVolumes(TemplatePod, cs))), Array(cs))

Traced(cs, n, t) ==
    /\ t = [k \in 1..n |-> t[k]]
    /\ t[1] = Start(cs)
    /\ \A k \in 1..(n - 1) : t[k + 1] = addContainer(cs, rt.containers[k], t[k])

\* What there is before the n-th container is added.
Built(cs, n, b) == \E t : Traced(cs, n, t) /\ t[n] = b

BuiltAll(cs, b) == Built(cs, Len(rt.containers) + 1, b)

LEMMA BuiltFirst == ASSUME NEW cs PROVE Built(cs, 1, Start(cs))
<1> DEFINE t == [k \in 1..1 |-> Start(cs)]
<1>1. t[1] = Start(cs)
  OBVIOUS
<1>2. t = [k \in 1..1 |-> t[k]]
  OBVIOUS
<1> HIDE DEF t
<1>3. Traced(cs, 1, t)
  BY <1>1, <1>2 DEF Traced
<1>4. QED BY <1>1, <1>3 DEF Built

LEMMA BuiltNext ==
    ASSUME NEW cs, NEW n \in Nat \ {0}, NEW b, Built(cs, n, b)
    PROVE  Built(cs, n + 1, addContainer(cs, rt.containers[n], b))
<1>1. PICK t : Traced(cs, n, t) /\ t[n] = b
  BY DEF Built
<1> DEFINE e == addContainer(cs, rt.containers[n], b)
           u == [k \in 1..(n + 1) |-> IF k = n + 1 THEN e ELSE t[k]]
<1> HIDE DEF e
<1>2. u = [k \in 1..(n + 1) |-> u[k]]
  OBVIOUS
<1>3. u[n + 1] = e /\ \A k \in 1..n : u[k] = t[k]
  OBVIOUS
<1> HIDE DEF u
<1>4. u[1] = Start(cs)
  BY <1>1, <1>3 DEF Traced
<1>5. ASSUME NEW k \in 1..n PROVE u[k + 1] = addContainer(cs, rt.containers[k], u[k])
  <2>1. CASE k = n
    BY <2>1, <1>1, <1>3 DEF e
  <2>2. CASE k # n
    <3>1. k \in 1..(n - 1) /\ k + 1 \in 1..n
      BY <2>2
    <3>2. QED BY <3>1, <1>1, <1>3 DEF Traced
  <2>3. QED BY <2>1, <2>2
<1>6. Traced(cs, n + 1, u)
  <2>1. (n + 1) - 1 = n
    OBVIOUS
  <2>2. QED BY <1>2, <1>4, <1>5, <2>1 DEF Traced
<1>7. QED
  BY <1>3, <1>6 DEF Built, e

\* There is one way to add the containers.
LEMMA BuiltUnique ==
    ASSUME NEW cs, NEW n \in Nat \ {0}, NEW b, NEW c, Built(cs, n, b), Built(cs, n, c)
    PROVE  b = c
<1>1. PICK t : Traced(cs, n, t) /\ t[n] = b
  BY DEF Built
<1>2. PICK u : Traced(cs, n, u) /\ u[n] = c
  BY DEF Built
<1> DEFINE D == {k \in 1..n : t[k] # u[k]}
<1>3. D = {}
  <2>1. SUFFICES ASSUME D # {} PROVE FALSE
    OBVIOUS
  <2>2. D \in SUBSET Nat
    OBVIOUS
  <2>3. PICK k \in D : \A i \in D : k <= i
    <3> HIDE DEF D
    <3> QED BY <2>1, <2>2, SmallestNumber
  <2>4. k \in 1..n /\ t[k] # u[k]
    OBVIOUS
  <2>5. k # 1
    BY <1>1, <1>2, <2>4 DEF Traced
  <2>6. k - 1 \in 1..(n - 1) /\ k - 1 \in 1..n /\ (k - 1) + 1 = k
    BY <2>4, <2>5
  <2>7. t[k - 1] = u[k - 1]
    BY <2>3, <2>6
  <2>8. t[k] = addContainer(cs, rt.containers[k - 1], t[k - 1])
    BY <1>1, <2>6 DEF Traced
  <2>9. u[k] = addContainer(cs, rt.containers[k - 1], u[k - 1])
    BY <1>2, <2>6 DEF Traced
  <2>10. QED
    BY <2>4, <2>7, <2>8, <2>9
<1>4. QED
  BY <1>1, <1>2, <1>3

LEMMA BuiltKept ==
    ASSUME UNCHANGED <<rt, cfg>>, NEW cs, NEW n, NEW b, Built(cs, n, b)
    PROVE  Built(cs, n, b)'
<1>1. PICK t : Traced(cs, n, t) /\ t[n] = b
  BY DEF Built
<1>2. Start(cs)' = Start(cs)
  BY SameTransformations DEF Start
<1>3. ASSUME NEW k PROVE addContainer(cs, rt.containers[k], t[k])' = addContainer(cs, rt.containers[k], t[k])
  <2>1. ASSUME NEW d, NEW x PROVE addContainer(cs, d, x)' = addContainer(cs, d, x)
    BY SameTransformations
  <2>2. rt.containers[k]' = rt.containers[k]
    OBVIOUS
  <2>3. QED BY <2>1, <2>2
<1>4. Traced(cs, n, t)'
  BY <1>1, <1>2, <1>3 DEF Traced
<1>5. QED
  BY <1>1, <1>4 DEF Built

\* With the adapter, where there is one, and with what each later transformation adds.
Adapted(cs, b) == IF rt.adapter = "" THEN b ELSE addAdapter(cs, b)

ToEnv(b) == syncGracePeriod(b.pod)
ToConstraints(b) == addMMEnvVars(ToEnv(b))
ToEtcd(b) == addModelTypeConstraints(ToConstraints(b))
ToProxy(b) == configureEtcdSecret(ToEtcd(b))
ToTLS(b) == addRESTProxy(ToProxy(b))
ToMetadata(b) == configureTLSSecret(ToTLS(b))
ToLast(b) == configureMetadata(ToMetadata(b))
ToSecrets(b) == ensureMMContainerIsLast(ToLast(b))
ToPuller(b) == configureImagePullSecrets(ToSecrets(b), b.arr)
ToApply(cs, b) == addPuller(ToPuller(b), cs)

LaterSteps ==
    {"grace", "env", "constraints", "etcd", "proxy", "tls", "metadata", "last", "secrets", "puller", "apply"}

\* The pod at each step, from the one that has all containers of the runtime.
PodIs(cs, b) ==
    /\ phase = "grace" => pod = b.pod
    /\ phase = "env" => pod = ToEnv(b)
    /\ phase = "constraints" => pod = ToConstraints(b)
    /\ phase = "etcd" => pod = ToEtcd(b)
    /\ phase = "proxy" => pod = ToProxy(b)
    /\ phase = "tls" => pod = ToTLS(b)
    /\ phase = "metadata" => pod = ToMetadata(b)
    /\ phase = "last" => pod = ToLast(b)
    /\ phase = "secrets" => pod = ToSecrets(b)
    /\ phase = "puller" => pod = ToPuller(b)
    /\ phase = "apply" => pod = ToApply(cs, b)

\* The pod is what the transformations so far make of the template.
BuildInv ==
    /\ phase = "volumes" => pod = TemplatePod
    /\ phase = "mmsocket" => pod = addVolumes(TemplatePod, pvcs)
    /\ phase = "fields" => pod = addMMDomainSocketMount(addVolumes(TemplatePod, pvcs))
    /\ phase = "containers" => /\ next \in 1..(Len(rt.containers) + 1)
                               /\ Built(pvcs, next, Build(pod, backing))
    /\ phase \in LaterSteps => \E b : /\ BuiltAll(pvcs, b)
                                      /\ backing = Adapted(pvcs, b).arr
                                      /\ PodIs(pvcs, Adapted(pvcs, b))

\* Every deployment that was applied is the one that the sorted claims make.
AppliedInv ==
    CompleteSecret =>
      \A p \in Pods : \E cs \in Ordered(TheClaims) : \E b : BuiltAll(cs, b) /\ p = ToApply(cs, Adapted(cs, b))

LEMMA SameDeployment ==
    ASSUME UNCHANGED <<rt, cfg>>, NEW cs, NEW b
    PROVE  /\ Adapted(cs, b)' = Adapted(cs, b)
           /\ ToEnv(b)' = ToEnv(b) /\ ToConstraints(b)' = ToConstraints(b) /\ ToEtcd(b)' = ToEtcd(b)
           /\ ToProxy(b)' = ToProxy(b) /\ ToTLS(b)' = ToTLS(b) /\ ToMetadata(b)' = ToMetadata(b)
           /\ ToLast(b)' = ToLast(b) /\ ToSecrets(b)' = ToSecrets(b) /\ ToPuller(b)' = ToPuller(b)
           /\ ToApply(cs, b)' = ToApply(cs, b)
<1>1. Adapted(cs, b)' = Adapted(cs, b)
  BY SameTransformations DEF Adapted
<1>2. ToEnv(b)' = ToEnv(b)
  BY DEF ToEnv
<1>3. ToConstraints(b)' = ToConstraints(b)
  BY <1>2, SameTransformations DEF ToConstraints
<1>4. ToEtcd(b)' = ToEtcd(b)
  BY <1>3 DEF ToEtcd
<1>5. ToProxy(b)' = ToProxy(b)
  BY <1>4 DEF ToProxy
<1>6. ToTLS(b)' = ToTLS(b)
  BY <1>5, SameTransformations DEF ToTLS
<1>7. ToMetadata(b)' = ToMetadata(b)
  BY <1>6, SameTransformations DEF ToMetadata
<1>8. ToLast(b)' = ToLast(b)
  BY <1>7, SameTransformations DEF ToLast
<1>9. ToSecrets(b)' = ToSecrets(b)
  BY <1>8 DEF ToSecrets
<1>10. ToPuller(b)' = ToPuller(b)
  BY <1>9, SameTransformations DEF ToPuller
<1>11. ToApply(cs, b)' = ToApply(cs, b)
  BY <1>10, SameTransformations DEF ToApply
<1>12. QED BY <1>1, <1>2, <1>3, <1>4, <1>5, <1>6, <1>7, <1>8, <1>9, <1>10, <1>11

\* The transformations after the runtime's containers.
LaterNext ==
    \/ SyncGracePeriod \/ AddMMEnvVars \/ AddModelTypeConstraints \/ ConfigureEtcdSecret
    \/ AddRESTProxy \/ ConfigureTLSSecret \/ ConfigureMetadata \/ EnsureMMContainerIsLast
    \/ ConfigureImagePullSecrets \/ AddPuller

LEMMA PodStep ==
    ASSUME UNCHANGED <<rt, cfg>>, NEW cs, NEW x, pvcs = cs, backing = x.arr, PodIs(cs, x), LaterNext, phase' # "ended"
    PROVE  PodIs(cs, x)' /\ UNCHANGED <<backing, pvcs>> /\ phase \in LaterSteps /\ phase' \in LaterSteps
<1>a. /\ ToEnv(x)' = ToEnv(x) /\ ToConstraints(x)' = ToConstraints(x) /\ ToEtcd(x)' = ToEtcd(x)
      /\ ToProxy(x)' = ToProxy(x) /\ ToTLS(x)' = ToTLS(x) /\ ToMetadata(x)' = ToMetadata(x)
      /\ ToLast(x)' = ToLast(x) /\ ToSecrets(x)' = ToSecrets(x) /\ ToPuller(x)' = ToPuller(x)
      /\ ToApply(cs, x)' = ToApply(cs, x)
  BY SameDeployment
<1> USE DEF Change, Proceed, Fail, AtStep, found, PodIs, LaterSteps
<1>1. CASE SyncGracePeriod BY <1>1, <1>a DEF SyncGracePeriod, ToEnv
<1>2. CASE AddMMEnvVars BY <1>2, <1>a DEF AddMMEnvVars, ToConstraints
<1>3. CASE AddModelTypeConstraints BY <1>3, <1>a DEF AddModelTypeConstraints, ToEtcd
<1>4. CASE ConfigureEtcdSecret BY <1>4, <1>a DEF ConfigureEtcdSecret, ToProxy
<1>5. CASE AddRESTProxy BY <1>5, <1>a DEF AddRESTProxy, ToTLS
<1>6. CASE ConfigureTLSSecret BY <1>6, <1>a DEF ConfigureTLSSecret, ToMetadata
<1>7. CASE ConfigureMetadata BY <1>7, <1>a DEF ConfigureMetadata, ToLast
<1>8. CASE EnsureMMContainerIsLast BY <1>8, <1>a DEF EnsureMMContainerIsLast, ToSecrets
<1>9. CASE ConfigureImagePullSecrets BY <1>9, <1>a DEF ConfigureImagePullSecrets, ToPuller
<1>10. CASE AddPuller BY <1>10, <1>a DEF AddPuller, ToApply
<1>11. QED
  BY <1>1, <1>2, <1>3, <1>4, <1>5, <1>6, <1>7, <1>8, <1>9, <1>10 DEF LaterNext

LEMMA LaterBuild ==
    ASSUME BuildInv, UNCHANGED <<rt, cfg>>, LaterNext
    PROVE  BuildInv'
<1>1. phase \in LaterSteps
  BY DEF LaterNext, LaterSteps, AtStep, SyncGracePeriod, AddMMEnvVars, AddModelTypeConstraints,
         ConfigureEtcdSecret, AddRESTProxy, ConfigureTLSSecret, ConfigureMetadata, EnsureMMContainerIsLast,
         ConfigureImagePullSecrets, AddPuller
<1>2. CASE phase' = "ended"
  BY <1>2 DEF BuildInv, LaterSteps
<1>3. CASE phase' # "ended"
  <2>1. PICK cs : cs = pvcs
    OBVIOUS
  <2>2. PICK b : BuiltAll(cs, b) /\ backing = Adapted(cs, b).arr /\ PodIs(cs, Adapted(cs, b))
    BY <1>1, <2>1 DEF BuildInv
  <2>3. PICK x : x = Adapted(cs, b)
    OBVIOUS
  <2>4. x = Adapted(cs, b)'
    BY <2>3, SameDeployment
  <2>5. PodIs(cs, x)' /\ UNCHANGED <<backing, pvcs>> /\ phase' \in LaterSteps
    BY <1>3, <2>1, <2>2, <2>3, PodStep
  <2>6. BuiltAll(cs, b)'
    BY <2>2, BuiltKept DEF BuiltAll
  <2>7. pvcs' = cs /\ backing' = x.arr
    BY <2>1, <2>2, <2>3, <2>5
  <2>8. QED
    BY <2>4, <2>5, <2>6, <2>7 DEF BuildInv, LaterSteps
<1>4. QED BY <1>2, <1>3

LEMMA NextBuild ==
    InputsInv /\ BuildInv /\ [DeploymentNext]_deploymentVars => BuildInv'
<1> SUFFICES ASSUME InputsInv, BuildInv, [DeploymentNext]_deploymentVars
             PROVE  BuildInv'
  OBVIOUS
<1>a. UNCHANGED <<rt, cfg>>
  BY InputsKept DEF inputs
<1>b. PICK cs : cs = pvcs
  OBVIOUS
<1>c. PICK n : n = next
  OBVIOUS
<1>d. Len(rt.containers) \in Nat /\ Len(rt.containers)' = Len(rt.containers)
  BY <1>a DEF InputsInv, RuntimeSet
<1> USE DEF Change, Proceed, Fail, AtStep, found, LaterSteps
<1>1. CASE LoadManifest
  BY <1>1 DEF LoadManifest, BuildInv
<1>2. CASE AddVolumes
  <2>1. addVolumes(TemplatePod, cs)' = addVolumes(TemplatePod, cs)
    BY <1>a, SameTransformations
  <2>2. pod' = addVolumes(TemplatePod, cs) /\ phase' = "mmsocket" /\ pvcs' = cs
    BY <1>2, <1>b DEF AddVolumes, BuildInv
  <2>3. QED BY <2>1, <2>2 DEF BuildInv
<1>3. CASE AddMMDomainSocketMount
  <2>1. PICK v : v = addVolumes(TemplatePod, cs)
    OBVIOUS
  <2>2. v = addVolumes(TemplatePod, cs)' /\ addMMDomainSocketMount(v)' = addMMDomainSocketMount(v)
    BY <1>a, <2>1, SameTransformations
  <2>3. pod' = addMMDomainSocketMount(v) /\ phase' = "fields" /\ pvcs' = cs
    BY <1>3, <1>b, <2>1 DEF AddMMDomainSocketMount, BuildInv
  <2>4. QED BY <2>2, <2>3 DEF BuildInv
<1>4. CASE AddPassThroughPodFields
  <2>1. Build(pod', backing') = Start(cs)
    BY <1>4, <1>b DEF AddPassThroughPodFields, BuildInv, Start
  <2>2. PICK b : b = Start(cs)
    OBVIOUS
  <2>3. Built(cs, 1, b)'
    BY <1>a, <2>2, BuiltFirst, BuiltKept
  <2>4. next' = 1 /\ phase' = "containers" /\ pvcs' = cs
    BY <1>4, <1>b DEF AddPassThroughPodFields
  <2>5. Built(pvcs, next, Build(pod, backing))'
    BY <2>1, <2>2, <2>3, <2>4
  <2>6. QED BY <1>d, <2>4, <2>5 DEF BuildInv
<1>5. CASE AddContainer
  <2>1. CASE ManySocketDirs
    BY <1>5, <2>1 DEF AddContainer, BuildInv
  <2>2. CASE ~ ManySocketDirs
    <3>1. n \in Nat \ {0} /\ n <= Len(rt.containers)
      BY <1>5, <1>c, <1>d DEF AddContainer, BuildInv
    <3>2. PICK b : b = Build(pod, backing)
      OBVIOUS
    <3>3. Built(cs, n, b)
      BY <1>5, <1>b, <1>c, <3>2 DEF AddContainer, BuildInv
    <3>4. PICK e : e = addContainer(cs, rt.containers[n], b)
      OBVIOUS
    <3>5. Built(cs, n + 1, e)
      BY <3>1, <3>3, <3>4, BuiltNext
    <3>6. Built(cs, n + 1, e)'
      BY <1>a, <3>5, BuiltKept
    <3>7. pod' = e.pod /\ backing' = e.arr /\ next' = n + 1 /\ phase' = "containers" /\ pvcs' = cs
      BY <1>5, <1>b, <1>c, <2>2, <3>2, <3>4 DEF AddContainer
    <3>8. Build(e.pod, e.arr) = e
      BY <3>4 DEF addContainer, Build
    <3>9. Built(pvcs, next, Build(pod, backing))'
      BY <3>6, <3>7, <3>8
    <3>10. QED BY <1>d, <3>1, <3>7, <3>9 DEF BuildInv
  <2>3. QED BY <2>1, <2>2
<1>6. CASE AddAdapter
  <2>1. CASE phase' = "ended"
    BY <2>1 DEF BuildInv
  <2>2. CASE phase' # "ended"
    <3>1. PICK b : b = Build(pod, backing)
      OBVIOUS
    <3>2. next = Len(rt.containers) + 1
      <4>1. next \in 1..(Len(rt.containers) + 1) /\ next > Len(rt.containers)
        BY <1>6 DEF AddAdapter, BuildInv
      <4>2. QED BY <1>d, <4>1
    <3>3. BuiltAll(cs, b)
      BY <1>6, <1>b, <3>1, <3>2 DEF AddAdapter, BuildInv, BuiltAll
    <3>4. BuiltAll(cs, b)'
      BY <1>a, <1>d, <3>3, BuiltKept DEF BuiltAll
    <3>5. Adapted(cs, b)' = Adapted(cs, b) /\ Adapted(cs, b) = addAdapter(cs, b)
      BY <1>6, <1>a, SameDeployment DEF AddAdapter, Adapted
    <3>6. /\ pod' = addAdapter(cs, b).pod /\ backing' = addAdapter(cs, b).arr
          /\ phase' = "grace" /\ pvcs' = cs
      BY <1>6, <1>b, <2>2, <3>1 DEF AddAdapter
    <3>7. QED BY <3>4, <3>5, <3>6 DEF BuildInv, PodIs
  <2>3. QED BY <2>1, <2>2
<1>7. CASE NoAdapter
  <2>1. PICK b : b = Build(pod, backing)
    OBVIOUS
  <2>2. next = Len(rt.containers) + 1
    <3>1. next \in 1..(Len(rt.containers) + 1) /\ next > Len(rt.containers)
      BY <1>7 DEF NoAdapter, BuildInv
    <3>2. QED BY <1>d, <3>1
  <2>3. BuiltAll(cs, b)
    BY <1>7, <1>b, <2>1, <2>2 DEF NoAdapter, BuildInv, BuiltAll
  <2>4. BuiltAll(cs, b)'
    BY <1>a, <1>d, <2>3, BuiltKept DEF BuiltAll
  <2>5. Adapted(cs, b)' = b
    BY <1>7, <1>a, SameDeployment DEF NoAdapter, Adapted
  <2>6. pod' = b.pod /\ backing' = b.arr /\ phase' = "grace" /\ pvcs' = cs
    BY <1>7, <1>b, <2>1 DEF NoAdapter, Build
  <2>7. QED BY <2>4, <2>5, <2>6 DEF BuildInv, PodIs
<1>8. CASE LaterNext
  BY <1>8, <1>a, LaterBuild
<1>9. CASE phase' \in {"validate", "storage", "scale", "manifest", "ended"}
  BY <1>9 DEF BuildInv
<1>10. CASE UNCHANGED deploymentVars
  <2>1. UNCHANGED <<phase, pvcs, pod, next, backing>>
    BY <1>10 DEF deploymentVars
  <2>2. PICK v : v = addVolumes(TemplatePod, cs)
    OBVIOUS
  <2>3. v = addVolumes(TemplatePod, cs)' /\ addMMDomainSocketMount(v)' = addMMDomainSocketMount(v)
    BY <1>a, <2>2, SameTransformations
  <2>4. PICK b : b = Build(pod, backing)
    OBVIOUS
  <2>5. Built(cs, n, b) => Built(cs, n, b)'
    BY <1>a, BuiltKept
  <2>6. CASE phase \notin LaterSteps
    BY <1>b, <1>c, <1>d, <2>1, <2>2, <2>3, <2>4, <2>5, <2>6 DEF BuildInv
  <2>7. CASE phase \in LaterSteps
    <3>1. PICK d : BuiltAll(cs, d) /\ backing = Adapted(cs, d).arr /\ PodIs(cs, Adapted(cs, d))
      BY <2>7, <1>b DEF BuildInv
    <3>2. PICK x : x = Adapted(cs, d)
      OBVIOUS
    <3>3. x = Adapted(cs, d)'
      BY <1>a, <3>2, SameDeployment
    <3>4. BuiltAll(cs, d)'
      BY <1>a, <3>1, BuiltKept DEF BuiltAll
    <3>5. PodIs(cs, x)'
      BY <1>a, <2>1, <3>1, <3>2, SameDeployment DEF PodIs
    <3>6. QED
      BY <1>b, <2>1, <2>7, <3>1, <3>2, <3>3, <3>4, <3>5 DEF BuildInv
  <2>8. QED BY <2>6, <2>7
<1>11. QED
  <2>1. BuildNext => LoadManifest \/ AddVolumes \/ AddMMDomainSocketMount \/ AddPassThroughPodFields
                     \/ AddContainer \/ AddAdapter \/ NoAdapter \/ LaterNext
    BY DEF BuildNext, LaterNext
  <2>2. Handle \/ Validate \/ GetPVCs \/ DeleteDeployment \/ Scale \/ (\E e \in entries : ReadStorageEntry(e))
        \/ ApplyManifest \/ ReconcileAgain
        => phase' \in {"validate", "storage", "scale", "manifest", "ended"}
    BY DEF Handle, Validate, GetPVCs, DeleteDeployment, Scale, ReadStorageEntry, ApplyManifest, ReconcileAgain
  <2>3. QED
    BY <1>1, <1>2, <1>3, <1>4, <1>5, <1>6, <1>7, <1>8, <1>9, <1>10, <2>1, <2>2, StepKinds

LEMMA NextApplied ==
    ClaimsInv /\ BuildInv /\ AppliedInv /\ applied \in Seq(Pods) /\ [DeploymentNext]_deploymentVars
      => AppliedInv' /\ (applied \in Seq(Pods))'
<1> SUFFICES ASSUME ClaimsInv, BuildInv, AppliedInv, applied \in Seq(Pods), [DeploymentNext]_deploymentVars
             PROVE  AppliedInv' /\ (applied \in Seq(Pods))'
  OBVIOUS
<1>a. UNCHANGED <<rt, cfg>>
  BY InputsKept DEF inputs
<1>b. CompleteSecret' = CompleteSecret /\ TheClaims' = TheClaims
  BY <1>a DEF CompleteSecret, TheClaims, SecretClaims, PredictorClaims
<1>c. Ordered(TheClaims)' = Ordered(TheClaims)
  BY <1>b
<1> DEFINE Ok(p) == \E cs \in Ordered(TheClaims) : \E b : BuiltAll(cs, b) /\ p = ToApply(cs, Adapted(cs, b))
           OkAfter(p) == \E cs \in Ordered(TheClaims)' : \E b : BuiltAll(cs, b)' /\ p = ToApply(cs, Adapted(cs, b))'
<1>d. ASSUME NEW p, Ok(p) PROVE OkAfter(p)
  <2>1. PICK cs \in Ordered(TheClaims) : \E b : BuiltAll(cs, b) /\ p = ToApply(cs, Adapted(cs, b))
    BY <1>d
  <2>2. PICK b : BuiltAll(cs, b) /\ p = ToApply(cs, Adapted(cs, b))
    BY <2>1
  <2>3. BuiltAll(cs, b)'
    BY <1>a, <2>2, BuiltKept DEF BuiltAll
  <2>4. PICK x : x = Adapted(cs, b)
    OBVIOUS
  <2>5. x = Adapted(cs, b)' /\ ToApply(cs, x)' = ToApply(cs, x)
    BY <1>a, <2>4, SameDeployment
  <2>6. p = ToApply(cs, Adapted(cs, b))'
    BY <2>2, <2>4, <2>5
  <2>7. QED BY <1>c, <2>3, <2>6
<1>e. CompleteSecret => \A p \in Pods : Ok(p)
  BY DEF AppliedInv
<1>1. CASE applied' = applied
  <2>1. Pods' = Pods
    BY <1>1 DEF Pods
  <2>2. CompleteSecret' => \A p \in Pods' : OkAfter(p)
    <3> HIDE DEF Ok, OkAfter
    <3> QED BY <1>b, <1>d, <1>e, <2>1
  <2>3. QED
    BY <1>1, <2>1, <2>2 DEF AppliedInv
<1>2. CASE applied' # applied
  <2>1. ApplyManifest /\ applied' = Append(applied, pod)
    BY <1>2, StepKinds, BuildIsStep
       DEF Handle, Validate, GetPVCs, DeleteDeployment, Scale, ReadStorageEntry, BuildStep, ApplyManifest,
           ReconcileAgain, Proceed, Fail, deploymentVars
  <2>2. \A q \in Pods' : q \in Pods \/ q = pod
    BY <2>1 DEF Pods
  <2>3. (applied \in Seq(Pods))'
    <3>1. applied \in Seq(Pods \cup {pod}) /\ pod \in Pods \cup {pod}
      BY SeqMonotonic
    <3>2. Pods' = Pods \cup {pod}
      BY <2>1 DEF Pods
    <3>3. QED BY <2>1, <3>1, <3>2
  <2>4. phase = "apply"
    BY <2>1 DEF ApplyManifest, AtStep
  <2>5. PICK cs : cs = pvcs
    OBVIOUS
  <2>6. CompleteSecret => cs \in Ordered(TheClaims)
    BY <2>4, <2>5 DEF ClaimsInv
  <2>7. PICK b : BuiltAll(cs, b) /\ PodIs(cs, Adapted(cs, b))
    BY <2>4, <2>5 DEF BuildInv, LaterSteps
  <2>8. pod = ToApply(cs, Adapted(cs, b))
    BY <2>4, <2>7 DEF PodIs
  <2>9. CompleteSecret => Ok(pod)
    BY <2>6, <2>7, <2>8
  <2>10. CompleteSecret' => \A q \in Pods' : OkAfter(q)
    <3> HIDE DEF Ok, OkAfter
    <3> QED BY <1>b, <1>d, <1>e, <2>2, <2>9
  <2>11. QED
    BY <2>3, <2>10 DEF AppliedInv
<1>3. QED BY <1>1, <1>2

\* Two deployments from the same claims are the same.
LEMMA AppliedSame == InputsInv /\ AppliedInv => StableDeployment
<1> SUFFICES ASSUME InputsInv, AppliedInv, CompleteSecret, NEW p \in Pods, NEW q \in Pods
             PROVE  p = q
  BY DEF StableDeployment
<1>1. TheClaims \in SUBSET Range(PVCOrder)
  <2>1. /\ cfg.storage \in SUBSET [type : STRING, name : Range(PVCOrder) \cup {""}]
        /\ cfg.predictorPVCs \in SUBSET Range(PVCOrder)
    BY DEF InputsInv, ClusterSet
  <2>2. \A e \in cfg.storage : e.type = "pvc" => e.name \in Range(PVCOrder)
    BY <2>1 DEF CompleteSecret
  <2>3. QED BY <2>1, <2>2 DEF TheClaims, SecretClaims, PredictorClaims
<1>2. PICK cs \in Ordered(TheClaims) : \E b : BuiltAll(cs, b) /\ p = ToApply(cs, Adapted(cs, b))
  BY DEF AppliedInv
<1>3. PICK ds \in Ordered(TheClaims) : \E b : BuiltAll(ds, b) /\ q = ToApply(ds, Adapted(ds, b))
  BY DEF AppliedInv
<1>4. cs = ds
  BY <1>1, OrderedUnique
<1>5. PICK b : BuiltAll(cs, b) /\ p = ToApply(cs, Adapted(cs, b))
  BY <1>2
<1>6. PICK d : BuiltAll(cs, d) /\ q = ToApply(cs, Adapted(cs, d))
  BY <1>3, <1>4
<1>7. Len(rt.containers) + 1 \in Nat \ {0}
  BY DEF InputsInv, RuntimeSet
<1>8. b = d
  BY <1>5, <1>6, <1>7, BuiltUnique DEF BuiltAll
<1>9. QED BY <1>5, <1>6, <1>8

\* StableDeployment, for any runtime, any number of claims and of reconciles: the order in which
\* Go traverses the secret and the claims is not seen in the pods ("we must sort the PVCs to avoid
\* that otherwise identical runtime deployment specs are treated as different",
\* servingruntime_controller.go:428), although the containers share one array.
THEOREM DeploymentsStable == DeploymentSpec => []StableDeployment
<1> DEFINE Inv == InputsInv /\ ClaimsInv /\ BuildInv /\ AppliedInv /\ applied \in Seq(Pods)
<1>1. DeploymentInit => Inv
  <2> SUFFICES ASSUME DeploymentInit PROVE Inv
    OBVIOUS
  <2>1. applied = <<>> /\ pvcs = <<>> /\ phase = "admit"
    BY DEF DeploymentInit
  <2>2. Pods = {} /\ applied \in Seq(Pods) /\ pvcs \in Seq(Range(PVCOrder))
    BY <2>1, EmptySeq DEF Pods
  <2>3. ClaimsInv
    BY <2>1, <2>2 DEF DeploymentInit, ClaimsInv, BuildSteps
  <2>4. BuildInv
    BY <2>1 DEF BuildInv, LaterSteps
  <2>5. QED
    BY <2>2, <2>3, <2>4, InitInputs DEF AppliedInv
<1>2. Inv /\ [DeploymentNext]_deploymentVars => Inv'
  <2> SUFFICES ASSUME Inv, [DeploymentNext]_deploymentVars PROVE Inv'
    OBVIOUS
  <2>1. InputsInv'
    BY InputsKept DEF inputs, InputsInv
  <2>2. ClaimsInv' BY NextClaims
  <2>3. BuildInv' BY NextBuild
  <2>4. AppliedInv' /\ (applied \in Seq(Pods))' BY NextApplied
  <2>5. QED BY <2>1, <2>2, <2>3, <2>4
<1>3. Inv => StableDeployment
  BY AppliedSame
<1>4. QED
  BY <1>1, <1>2, <1>3, PTL DEF DeploymentSpec

-----------------------------------------------------------------------------
(* RuntimeDeployment: the mounts of the runtime's containers *)

\* A container and a pod have the fields that the transformations change.
Box(c) ==
    /\ c = Container(c.name, c.env, c.mounts)
    /\ c.mounts = [seq |-> c.mounts.seq, common |-> c.mounts.common]
    /\ c.mounts.common \in Nat

WellFormed(p) ==
    /\ p = [containers |-> p.containers, volumes |-> p.volumes, terms |-> p.terms, secrets |-> p.secrets,
            labels |-> p.labels]
    /\ p.containers \in Seq(Range(p.containers))
    /\ \A i \in DOMAIN p.containers : Box(p.containers[i])

\* The containers of p, but for model-mesh's own, are in q with the mounts they had.
Carries(p, q) ==
    \A j \in DOMAIN p.containers :
      p.containers[j].name \notin InternalContainers =>
        \E k \in DOMAIN q.containers : /\ q.containers[k].name = p.containers[j].name
                                       /\ q.containers[k].mounts = p.containers[j].mounts

LEMMA FunctionIsSeq ==
    ASSUME NEW n \in Nat, NEW S, NEW f \in [1..n -> S]
    PROVE  f \in Seq(Range(f))
<1>1. DOMAIN f = 1..n
  OBVIOUS
<1>2. \A k \in 1..n : f[k] \in Range(f)
  BY <1>1 DEF Range
<1>3. f \in [1..n -> Range(f)]
  BY <1>1, <1>2
<1>4. PICK R : R = Range(f)
  OBVIOUS
<1>5. f \in [1..n -> R]
  BY <1>3, <1>4
<1>6. f \in Seq(R)
  BY <1>5
<1>7. QED BY <1>4, <1>6

LEMMA FirstContainer ==
    ASSUME NEW p, WellFormed(p), NEW n
    PROVE  \/ FindContainer(p, n) = 0 /\ \A i \in DOMAIN p.containers : p.containers[i].name # n
           \/ FindContainer(p, n) \in DOMAIN p.containers /\ p.containers[FindContainer(p, n)].name = n
<1> DEFINE at == {i \in DOMAIN p.containers : p.containers[i].name = n}
<1>1. CASE at = {}
  BY <1>1 DEF FindContainer
<1>2. CASE at # {}
  <2>1. at \in SUBSET Nat
    BY DEF WellFormed
  <2>2. \E i \in at : \A j \in at : i <= j
    <3> HIDE DEF at
    <3> QED BY <1>2, <2>1, SmallestNumber
  <2>3. FindContainer(p, n) = CHOOSE i \in at : \A j \in at : i <= j
    BY <1>2 DEF FindContainer
  <2>4. FindContainer(p, n) \in at
    <3> HIDE DEF at
    <3> QED BY <2>2, <2>3
  <2>5. QED BY <2>4
<1>3. QED BY <1>1, <1>2

\* Setting variables of a container, and its mounts.
LEMMA BoxSet ==
    ASSUME NEW c, Box(c), NEW e, NEW s
    PROVE  /\ Box([c EXCEPT !.env = e]) /\ [c EXCEPT !.env = e].name = c.name
           /\ Box([c EXCEPT !.mounts.seq = s]) /\ [c EXCEPT !.mounts.seq = s].name = c.name
           /\ Box([c EXCEPT !.env = e, !.mounts.seq = s]) /\ [c EXCEPT !.env = e, !.mounts.seq = s].name = c.name
<1>1. PICK n, v, m, k : /\ k \in Nat /\ m = [seq |-> m.seq, common |-> k]
                        /\ c = [name |-> n, env |-> v, mounts |-> m]
  BY DEF Box, Container
<1>2. [m EXCEPT !.seq = s] = [seq |-> s, common |-> k]
  BY <1>1
<1>3. [c EXCEPT !.env = e] = Container(n, e, m)
  BY <1>1 DEF Container
<1>4. [c EXCEPT !.mounts.seq = s] = Container(n, v, [seq |-> s, common |-> k])
  BY <1>1, <1>2 DEF Container
<1>5. [c EXCEPT !.env = e, !.mounts.seq = s] = Container(n, e, [seq |-> s, common |-> k])
  <2>1. [c EXCEPT !.env = e, !.mounts.seq = s] = [Container(n, e, m) EXCEPT !.mounts.seq = s]
    BY <1>3
  <2>2. [Container(n, e, m) EXCEPT !.mounts.seq = s] = Container(n, e, [seq |-> s, common |-> k])
    BY <1>2 DEF Container
  <2>3. QED BY <2>1, <2>2
<1>6. \A x, y : Box(Container(n, x, [seq |-> y, common |-> k])) /\ Container(n, x, [seq |-> y, common |-> k]).name = n
  BY <1>1 DEF Box, Container
<1>7. Container(n, e, m) = Container(n, e, [seq |-> m.seq, common |-> k])
  BY <1>1
<1>8. c.name = n
  BY <1>1
<1>9. QED
  BY <1>3, <1>4, <1>5, <1>6, <1>7, <1>8

LEMMA BoxOwn ==
    ASSUME NEW n, NEW e, NEW s
    PROVE  Box(Container(n, e, Own(s))) /\ Container(n, e, Own(s)).mounts.common = 0 /\ Container(n, e, Own(s)).name = n
  BY DEF Box, Container, Own

\* Another model-mesh container disturbs no other.
LEMMA WithMMKeeps ==
    ASSUME NEW p, WellFormed(p), NEW c, FindContainer(p, "mm") # 0 => Box(c) /\ c.name = "mm"
    PROVE  WellFormed(WithMM(p, c)) /\ Carries(p, WithMM(p, c))
<1> DEFINE i == FindContainer(p, "mm")
           q == WithMM(p, c)
<1>1. q.containers = [p.containers EXCEPT ![i] = c]
  BY DEF WithMM, WellFormed
<1>2. q = [containers |-> q.containers, volumes |-> q.volumes, terms |-> q.terms, secrets |-> q.secrets,
            labels |-> q.labels]
  BY DEF WithMM, WellFormed
<1>3. CASE i = 0
  <2>1. 0 \notin DOMAIN p.containers
    BY DEF WellFormed
  <2>2. q.containers = p.containers
    BY <1>1, <1>3, <2>1 DEF WellFormed
  <2>3. QED BY <1>2, <2>2 DEF WellFormed, Carries
<1>4. CASE i # 0
  <2>1. i \in DOMAIN p.containers /\ p.containers[i].name = "mm"
    BY <1>4, FirstContainer
  <2>2. DOMAIN q.containers = DOMAIN p.containers /\ q.containers[i] = c
        /\ \A j \in DOMAIN p.containers : j # i => q.containers[j] = p.containers[j]
    BY <1>1, <2>1
  <2>3. q.containers \in Seq(Range(q.containers))
    <3>1. Len(p.containers) \in Nat /\ DOMAIN p.containers = 1..Len(p.containers)
      BY DEF WellFormed
    <3>2. p.containers \in [1..Len(p.containers) -> Range(p.containers)]
      BY DEF WellFormed
    <3>3. q.containers \in [1..Len(p.containers) -> Range(p.containers) \cup {c}]
      BY <1>1, <3>2
    <3> HIDE DEF q
    <3>4. QED BY <3>1, <3>3, FunctionIsSeq
  <2>4. WellFormed(q)
    <3> HIDE DEF q, i
    <3> QED BY <1>2, <1>4, <2>1, <2>2, <2>3 DEF WellFormed, i
  <2>5. Carries(p, q)
    <3> HIDE DEF q, i
    <3> QED BY <2>1, <2>2 DEF Carries, InternalContainers
  <2>6. QED BY <2>4, <2>5
<1>5. QED BY <1>3, <1>4

\* A pod with other containers, or with one more.
LEMMA ContainersSet ==
    ASSUME NEW p, WellFormed(p), NEW f, f \in Seq(Range(f)), \A i \in DOMAIN f : Box(f[i])
    PROVE  WellFormed([p EXCEPT !.containers = f]) /\ [p EXCEPT !.containers = f].containers = f
  BY DEF WellFormed

LEMMA ContainerAppended ==
    ASSUME NEW p, WellFormed(p), NEW c, Box(c)
    PROVE  /\ WellFormed([p EXCEPT !.containers = Append(@, c)])
           /\ Carries(p, [p EXCEPT !.containers = Append(@, c)])
           /\ \E k \in DOMAIN [p EXCEPT !.containers = Append(@, c)].containers :
                [p EXCEPT !.containers = Append(@, c)].containers[k] = c
           /\ \A k \in DOMAIN [p EXCEPT !.containers = Append(@, c)].containers :
                \/ k \in DOMAIN p.containers /\ [p EXCEPT !.containers = Append(@, c)].containers[k] = p.containers[k]
                \/ [p EXCEPT !.containers = Append(@, c)].containers[k] = c
           /\ \A k \in DOMAIN p.containers :
                /\ k \in DOMAIN [p EXCEPT !.containers = Append(@, c)].containers
                /\ [p EXCEPT !.containers = Append(@, c)].containers[k] = p.containers[k]
<1> DEFINE f == Append(p.containers, c)
           n == Len(p.containers)
<1>1. n \in Nat /\ DOMAIN p.containers = 1..n /\ p.containers \in Seq(Range(p.containers) \cup {c})
  BY SeqMonotonic DEF WellFormed
<1>2. /\ f \in Seq(Range(p.containers) \cup {c}) /\ Len(f) = n + 1 /\ DOMAIN f = 1..(n + 1)
      /\ f[n + 1] = c /\ \A i \in 1..n : f[i] = p.containers[i]
  BY <1>1
<1>3. f \in Seq(Range(f))
  BY <1>2, SeqOfRange
<1> DEFINE q == [p EXCEPT !.containers = Append(@, c)]
<1>4. q = [p EXCEPT !.containers = f]
  BY DEF WellFormed
<1>5. ASSUME NEW i \in DOMAIN f PROVE Box(f[i])
  <2>1. CASE i = n + 1 BY <2>1, <1>2
  <2>2. CASE i # n + 1
    <3>1. i \in DOMAIN p.containers
      BY <1>1, <1>2, <2>2
    <3>2. QED BY <1>1, <1>2, <3>1 DEF WellFormed
  <2>3. QED BY <2>1, <2>2
<1> HIDE DEF f, n, q
<1>6. WellFormed(q) /\ q.containers = f
  BY <1>3, <1>4, <1>5, ContainersSet
<1>7. Carries(p, q)
  BY <1>1, <1>2, <1>6 DEF Carries
<1>8. QED
  BY <1>1, <1>2, <1>6, <1>7 DEF q

LEMMA CarriesSame ==
    ASSUME NEW p, NEW q, q.containers = p.containers
    PROVE  Carries(p, q)
  BY DEF Carries

LEMMA CarriesOn ==
    ASSUME NEW p, NEW q, NEW r, Carries(p, q), Carries(q, r)
    PROVE  Carries(p, r)
<1> SUFFICES ASSUME NEW j \in DOMAIN p.containers, p.containers[j].name \notin InternalContainers
             PROVE  \E k \in DOMAIN r.containers : /\ r.containers[k].name = p.containers[j].name
                                                   /\ r.containers[k].mounts = p.containers[j].mounts
  BY DEF Carries
<1>1. PICK k \in DOMAIN q.containers : /\ q.containers[k].name = p.containers[j].name
                                       /\ q.containers[k].mounts = p.containers[j].mounts
  BY DEF Carries
<1>2. PICK l \in DOMAIN r.containers : /\ r.containers[l].name = q.containers[k].name
                                       /\ r.containers[l].mounts = q.containers[k].mounts
  BY <1>1 DEF Carries
<1>3. QED BY <1>1, <1>2

\* Fields other than the containers.
LEMMA OtherFields ==
    ASSUME NEW p, WellFormed(p), NEW x
    PROVE  /\ WellFormed([p EXCEPT !.volumes = x]) /\ [p EXCEPT !.volumes = x].containers = p.containers
           /\ WellFormed([p EXCEPT !.terms = x]) /\ [p EXCEPT !.terms = x].containers = p.containers
           /\ WellFormed([p EXCEPT !.labels = x]) /\ [p EXCEPT !.labels = x].containers = p.containers
           /\ WellFormed([p EXCEPT !.secrets = x]) /\ [p EXCEPT !.secrets = x].containers = p.containers
<1>1. PICK f, v, t, s, l : p = [containers |-> f, volumes |-> v, terms |-> t, secrets |-> s, labels |-> l]
  BY DEF WellFormed
<1>2. f \in Seq(Range(f)) /\ \A i \in DOMAIN f : Box(f[i])
  BY <1>1 DEF WellFormed
<1>3. ASSUME NEW a, NEW b, NEW c, NEW d
      PROVE  WellFormed([containers |-> f, volumes |-> a, terms |-> b, secrets |-> c, labels |-> d])
  BY <1>2 DEF WellFormed
<1>4. [p EXCEPT !.volumes = x] = [containers |-> f, volumes |-> x, terms |-> t, secrets |-> s, labels |-> l]
  BY <1>1
<1>5. [p EXCEPT !.terms = x] = [containers |-> f, volumes |-> v, terms |-> x, secrets |-> s, labels |-> l]
  BY <1>1
<1>6. [p EXCEPT !.labels = x] = [containers |-> f, volumes |-> v, terms |-> t, secrets |-> s, labels |-> x]
  BY <1>1
<1>7. [p EXCEPT !.secrets = x] = [containers |-> f, volumes |-> v, terms |-> t, secrets |-> x, labels |-> l]
  BY <1>1
<1>8. QED
  BY <1>1, <1>3, <1>4, <1>5, <1>6, <1>7

\* A transformation keeps the pod in form and the mounts of the runtime's containers.
Harmless(p, q) == WellFormed(q) /\ Carries(p, q)

LEMMA TemplateFormed == WellFormed(TemplatePod)
<1> DEFINE c == Container("mm", <<Env("KV_STORE", "template"), Env("MM_METRICS", "template"),
                                  Env("SHUTDOWN_TIMEOUT_MS", "template")>>, Own(<<>>))
<1>1. Box(c)
  BY BoxOwn
<1> HIDE DEF c
<1>2. TemplatePod.containers = <<c>>
  BY DEF TemplatePod, c
<1>3. <<c>> \in Seq({c}) /\ DOMAIN <<c>> = 1..1 /\ <<c>>[1] = c
  OBVIOUS
<1>4. <<c>> \in Seq(Range(<<c>>))
  BY <1>3, SeqOfRange
<1>5. TemplatePod = [containers |-> TemplatePod.containers, volumes |-> TemplatePod.volumes,
                     terms |-> TemplatePod.terms, secrets |-> TemplatePod.secrets, labels |-> TemplatePod.labels]
  BY DEF TemplatePod
<1>6. QED
  BY <1>1, <1>2, <1>3, <1>4, <1>5 DEF WellFormed

\* What the transformations do to the model-mesh container.
LEMMA MMFormed ==
    ASSUME NEW p, WellFormed(p), NEW e, NEW s
    PROVE  /\ Harmless(p, WithMM(p, [MM(p) EXCEPT !.env = e]))
           /\ Harmless(p, WithMM(p, [MM(p) EXCEPT !.mounts.seq = s]))
           /\ Harmless(p, WithMM(p, [MM(p) EXCEPT !.env = e, !.mounts.seq = s]))
<1>1. PICK m : m = MM(p)
  OBVIOUS
<1>2. FindContainer(p, "mm") # 0 => Box(m) /\ m.name = "mm"
  BY <1>1, FirstContainer DEF WellFormed, MM
<1>3. Harmless(p, WithMM(p, [MM(p) EXCEPT !.env = e]))
  <2>1. PICK c : c = [m EXCEPT !.env = e]
    OBVIOUS
  <2>2. FindContainer(p, "mm") # 0 => Box(c) /\ c.name = "mm"
    BY <1>2, <2>1, BoxSet
  <2>3. Harmless(p, WithMM(p, c))
    BY <2>2, WithMMKeeps DEF Harmless
  <2>4. c = [MM(p) EXCEPT !.env = e]
    BY <1>1, <2>1
  <2>5. QED BY <2>3, <2>4
<1>4. Harmless(p, WithMM(p, [MM(p) EXCEPT !.mounts.seq = s]))
  <2>1. PICK c : c = [m EXCEPT !.mounts.seq = s]
    OBVIOUS
  <2>2. FindContainer(p, "mm") # 0 => Box(c) /\ c.name = "mm"
    BY <1>2, <2>1, BoxSet
  <2>3. Harmless(p, WithMM(p, c))
    BY <2>2, WithMMKeeps DEF Harmless
  <2>4. c = [MM(p) EXCEPT !.mounts.seq = s]
    BY <1>1, <2>1
  <2>5. QED BY <2>3, <2>4
<1>5. Harmless(p, WithMM(p, [MM(p) EXCEPT !.env = e, !.mounts.seq = s]))
  <2>1. PICK c : c = [m EXCEPT !.env = e, !.mounts.seq = s]
    OBVIOUS
  <2>2. FindContainer(p, "mm") # 0 => Box(c) /\ c.name = "mm"
    BY <1>2, <2>1, BoxSet
  <2>3. Harmless(p, WithMM(p, c))
    BY <2>2, WithMMKeeps DEF Harmless
  <2>4. c = [MM(p) EXCEPT !.env = e, !.mounts.seq = s]
    BY <1>1, <2>1
  <2>5. QED BY <2>3, <2>4
<1>6. QED BY <1>3, <1>4, <1>5

LEMMA FieldHarmless ==
    ASSUME NEW p, WellFormed(p), NEW x
    PROVE  /\ Harmless(p, [p EXCEPT !.volumes = x]) /\ Harmless(p, [p EXCEPT !.terms = x])
           /\ Harmless(p, [p EXCEPT !.labels = x])
<1>1. /\ WellFormed([p EXCEPT !.volumes = x]) /\ [p EXCEPT !.volumes = x].containers = p.containers
      /\ WellFormed([p EXCEPT !.terms = x]) /\ [p EXCEPT !.terms = x].containers = p.containers
      /\ WellFormed([p EXCEPT !.labels = x]) /\ [p EXCEPT !.labels = x].containers = p.containers
  BY OtherFields
<1>2. /\ Carries(p, [p EXCEPT !.volumes = x]) /\ Carries(p, [p EXCEPT !.terms = x])
      /\ Carries(p, [p EXCEPT !.labels = x])
  BY <1>1, CarriesSame
<1>3. QED BY <1>1, <1>2 DEF Harmless

LEMMA HarmlessOn ==
    ASSUME NEW p, NEW q, NEW r, Harmless(p, q), Harmless(q, r)
    PROVE  Harmless(p, r)
  BY CarriesOn DEF Harmless

LEMMA VolumesHarmless == ASSUME NEW p, WellFormed(p), NEW cs PROVE Harmless(p, addVolumes(p, cs))
<1>1. PICK x : addVolumes(p, cs) = [p EXCEPT !.volumes = x]
  BY DEF addVolumes
<1>2. QED BY <1>1, FieldHarmless

LEMMA SocketHarmless == ASSUME NEW p, WellFormed(p) PROVE Harmless(p, addMMDomainSocketMount(p))
<1>1. PICK s : s = Append(MM(p).mounts.seq, SocketMount(MountPoint.dir))
  OBVIOUS
<1>2. addMMDomainSocketMount(p) = p \/ addMMDomainSocketMount(p) = WithMM(p, [MM(p) EXCEPT !.mounts.seq = s])
  BY <1>1 DEF addMMDomainSocketMount
<1>3. QED BY <1>2, MMFormed, CarriesSame DEF Harmless

LEMMA FieldsHarmless == ASSUME NEW p, WellFormed(p) PROVE Harmless(p, addPassThroughPodFields(p))
<1>1. PICK x : addPassThroughPodFields(p) = [p EXCEPT !.terms = x]
  BY DEF addPassThroughPodFields
<1>2. QED BY <1>1, FieldHarmless

LEMMA GraceHarmless == ASSUME NEW p, WellFormed(p) PROVE Harmless(p, syncGracePeriod(p))
  BY MMFormed DEF syncGracePeriod

LEMMA EnvHarmless == ASSUME NEW p, WellFormed(p) PROVE Harmless(p, addMMEnvVars(p))
  BY MMFormed DEF addMMEnvVars

LEMMA ConstraintsHarmless == ASSUME NEW p, WellFormed(p) PROVE Harmless(p, addModelTypeConstraints(p))
<1>1. PICK e, s : addModelTypeConstraints(p) =
                    [WithMM(p, [MM(p) EXCEPT !.env = e, !.mounts.seq = s]) EXCEPT !.volumes = Append(@, "tc-config")]
  BY DEF addModelTypeConstraints
<1>2. PICK q : q = WithMM(p, [MM(p) EXCEPT !.env = e, !.mounts.seq = s])
  OBVIOUS
<1>3. Harmless(p, q)
  BY <1>2, MMFormed
<1>4. PICK v : addModelTypeConstraints(p) = [q EXCEPT !.volumes = v]
  BY <1>1, <1>2
<1>5. WellFormed(q)
  BY <1>3 DEF Harmless
<1>6. Harmless(q, [q EXCEPT !.volumes = v])
  BY <1>5, FieldHarmless
<1>7. QED BY <1>3, <1>4, <1>6, HarmlessOn

LEMMA EtcdHarmless == ASSUME NEW p, WellFormed(p) PROVE Harmless(p, configureEtcdSecret(p))
<1>1. PICK e, s : configureEtcdSecret(p) =
                    [WithMM(p, [MM(p) EXCEPT !.env = e, !.mounts.seq = s]) EXCEPT !.volumes = WithItem(@, "etcd-config")]
  BY DEF configureEtcdSecret
<1>2. PICK q : q = WithMM(p, [MM(p) EXCEPT !.env = e, !.mounts.seq = s])
  OBVIOUS
<1>3. Harmless(p, q)
  BY <1>2, MMFormed
<1>4. PICK v : configureEtcdSecret(p) = [q EXCEPT !.volumes = v]
  BY <1>1, <1>2
<1>5. WellFormed(q)
  BY <1>3 DEF Harmless
<1>6. Harmless(q, [q EXCEPT !.volumes = v])
  BY <1>5, FieldHarmless
<1>7. QED BY <1>3, <1>4, <1>6, HarmlessOn

LEMMA ProxyHarmless == ASSUME NEW p, WellFormed(p) PROVE Harmless(p, addRESTProxy(p))
  BY BoxOwn, ContainerAppended, CarriesSame DEF addRESTProxy, Harmless

LEMMA MetadataHarmless == ASSUME NEW p, WellFormed(p) PROVE Harmless(p, configureMetadata(p))
<1>1. PICK x : configureMetadata(p) = [p EXCEPT !.labels = x]
  BY DEF configureMetadata
<1>2. QED BY <1>1, FieldHarmless

LEMMA PullerHarmless == ASSUME NEW p, WellFormed(p), NEW cs PROVE Harmless(p, addPuller(p, cs))
  BY BoxOwn, ContainerAppended, CarriesSame DEF addPuller, Puller, Harmless

LEMMA TLSHarmless == ASSUME NEW p, WellFormed(p) PROVE Harmless(p, configureTLSSecret(p))
<1>1. CASE cfg.tls = "off"
  BY <1>1, CarriesSame DEF configureTLSSecret, Harmless
<1>2. CASE cfg.tls # "off"
  <2> DEFINE f == [i \in DOMAIN p.containers |-> IF p.containers[i].name \in TLSContainers
                                                   THEN WithTLS(p.containers[i]) ELSE p.containers[i]]
  <2>1. PICK n \in Nat : n = Len(p.containers) /\ DOMAIN p.containers = 1..n
    BY DEF WellFormed
  <2>2. PICK S : S = {f[i] : i \in 1..n}
    OBVIOUS
  <2>3. f \in [1..n -> S]
    BY <2>1, <2>2
  <2>4. f \in Seq(Range(f))
    <3> HIDE DEF f
    <3> QED BY <2>3, FunctionIsSeq
  <2>5. ASSUME NEW i \in DOMAIN f
        PROVE  Box(f[i]) /\ (p.containers[i].name \notin InternalContainers => f[i] = p.containers[i])
    <3>1. Box(p.containers[i])
      BY DEF WellFormed
    <3>2. PICK c : c = p.containers[i]
      OBVIOUS
    <3>3. PICK e, s : WithTLS(c) = [c EXCEPT !.env = e, !.mounts.seq = s]
      BY DEF WithTLS
    <3>4. Box(WithTLS(c))
      <4>1. Box(c)
        BY <3>1, <3>2
      <4>2. Box([c EXCEPT !.env = e, !.mounts.seq = s])
        BY <4>1, BoxSet
      <4>3. QED BY <3>3, <4>2
    <3>5. f[i] = IF c.name \in TLSContainers THEN WithTLS(c) ELSE c
      BY <3>2
    <3>6. TLSContainers \subseteq InternalContainers
      BY DEF TLSContainers, InternalContainers
    <3>7. QED BY <3>1, <3>2, <3>4, <3>5, <3>6
  <2>6. PICK v : configureTLSSecret(p) = [p EXCEPT !.containers = f, !.volumes = v]
    BY <1>2 DEF configureTLSSecret
  <2>7. DOMAIN f = DOMAIN p.containers
    OBVIOUS
  <2> HIDE DEF f
  <2>8. PICK q : q = [p EXCEPT !.containers = f]
    OBVIOUS
  <2>9. WellFormed(q) /\ q.containers = f
    BY <2>4, <2>5, <2>8, ContainersSet
  <2>10. Carries(p, q)
    BY <2>5, <2>7, <2>9 DEF Carries
  <2>11. configureTLSSecret(p) = [q EXCEPT !.volumes = v]
    BY <2>6, <2>8
  <2>12. Harmless(q, [q EXCEPT !.volumes = v])
    BY <2>9, FieldHarmless
  <2>13. QED BY <2>9, <2>10, <2>11, <2>12, HarmlessOn DEF Harmless
<1>3. QED BY <1>1, <1>2

LEMMA LastHarmless == ASSUME NEW p, WellFormed(p) PROVE Harmless(p, ensureMMContainerIsLast(p))
<1>1. PICK i : i = FindContainer(p, "mm")
  OBVIOUS
<1>2. CASE i = 0
  BY <1>1, <1>2, CarriesSame DEF ensureMMContainerIsLast, Harmless
<1>3. CASE i # 0
  <2>1. PICK n \in Nat : n = Len(p.containers) /\ DOMAIN p.containers = 1..n
    BY DEF WellFormed
  <2>2. i \in 1..n
    BY <1>1, <1>3, <2>1, FirstContainer
  <2>3. PICK f : f = [p.containers EXCEPT ![n] = p.containers[i], ![i] = p.containers[n]]
    OBVIOUS
  <2>4. ensureMMContainerIsLast(p) = [p EXCEPT !.containers = f]
    BY <1>1, <1>3, <2>1, <2>3 DEF ensureMMContainerIsLast
  <2>5. n \in 1..n
    BY <2>2
  <2>6. p.containers \in [1..n -> Range(p.containers)]
    BY <2>1 DEF WellFormed
  <2>7. f \in [1..n -> Range(p.containers)]
    BY <2>2, <2>3, <2>5, <2>6
  <2>8. f \in Seq(Range(f))
    BY <2>7, FunctionIsSeq
  <2>9. /\ f[n] = p.containers[i] /\ f[i] = p.containers[n]
        /\ \A k \in 1..n : k # n /\ k # i => f[k] = p.containers[k]
    BY <2>2, <2>3, <2>5, <2>6
  <2>10. \A k \in 1..n : Box(p.containers[k])
    BY <2>1 DEF WellFormed
  <2>11. \A k \in DOMAIN f : Box(f[k])
    BY <2>2, <2>5, <2>7, <2>9, <2>10
  <2>12. WellFormed([p EXCEPT !.containers = f]) /\ [p EXCEPT !.containers = f].containers = f
    BY <2>8, <2>11, ContainersSet
  <2>13. \A k \in 1..n : \E l \in DOMAIN f : f[l] = p.containers[k]
    BY <2>2, <2>5, <2>7, <2>9
  <2>14. Carries(p, [p EXCEPT !.containers = f])
    BY <2>1, <2>12, <2>13 DEF Carries
  <2>15. QED BY <2>4, <2>12, <2>14 DEF Harmless
<1>4. QED BY <1>2, <1>3

\* The pod that is turned into a resource: each container has the mounts that the array holds.
LEMMA SecretsResolve ==
    ASSUME NEW p, WellFormed(p), NEW arr
    PROVE  /\ WellFormed(configureImagePullSecrets(p, arr))
           /\ DOMAIN configureImagePullSecrets(p, arr).containers = DOMAIN p.containers
           /\ \A i \in DOMAIN p.containers :
                /\ configureImagePullSecrets(p, arr).containers[i].name = p.containers[i].name
                /\ configureImagePullSecrets(p, arr).containers[i].mounts = Own(Mounts(p.containers[i], arr))
<1> DEFINE f == [i \in DOMAIN p.containers |-> [p.containers[i] EXCEPT !.mounts = Own(Mounts(p.containers[i], arr))]]
<1>1. PICK n \in Nat : n = Len(p.containers) /\ DOMAIN p.containers = 1..n
  BY DEF WellFormed
<1>2. PICK S : S = {f[i] : i \in 1..n}
  OBVIOUS
<1>3. f \in [1..n -> S]
  BY <1>1, <1>2
<1>4. f \in Seq(Range(f))
  <2> HIDE DEF f
  <2> QED BY <1>3, FunctionIsSeq
<1>5. ASSUME NEW i \in DOMAIN p.containers
      PROVE  Box(f[i]) /\ f[i].name = p.containers[i].name /\ f[i].mounts = Own(Mounts(p.containers[i], arr))
  <2>1. PICK c : c = p.containers[i] /\ Box(c)
    BY DEF WellFormed
  <2>2. f[i] = [c EXCEPT !.mounts = Own(Mounts(c, arr))]
    BY <2>1
  <2>3. [c EXCEPT !.mounts = Own(Mounts(c, arr))] = Container(c.name, c.env, Own(Mounts(c, arr)))
    BY <2>1 DEF Box, Container
  <2>4. Container(c.name, c.env, Own(Mounts(c, arr))).mounts = Own(Mounts(c, arr))
    BY DEF Container
  <2>5. QED BY <2>1, <2>2, <2>3, <2>4, BoxOwn
<1>6. PICK x : configureImagePullSecrets(p, arr) = [p EXCEPT !.secrets = x, !.containers = f]
  BY DEF configureImagePullSecrets
<1>7. DOMAIN f = DOMAIN p.containers
  OBVIOUS
<1> HIDE DEF f
<1>8. PICK q : q = [p EXCEPT !.secrets = x]
  OBVIOUS
<1>9. WellFormed(q)
  BY <1>8, OtherFields
<1>10. configureImagePullSecrets(p, arr) = [q EXCEPT !.containers = f]
  BY <1>6, <1>8
<1>11. WellFormed([q EXCEPT !.containers = f]) /\ [q EXCEPT !.containers = f].containers = f
  BY <1>4, <1>5, <1>7, <1>9, ContainersSet
<1>12. QED BY <1>5, <1>7, <1>10, <1>11

\* The mounts a slice stands for.
Slice(s, arr) == IF s.common = 0 THEN s.seq ELSE SubSeq(arr, 1, s.common)

MountSet ==
    {Mount(v) : v \in STRING \cup {"models-dir", "storage-config"}}
    \cup {UserMount(v) : v \in STRING} \cup {SocketMount(d) : d \in STRING}

\* The runtime's claims fit the array exactly: append copies it.
Tight(cs) == Spare(Len(CommonMounts(cs))) = 0

LEMMA CommonType ==
    ASSUME NEW cs \in Seq(Range(PVCOrder))
    PROVE  /\ CommonMounts(cs) \in Seq(MountSet)
           /\ Len(CommonMounts(cs)) \in Nat \ {0}
<1> DEFINE m == [i \in DOMAIN cs |-> Mount(cs[i])]
<1>1. Mount("models-dir") \in MountSet /\ \A v \in STRING : Mount(v) \in MountSet
  BY DEF MountSet
<1>2. PICK n \in Nat : DOMAIN cs = 1..n /\ \A i \in 1..n : cs[i] \in STRING
  <2>1. Range(PVCOrder) \subseteq STRING
    BY DeploymentAssumption DEF Range
  <2>2. Len(cs) \in Nat /\ DOMAIN cs = 1..Len(cs) /\ \A i \in 1..Len(cs) : cs[i] \in Range(PVCOrder)
    OBVIOUS
  <2>3. QED BY <2>1, <2>2
<1>3. m \in [1..n -> MountSet]
  BY <1>1, <1>2
<1>4. m \in Seq(MountSet)
  <2> HIDE DEF m
  <2> QED BY <1>3
<1>5. <<Mount("models-dir")>> \in Seq(MountSet) /\ Len(<<Mount("models-dir")>>) = 1
  BY <1>1
<1>6. CommonMounts(cs) = <<Mount("models-dir")>> \o m
  BY DEF CommonMounts
<1> HIDE DEF m
<1>7. QED
  BY <1>4, <1>5, <1>6, ConcatProperties

LEMMA TightArray ==
    ASSUME NEW cs \in Seq(Range(PVCOrder)), Tight(cs)
    PROVE  Array(cs) = CommonMounts(cs)
<1>1. [i \in 1..0 |-> Mount("unused")] = <<>>
  OBVIOUS
<1>2. Array(cs) = CommonMounts(cs) \o <<>>
  BY <1>1 DEF Array, Tight
<1>3. QED BY <1>2, CommonType, ConcatEmptySeq

\* The mounts that a container of the runtime declares.
UserMounts(c) == [i \in DOMAIN c.mounts |-> UserMount(c.mounts[i])]

\* Where the array has no room, a container gets a copy with its own mounts after the common
\* ones, or the common ones themselves.
LEMMA TightAppend ==
    ASSUME NEW cs \in Seq(Range(PVCOrder)), NEW ms \in Seq(MountSet)
    PROVE  LET a == AppendToCommon(cs, CommonMounts(cs), ms)
           IN  /\ a.arr = CommonMounts(cs)
               /\ a.s = Own(Slice(a.s, a.arr)) \/ a.s = Common(Len(CommonMounts(cs)))
               /\ Slice(a.s, a.arr) \in Seq(MountSet)
               /\ Range(Slice(a.s, a.arr)) = Range(CommonMounts(cs)) \cup Range(ms)
<1> DEFINE arr == CommonMounts(cs)
           n == Len(arr)
           a == AppendToCommon(cs, arr, ms)
<1>1. arr \in Seq(MountSet) /\ n \in Nat \ {0}
  BY CommonType
<1>2. SubSeq(arr, 1, n) = arr
  BY <1>1, SubSeqFull
<1>3. CASE ms = <<>>
  <2>1. Len(ms) = 0
    BY <1>3
  <2>2. SubSeq(arr, n + 0 + 1, n) = <<>>
    BY <1>1, SubSeqEmpty
  <2>3. a = [arr |-> SubSeq(arr, 1, n) \o ms \o SubSeq(arr, n + 0 + 1, n), s |-> Common(n + 0)]
    BY <1>1, <2>1 DEF AppendToCommon
  <2>4. a = [arr |-> arr, s |-> Common(n)]
    BY <1>1, <1>2, <1>3, <2>2, <2>3, ConcatEmptySeq
  <2> HIDE DEF arr, n, a
  <2>5. Slice(a.s, a.arr) = arr /\ a.s = Common(n) /\ a.arr = arr
    BY <1>1, <1>2, <2>4 DEF Slice, Common
  <2>6. Range(ms) = {}
    BY <1>3 DEF Range
  <2>7. QED
    BY <1>1, <2>5, <2>6 DEF arr, n, a
<1>4. CASE ms # <<>>
  <2>1. Len(ms) \in Nat \ {0}
    BY <1>4
  <2>2. a = [arr |-> arr, s |-> Own(arr \o ms)]
    <3>1. ~ (n + Len(ms) <= Len(arr))
      BY <1>1, <2>1
    <3>2. a = [arr |-> arr, s |-> Own(SubSeq(arr, 1, n) \o ms)]
      BY <3>1 DEF AppendToCommon
    <3>3. QED BY <1>2, <3>2
  <2>3. arr \o ms \in Seq(MountSet) /\ Range(arr \o ms) = Range(arr) \cup Range(ms)
    BY <1>1, ConcatProperties, RangeConcatenation
  <2> HIDE DEF arr, n, a
  <2>4. Slice(a.s, a.arr) = arr \o ms /\ a.s = Own(arr \o ms) /\ a.arr = arr
    BY <2>2 DEF Slice, Own
  <2>5. QED
    BY <2>3, <2>4 DEF arr, a
<1>5. QED BY <1>3, <1>4

\* The slice of a container has its two fields, whatever the array.
LEMMA SliceShape ==
    ASSUME NEW cs \in Seq(Range(PVCOrder)), NEW arr, NEW ms, Len(ms) \in Nat
    PROVE  LET a == AppendToCommon(cs, arr, ms)
               d == AddDomainSocketMount(a)
           IN  /\ a.s = [seq |-> a.s.seq, common |-> a.s.common] /\ a.s.common \in Nat
               /\ d.s = [seq |-> d.s.seq, common |-> d.s.common] /\ d.s.common \in Nat
<1> DEFINE a == AppendToCommon(cs, arr, ms)
           d == AddDomainSocketMount(a)
<1>1. Len(CommonMounts(cs)) \in Nat
  BY CommonType
<1> DEFINE Shaped(s) == s = [seq |-> s.seq, common |-> s.common] /\ s.common \in Nat
<1>o. (\A x : Shaped(Own(x))) /\ \A k \in Nat : Shaped(Common(k))
  BY DEF Own, Common
<1>2. Shaped(a.s)
  <2>1. (\E x : a.s = Own(x)) \/ a.s = Common(Len(CommonMounts(cs)) + Len(ms))
    BY DEF AppendToCommon
  <2>2. Len(CommonMounts(cs)) + Len(ms) \in Nat
    BY <1>1
  <2> HIDE DEF Shaped, a
  <2>3. QED BY <1>o, <2>1, <2>2
<1> HIDE DEF a
<1>3. d = a \/ d.s = Common(a.s.common + 1) \/ \E x : d.s = Own(x)
  BY DEF AddDomainSocketMount, AppendMount
<1>4. Shaped(d.s)
  <2>1. a.s.common + 1 \in Nat
    BY <1>2
  <2> HIDE DEF Shaped
  <2>2. QED BY <1>o, <1>2, <1>3, <2>1
<1>5. QED BY <1>2, <1>4 DEF a

\* There is at most one directory for the sockets.
LEMMA OneSocketDir ==
    ASSUME InputsInv, ~ ManySocketDirs, SocketDirs # {}
    PROVE  SocketDirs = {CHOOSE d \in SocketDirs : TRUE} /\ SocketDirs \subseteq STRING
<1>1. SocketDirs \subseteq STRING
  <2>1. rt.data \in EndpointSet /\ rt.mgmt \in EndpointSet
    BY DEF InputsInv, RuntimeSet
  <2>2. \A e \in EndpointSet : ParseEndpoint(e).dir \in STRING \cup {"-"}
    BY DEF ParseEndpoint, EndpointSet
  <2>3. \A e \in Endpoints : ParseEndpoint(e).dir \in STRING \cup {"-"}
    BY <2>1, <2>2 DEF Endpoints
  <2>4. QED BY <2>3 DEF SocketDirs
<1>2. IsFiniteSet(SocketDirs)
  <2>1. SocketDirs \subseteq {ParseEndpoint(rt.data).dir, ParseEndpoint(rt.mgmt).dir}
    BY DEF SocketDirs, Endpoints
  <2>2. IsFiniteSet({ParseEndpoint(rt.mgmt).dir})
    BY FS_Singleton
  <2>3. IsFiniteSet({ParseEndpoint(rt.mgmt).dir} \cup {ParseEndpoint(rt.data).dir})
    BY <2>2, FS_AddElement
  <2>4. {ParseEndpoint(rt.mgmt).dir} \cup {ParseEndpoint(rt.data).dir} = {ParseEndpoint(rt.data).dir, ParseEndpoint(rt.mgmt).dir}
    OBVIOUS
  <2>5. QED BY <2>1, <2>3, <2>4, FS_Subset
<1>3. Cardinality(SocketDirs) \in Nat /\ Cardinality(SocketDirs) # 0
  BY <1>2, FS_CardinalityType, FS_EmptySet
<1>4. Cardinality(SocketDirs) = 1
  BY <1>3 DEF ManySocketDirs
<1>5. PICK d : SocketDirs = {d}
  BY <1>4, <1>2, FS_Singleton
<1>6. QED BY <1>1, <1>5

LEMMA TightMounts ==
    ASSUME InputsInv, ~ ManySocketDirs, NEW cs \in Seq(Range(PVCOrder)), NEW c, c.mounts \in Seq(STRING)
    PROVE  LET a == ContainerMounts(cs, c, CommonMounts(cs))
           IN  /\ a.arr = CommonMounts(cs)
               /\ Range(Slice(a.s, a.arr)) = Range(CommonMounts(cs))
                                             \cup {UserMount(c.mounts[i]) : i \in DOMAIN c.mounts}
                                             \cup {SocketMount(d) : d \in SocketDirs}
<1> DEFINE arr == CommonMounts(cs)
           ms == UserMounts(c)
           b == AppendToCommon(cs, arr, ms)
           a == ContainerMounts(cs, c, arr)
<1>1. ms \in Seq(MountSet) /\ Range(ms) = {UserMount(c.mounts[i]) : i \in DOMAIN c.mounts}
  <2>1. PICK n \in Nat : DOMAIN c.mounts = 1..n /\ \A i \in 1..n : c.mounts[i] \in STRING
    OBVIOUS
  <2>2. ms \in [1..n -> MountSet]
    BY <2>1 DEF UserMounts, MountSet
  <2>3. Range(ms) = {UserMount(c.mounts[i]) : i \in DOMAIN c.mounts}
    BY DEF UserMounts, Range
  <2> HIDE DEF ms
  <2>4. QED BY <2>2, <2>3
<1>2. a = AddDomainSocketMount(b)
  BY DEF ContainerMounts, UserMounts
<1> HIDE DEF ms, a
<1>3. /\ b.arr = arr
      /\ b.s = Own(Slice(b.s, b.arr)) \/ b.s = Common(Len(arr))
      /\ Slice(b.s, b.arr) \in Seq(MountSet)
      /\ Range(Slice(b.s, b.arr)) = Range(arr) \cup Range(ms)
  BY <1>1, TightAppend
<1> HIDE DEF b
<1>4. Len(arr) \in Nat
  BY CommonType
<1> HIDE DEF arr
<1>5. CASE SocketDirs = {}
  <2>1. a = b
    BY <1>2, <1>5 DEF AddDomainSocketMount
  <2>2. {SocketMount(d) : d \in SocketDirs} = {}
    BY <1>5
  <2>3. QED BY <1>1, <1>3, <2>1, <2>2 DEF arr, a
<1>6. CASE SocketDirs # {}
  <2>1. PICK m : m = SocketMount(CHOOSE d \in SocketDirs : TRUE)
    OBVIOUS
  <2>2. {SocketMount(d) : d \in SocketDirs} = {m} /\ m \in MountSet
    BY <1>6, <2>1, OneSocketDir DEF MountSet
  <2>3. a = AppendMount(b.arr, b.s, m)
    BY <1>2, <1>6, <2>1 DEF AddDomainSocketMount
  <2>4. ~ (b.s.common > 0 /\ b.s.common < Len(b.arr))
    BY <1>3, <1>4 DEF Own, Common
  <2>5. a = [arr |-> b.arr, s |-> Own(Append(Slice(b.s, b.arr), m))]
    BY <2>3, <2>4 DEF AppendMount, Slice
  <2>6. Slice(a.s, a.arr) = Append(Slice(b.s, b.arr), m) /\ a.arr = b.arr
    BY <2>5 DEF Slice, Own
  <2>7. PICK s \in Seq(MountSet) : s = Slice(b.s, b.arr)
    BY <1>3
  <2>8. Append(s, m) = s \o <<m>> /\ <<m>> \in Seq(MountSet)
    BY <2>2, <2>7
  <2>9. Range(<<m>>) = {m}
    BY DEF Range
  <2>10. Range(Append(s, m)) = Range(s) \cup {m}
    <3>1. PICK t \in Seq(MountSet) : t = <<m>>
      BY <2>8
    <3>2. Range(s \o t) = Range(s) \cup Range(t)
      BY RangeConcatenation
    <3>3. QED BY <2>8, <2>9, <3>1, <3>2
  <2>11. QED
    BY <1>1, <1>3, <2>2, <2>6, <2>7, <2>10 DEF arr, a
<1>7. QED BY <1>5, <1>6

\* The last container of the runtime with its name.
Latest(i) == \A j \in DOMAIN rt.containers : j > i => rt.containers[j].name # rt.containers[i].name

\* The first n containers of the runtime, where no later one has the name, are in the pod with
\* the mounts they should have.
Kept(p, arr, n) ==
    \A i \in 1..n :
      Latest(i) => \E j \in DOMAIN p.containers : /\ p.containers[j].name = rt.containers[i].name
                                                  /\ Range(Slice(p.containers[j].mounts, arr)) = Wanted(rt.containers[i])

ValidNames == \A i \in DOMAIN rt.containers : rt.containers[i].name \notin InternalContainers

LEMMA KeptSame ==
    ASSUME UNCHANGED <<rt, cfg, pvcs>>, NEW p, NEW arr, NEW n, Kept(p, arr, n)
    PROVE  Kept(p, arr, n)'
<1>1. SocketDirs' = SocketDirs
  BY SameVocabulary
<1>2. ASSUME NEW c PROVE Wanted(c)' = Wanted(c)
  BY <1>1 DEF Wanted
<1>3. ASSUME NEW i PROVE Latest(i)' = Latest(i) /\ (rt.containers[i])' = rt.containers[i]
  BY DEF Latest
<1>4. ASSUME NEW i PROVE Wanted(rt.containers[i])' = Wanted(rt.containers[i])
  BY <1>2, <1>3
<1>5. QED BY <1>3, <1>4 DEF Kept

LEMMA KeptCarried ==
    ASSUME InputsInv, ValidNames, NEW p, NEW q, NEW arr, NEW n \in 0..Len(rt.containers),
           Kept(p, arr, n), Carries(p, q)
    PROVE  Kept(q, arr, n)
<1> SUFFICES ASSUME NEW i \in 1..n, Latest(i)
             PROVE  \E k \in DOMAIN q.containers :
                      /\ q.containers[k].name = rt.containers[i].name
                      /\ Range(Slice(q.containers[k].mounts, arr)) = Wanted(rt.containers[i])
  BY DEF Kept
<1>1. i \in DOMAIN rt.containers
  BY DEF InputsInv, RuntimeSet
<1>2. PICK j \in DOMAIN p.containers : /\ p.containers[j].name = rt.containers[i].name
                                       /\ Range(Slice(p.containers[j].mounts, arr)) = Wanted(rt.containers[i])
  BY DEF Kept
<1>3. p.containers[j].name \notin InternalContainers
  BY <1>1, <1>2 DEF ValidNames
<1>4. PICK k \in DOMAIN q.containers : /\ q.containers[k].name = p.containers[j].name
                                       /\ q.containers[k].mounts = p.containers[j].mounts
  BY <1>3 DEF Carries
<1>5. QED BY <1>2, <1>4

Resolved(p) == \A i \in DOMAIN p.containers : p.containers[i].mounts.common = 0

LEMMA KeptResolved ==
    ASSUME NEW p, WellFormed(p), NEW arr, NEW n, Kept(p, arr, n)
    PROVE  Kept(configureImagePullSecrets(p, arr), arr, n)
<1>1. PICK q : q = configureImagePullSecrets(p, arr)
  OBVIOUS
<1>2. /\ DOMAIN q.containers = DOMAIN p.containers
      /\ \A i \in DOMAIN p.containers : /\ q.containers[i].name = p.containers[i].name
                                        /\ q.containers[i].mounts = Own(Mounts(p.containers[i], arr))
  BY <1>1, SecretsResolve
<1>3. ASSUME NEW x PROVE Slice(Own(x), arr) = x
  BY DEF Slice, Own
<1>4. ASSUME NEW i \in DOMAIN p.containers
      PROVE  Slice(q.containers[i].mounts, arr) = Slice(p.containers[i].mounts, arr)
  <2>1. Mounts(p.containers[i], arr) = Slice(p.containers[i].mounts, arr)
    BY DEF Mounts, Slice
  <2>2. Slice(Own(Mounts(p.containers[i], arr)), arr) = Mounts(p.containers[i], arr)
    BY <1>3
  <2>3. QED BY <1>2, <2>1, <2>2
<1>5. Kept(q, arr, n)
  <2> SUFFICES ASSUME NEW i \in 1..n, Latest(i)
               PROVE  \E j \in DOMAIN q.containers :
                        /\ q.containers[j].name = rt.containers[i].name
                        /\ Range(Slice(q.containers[j].mounts, arr)) = Wanted(rt.containers[i])
    BY DEF Kept
  <2>1. PICK j \in DOMAIN p.containers : /\ p.containers[j].name = rt.containers[i].name
                                         /\ Range(Slice(p.containers[j].mounts, arr)) = Wanted(rt.containers[i])
    BY DEF Kept
  <2>2. QED BY <1>2, <1>4, <2>1
<1>6. QED BY <1>1, <1>5

\* A container that is put into the pod is there, and the others with other names stay.
LEMMA ContainerPut ==
    ASSUME NEW p, WellFormed(p), NEW c, Box(c)
    PROVE  /\ WellFormed(PutContainer(p, c))
           /\ \E k \in DOMAIN PutContainer(p, c).containers : PutContainer(p, c).containers[k] = c
           /\ \A j \in DOMAIN p.containers :
                p.containers[j].name # c.name => /\ j \in DOMAIN PutContainer(p, c).containers
                                                 /\ PutContainer(p, c).containers[j] = p.containers[j]
<1>1. PICK i : i = FindContainer(p, c.name)
  OBVIOUS
<1>2. CASE i = 0
  <2>1. PutContainer(p, c) = [p EXCEPT !.containers = Append(@, c)]
    BY <1>1, <1>2 DEF PutContainer
  <2>2. PICK q : q = [p EXCEPT !.containers = Append(@, c)]
    OBVIOUS
  <2>3. /\ WellFormed(q)
        /\ \E k \in DOMAIN q.containers : q.containers[k] = c
        /\ \A k \in DOMAIN p.containers : k \in DOMAIN q.containers /\ q.containers[k] = p.containers[k]
    BY <2>2, ContainerAppended
  <2>4. PutContainer(p, c) = q
    BY <2>1, <2>2
  <2>5. QED BY <2>3, <2>4
<1>3. CASE i # 0
  <2>1. i \in DOMAIN p.containers /\ p.containers[i].name = c.name
    BY <1>1, <1>3, FirstContainer
  <2>2. PICK n \in Nat : DOMAIN p.containers = 1..n /\ p.containers \in [1..n -> Range(p.containers)]
    BY DEF WellFormed
  <2>3. PICK f : f = [p.containers EXCEPT ![i] = c]
    OBVIOUS
  <2>4. f \in [1..n -> Range(p.containers) \cup {c}]
    BY <2>2, <2>3
  <2>5. f \in Seq(Range(f))
    BY <2>4, FunctionIsSeq
  <2>6. DOMAIN f = DOMAIN p.containers /\ f[i] = c /\ \A j \in DOMAIN p.containers : j # i => f[j] = p.containers[j]
    BY <2>1, <2>2, <2>3
  <2>7. \A j \in DOMAIN f : Box(f[j])
    BY <2>6 DEF WellFormed
  <2>8. PutContainer(p, c) = [p EXCEPT !.containers = f]
    BY <1>1, <1>3, <2>3 DEF PutContainer, WellFormed
  <2>9. WellFormed(PutContainer(p, c)) /\ PutContainer(p, c).containers = f
    BY <2>5, <2>7, <2>8, ContainersSet
  <2>10. QED BY <2>1, <2>6, <2>9
<1>4. QED BY <1>2, <1>3

\* A container of the runtime is added: the pod stays well formed, and without room in the array
\* the container has the mounts it should have and the others keep theirs.
LEMMA ContainerKept ==
    ASSUME InputsInv, ~ ManySocketDirs, pvcs \in Seq(Range(PVCOrder)), NEW p, WellFormed(p), NEW arr,
           NEW n \in 1..Len(rt.containers)
    PROVE  LET b == addContainer(pvcs, rt.containers[n], Build(p, arr))
           IN  /\ WellFormed(b.pod)
               /\ arr = CommonMounts(pvcs) /\ Kept(p, arr, n - 1) => b.arr = arr /\ Kept(b.pod, arr, n)
<1>1. PICK c : c = rt.containers[n]
  OBVIOUS
<1>2. c.mounts \in Seq(STRING) /\ Len(rt.containers) \in Nat /\ DOMAIN rt.containers = 1..Len(rt.containers)
  <2>1. rt.containers \in Seq([name : STRING, mounts : Seq(STRING), flaw : BOOLEAN])
    BY DEF InputsInv, RuntimeSet
  <2>2. PICK S : S = [name : STRING, mounts : Seq(STRING), flaw : BOOLEAN]
    OBVIOUS
  <2>3. PICK s \in Seq(S) : s = rt.containers
    BY <2>1, <2>2
  <2>4. Len(s) \in Nat /\ DOMAIN s = 1..Len(s) /\ s[n] \in S
    BY <2>3
  <2>5. QED BY <1>1, <2>2, <2>3, <2>4
<1>3. PICK a : a = ContainerMounts(pvcs, c, arr)
  OBVIOUS
<1>4. PICK x : x = Container(c.name, <<>>, a.s)
  OBVIOUS
<1>5. PICK q : q = PutContainer(p, x)
  OBVIOUS
<1>6. PICK b : b = addContainer(pvcs, c, Build(p, arr))
  OBVIOUS
<1>7. b.pod = q /\ b.arr = a.arr
  BY <1>3, <1>4, <1>5, <1>6 DEF addContainer, Build
<1>8. x.name = c.name /\ x.mounts = a.s
  BY <1>4 DEF Container
<1>9. Box(x)
  <2>1. PICK ms : ms = UserMounts(c)
    OBVIOUS
  <2>2. Len(ms) \in Nat
    <3>1. DOMAIN ms = 1..Len(c.mounts) /\ Len(c.mounts) \in Nat
      BY <1>2, <2>1 DEF UserMounts
    <3>2. ms \in [1..Len(c.mounts) -> Range(ms)]
      BY <2>1, <3>1 DEF UserMounts, Range
    <3>3. QED BY <3>1, <3>2
  <2>3. a = AddDomainSocketMount(AppendToCommon(pvcs, arr, ms))
    BY <1>3, <2>1 DEF ContainerMounts, UserMounts
  <2>4. a.s = [seq |-> a.s.seq, common |-> a.s.common] /\ a.s.common \in Nat
    BY <2>2, <2>3, SliceShape
  <2>5. QED
    BY <1>4, <2>4 DEF Box, Container
<1>10. /\ WellFormed(q)
       /\ \E k \in DOMAIN q.containers : q.containers[k] = x
       /\ \A j \in DOMAIN p.containers :
            p.containers[j].name # x.name => j \in DOMAIN q.containers /\ q.containers[j] = p.containers[j]
  BY <1>5, <1>9, ContainerPut
<1>11. ASSUME arr = CommonMounts(pvcs), Kept(p, arr, n - 1)
       PROVE  a.arr = arr /\ Kept(q, arr, n)
  <2>1. a.arr = arr /\ Range(Slice(a.s, arr)) = Wanted(c)
    <3>1. PICK cs \in Seq(Range(PVCOrder)) : cs = pvcs
      OBVIOUS
    <3>2. a = ContainerMounts(cs, c, CommonMounts(cs)) /\ arr = CommonMounts(cs)
      BY <1>3, <1>11, <3>1
    <3>3. /\ a.arr = CommonMounts(cs)
          /\ Range(Slice(a.s, a.arr)) = Range(CommonMounts(cs))
                                        \cup {UserMount(c.mounts[i]) : i \in DOMAIN c.mounts}
                                        \cup {SocketMount(d) : d \in SocketDirs}
      BY <1>2, <3>2, TightMounts
    <3>4. QED BY <3>1, <3>2, <3>3 DEF Wanted
  <2>2. Kept(q, arr, n)
    <3> SUFFICES ASSUME NEW i \in 1..n, Latest(i)
                 PROVE  \E k \in DOMAIN q.containers :
                          /\ q.containers[k].name = rt.containers[i].name
                          /\ Range(Slice(q.containers[k].mounts, arr)) = Wanted(rt.containers[i])
      BY DEF Kept
    <3>1. CASE i = n
      BY <1>1, <1>8, <1>10, <2>1, <3>1
    <3>2. CASE i # n
      <4>1. i \in 1..(n - 1) /\ n \in DOMAIN rt.containers /\ n > i
        BY <1>2, <3>2
      <4>2. rt.containers[n].name # rt.containers[i].name
        BY <4>1 DEF Latest
      <4>3. PICK j \in DOMAIN p.containers : /\ p.containers[j].name = rt.containers[i].name
                                             /\ Range(Slice(p.containers[j].mounts, arr)) = Wanted(rt.containers[i])
        BY <1>11, <4>1 DEF Kept
      <4>4. j \in DOMAIN q.containers /\ q.containers[j] = p.containers[j]
        BY <1>1, <1>8, <1>10, <4>2, <4>3
      <4>5. QED BY <4>3, <4>4
    <3>3. QED BY <3>1, <3>2
  <2>3. QED BY <2>1, <2>2
<1>12. WellFormed(b.pod) /\ (arr = CommonMounts(pvcs) /\ Kept(p, arr, n - 1) => b.arr = arr /\ Kept(b.pod, arr, n))
  BY <1>7, <1>10, <1>11
<1>13. QED BY <1>1, <1>6, <1>12

\* The adapter is one more container, and without room it leaves the array as it was.
LEMMA AdapterKept ==
    ASSUME pvcs \in Seq(Range(PVCOrder)), NEW p, WellFormed(p), NEW arr
    PROVE  LET b == addAdapter(pvcs, Build(p, arr))
           IN  Harmless(p, b.pod) /\ (arr = CommonMounts(pvcs) => b.arr = arr)
<1>1. PICK ms : ms = <<Mount("storage-config")>>
  OBVIOUS
<1>2. ms \in Seq(MountSet) /\ Len(ms) \in Nat
  BY <1>1 DEF MountSet
<1>3. PICK m : m = AppendToCommon(pvcs, arr, ms)
  OBVIOUS
<1>4. PICK d : d = AddDomainSocketMount(m)
  OBVIOUS
<1>5. PICK a : a = IF Given(rt.data) THEN d ELSE m
  OBVIOUS
<1>6. PICK x : x = Container("adapter", AdapterEnv, a.s)
  OBVIOUS
<1>7. PICK b : b = addAdapter(pvcs, Build(p, arr))
  OBVIOUS
<1>8. b.pod = [p EXCEPT !.containers = Append(@, x)] /\ b.arr = a.arr
  BY <1>1, <1>3, <1>4, <1>5, <1>6, <1>7 DEF addAdapter, Build
<1>9. Box(x)
  <2>1. /\ m.s = [seq |-> m.s.seq, common |-> m.s.common] /\ m.s.common \in Nat
        /\ d.s = [seq |-> d.s.seq, common |-> d.s.common] /\ d.s.common \in Nat
    BY <1>2, <1>3, <1>4, SliceShape
  <2>2. a.s = [seq |-> a.s.seq, common |-> a.s.common] /\ a.s.common \in Nat
    BY <1>5, <2>1
  <2>3. QED BY <1>6, <2>2 DEF Box, Container
<1>10. Harmless(p, b.pod)
  BY <1>8, <1>9, ContainerAppended DEF Harmless
<1>11. ASSUME arr = CommonMounts(pvcs) PROVE a.arr = arr
  <2>1. PICK cs \in Seq(Range(PVCOrder)) : cs = pvcs
    OBVIOUS
  <2>2. m = AppendToCommon(cs, CommonMounts(cs), ms) /\ arr = CommonMounts(cs)
    BY <1>3, <1>11, <2>1
  <2>3. /\ m.arr = CommonMounts(cs)
        /\ m.s = Own(Slice(m.s, m.arr)) \/ m.s = Common(Len(CommonMounts(cs)))
    BY <1>2, <2>2, TightAppend
  <2>4. Len(arr) \in Nat
    BY <2>2, CommonType
  <2>5. ~ (m.s.common > 0 /\ m.s.common < Len(m.arr))
    BY <2>2, <2>3, <2>4 DEF Own, Common
  <2>6. d.arr = m.arr
    BY <1>4, <2>5 DEF AddDomainSocketMount, AppendMount
  <2>7. QED BY <1>5, <2>2, <2>3, <2>6
<1>12. QED BY <1>7, <1>8, <1>10, <1>11

LEMMA PullerResolved ==
    ASSUME NEW p, WellFormed(p), Resolved(p), NEW cs
    PROVE  Resolved(addPuller(p, cs))
<1>1. CASE ~ UseStorageHelper
  BY <1>1 DEF addPuller
<1>2. CASE UseStorageHelper
  <2>1. PICK c : c = Puller(cs)
    OBVIOUS
  <2>2. Box(c) /\ c.mounts.common = 0
    BY <2>1, BoxOwn DEF Puller
  <2>3. PICK q : q = [p EXCEPT !.containers = Append(@, c)]
    OBVIOUS
  <2>4. \A k \in DOMAIN q.containers : \/ k \in DOMAIN p.containers /\ q.containers[k] = p.containers[k]
                                       \/ q.containers[k] = c
    BY <2>2, <2>3, ContainerAppended
  <2>5. Resolved(q)
    BY <2>2, <2>4 DEF Resolved
  <2>6. QED BY <1>2, <2>1, <2>3, <2>5 DEF addPuller
<1>3. QED BY <1>1, <1>2

LEMMA SecretsResolved ==
    ASSUME NEW p, WellFormed(p), NEW arr
    PROVE  Resolved(configureImagePullSecrets(p, arr))
<1>1. PICK q : q = configureImagePullSecrets(p, arr)
  OBVIOUS
<1>2. /\ DOMAIN q.containers = DOMAIN p.containers
      /\ \A i \in DOMAIN p.containers : q.containers[i].mounts = Own(Mounts(p.containers[i], arr))
  BY <1>1, SecretsResolve
<1>3. \A x : Own(x).common = 0
  BY DEF Own
<1>4. QED BY <1>1, <1>2, <1>3 DEF Resolved

\* What is built of a runtime has passed the validator.
NamesInv == phase \notin {"admit", "validate", "ended"} => ValidNames

LEMMA NextNames == NamesInv /\ [DeploymentNext]_deploymentVars => NamesInv'
<1> SUFFICES ASSUME NamesInv, [DeploymentNext]_deploymentVars PROVE NamesInv'
  OBVIOUS
<1>a. UNCHANGED <<rt, cfg>>
  BY InputsKept DEF inputs
<1>b. ValidNames' = ValidNames
  BY <1>a DEF ValidNames
<1> USE DEF NamesInv, Proceed, Fail, AtStep
<1>1. CASE Handle
  BY <1>1 DEF Handle
<1>2. CASE Validate
  <2>1. phase' = "ended" \/ \A i \in DOMAIN rt.containers : ValidateContainer(rt.containers[i])
    BY <1>2 DEF Validate
  <2>2. \A c : ValidateContainer(c) => c.name \notin InternalContainers
    BY DEF ValidateContainer, CheckName
  <2>3. phase' = "ended" \/ ValidNames
    BY <2>1, <2>2 DEF ValidNames
  <2>4. QED BY <1>b, <2>3
<1>3. CASE phase \notin {"admit", "validate", "ended"}
  BY <1>3, <1>b
<1>4. CASE ApplyManifest \/ ReconcileAgain
  BY <1>4 DEF ApplyManifest, ReconcileAgain
<1>5. CASE UNCHANGED deploymentVars
  BY <1>5, <1>b DEF deploymentVars
<1>6. QED
  <2>1. BuildNext => phase \notin {"admit", "validate", "ended"}
    BY BuildIsStep DEF BuildStep, BuildSteps
  <2>2. GetPVCs \/ DeleteDeployment \/ Scale \/ (\E e \in entries : ReadStorageEntry(e))
        => phase \notin {"admit", "validate", "ended"}
    BY DEF GetPVCs, DeleteDeployment, Scale, ReadStorageEntry
  <2>3. QED BY <1>1, <1>2, <1>3, <1>4, <1>5, <2>1, <2>2, StepKinds

FormedSteps == LaterSteps \cup {"volumes", "mmsocket", "fields", "containers"}

KeptAll(p) == Tight(pvcs) => Kept(p, backing, Len(rt.containers))

\* While the deployment is built the pod is well formed; the containers that have been added
\* keep their mounts to the end, where none of them lies in the array any more.
KeptInv ==
    /\ phase \in FormedSteps => WellFormed(pod)
    /\ phase = "containers" /\ Tight(pvcs) => backing = CommonMounts(pvcs) /\ Kept(pod, backing, next - 1)
    /\ phase \in LaterSteps => KeptAll(pod)
    /\ phase \in {"puller", "apply"} => Resolved(pod)
    /\ Deployed => Accepts(pod) /\ Resolved(pod) /\ KeptAll(pod)

LEMMA KeptAllSame ==
    ASSUME UNCHANGED <<rt, cfg, pvcs, backing>>, NEW p, KeptAll(p)
    PROVE  KeptAll(p)'
<1>1. PICK arr : arr = backing
  OBVIOUS
<1>2. PICK n : n = Len(rt.containers)
  OBVIOUS
<1>3. Tight(pvcs)' = Tight(pvcs) /\ backing' = arr /\ Len(rt.containers)' = n
  BY <1>1, <1>2
<1>4. Kept(p, arr, n) => Kept(p, arr, n)'
  BY KeptSame
<1>5. QED BY <1>1, <1>2, <1>3, <1>4 DEF KeptAll

LEMMA LaterPod ==
    ASSUME InputsInv, ValidNames, UNCHANGED <<rt, cfg>>, LaterNext, phase' # "ended",
           WellFormed(pod), KeptAll(pod), phase = "puller" => Resolved(pod)
    PROVE  /\ UNCHANGED <<pvcs, backing>> /\ phase' \in LaterSteps
           /\ WellFormed(pod)' /\ KeptAll(pod)'
           /\ phase' \in {"puller", "apply"} => Resolved(pod)'
<1>1. PICK p : p = pod
  OBVIOUS
<1>2. PICK q : q = pod'
  OBVIOUS
<1>3. PICK arr : arr = backing
  OBVIOUS
<1>4. PICK n : n = Len(rt.containers)
  OBVIOUS
<1>5. n \in 0..n
  BY <1>4 DEF InputsInv, RuntimeSet
<1>a. UNCHANGED <<pvcs, backing>> /\ phase' \in LaterSteps
  BY DEF LaterNext, LaterSteps, Change, Proceed, Fail, found, SyncGracePeriod, AddMMEnvVars, AddModelTypeConstraints,
         ConfigureEtcdSecret, AddRESTProxy, ConfigureTLSSecret, ConfigureMetadata, EnsureMMContainerIsLast,
         ConfigureImagePullSecrets, AddPuller
<1> SUFFICES WellFormed(q) /\ KeptAll(q) /\ (phase' \in {"puller", "apply"} => Resolved(q))
  <2>1. KeptAll(q)'
    BY <1>a, KeptAllSame
  <2>2. WellFormed(pod)' /\ (phase' \in {"puller", "apply"} => Resolved(pod)')
    BY <1>2 DEF WellFormed, Resolved
  <2>3. KeptAll(pod)'
    BY <1>2, <2>1 DEF KeptAll, Kept
  <2>4. QED BY <1>a, <2>2, <2>3
<1> USE DEF AtStep, Change, Proceed, Fail
<1>6. CASE ConfigureImagePullSecrets
  <2>1. q = configureImagePullSecrets(p, arr)
    BY <1>1, <1>2, <1>3, <1>6 DEF ConfigureImagePullSecrets
  <2>2. WellFormed(q) /\ Resolved(q)
    BY <1>1, <2>1, SecretsResolve, SecretsResolved
  <2>3. Kept(p, arr, n) => Kept(q, arr, n)
    BY <1>1, <2>1, KeptResolved
  <2>4. QED BY <1>1, <1>3, <1>4, <2>2, <2>3 DEF KeptAll
<1>7. CASE Harmless(p, q) /\ (phase' \in {"puller", "apply"} => Resolved(q))
  <2>1. Kept(p, arr, n) => Kept(q, arr, n)
    BY <1>4, <1>5, <1>7, KeptCarried DEF Harmless
  <2>2. QED BY <1>1, <1>3, <1>4, <1>7, <2>1 DEF KeptAll, Harmless
<1>8. CASE SyncGracePeriod
  BY <1>1, <1>2, <1>7, <1>8, GraceHarmless DEF SyncGracePeriod
<1>9. CASE AddMMEnvVars
  BY <1>1, <1>2, <1>7, <1>9, EnvHarmless DEF AddMMEnvVars
<1>10. CASE AddModelTypeConstraints
  BY <1>1, <1>2, <1>7, <1>10, ConstraintsHarmless DEF AddModelTypeConstraints
<1>11. CASE ConfigureEtcdSecret
  BY <1>1, <1>2, <1>7, <1>11, EtcdHarmless DEF ConfigureEtcdSecret
<1>12. CASE AddRESTProxy
  BY <1>1, <1>2, <1>7, <1>12, ProxyHarmless DEF AddRESTProxy
<1>13. CASE ConfigureTLSSecret
  BY <1>1, <1>2, <1>7, <1>13, TLSHarmless DEF ConfigureTLSSecret
<1>14. CASE ConfigureMetadata
  BY <1>1, <1>2, <1>7, <1>14, MetadataHarmless DEF ConfigureMetadata
<1>15. CASE EnsureMMContainerIsLast
  BY <1>1, <1>2, <1>7, <1>15, LastHarmless DEF EnsureMMContainerIsLast
<1>16. CASE AddPuller
  <2>1. PICK cs : cs = pvcs
    OBVIOUS
  <2>2. q = addPuller(p, cs) /\ phase = "puller"
    BY <1>1, <1>2, <1>16, <2>1 DEF AddPuller
  <2>3. Harmless(p, q) /\ Resolved(q)
    BY <1>1, <2>2, PullerHarmless, PullerResolved
  <2>4. QED BY <1>7, <2>3
<1>17. QED
  BY <1>6, <1>8, <1>9, <1>10, <1>11, <1>12, <1>13, <1>14, <1>15, <1>16 DEF LaterNext

\* Without the steps from "volumes" on, and without a deployment, KeptInv says nothing.
LEMMA KeptElsewhere ==
    ASSUME phase \notin FormedSteps, ~ Deployed
    PROVE  KeptInv
  BY DEF KeptInv, FormedSteps, LaterSteps

LEMMA NextKept ==
    InputsInv /\ ClaimsInv /\ BuildInv /\ NamesInv /\ KeptInv /\ [DeploymentNext]_deploymentVars
      => KeptInv'
<1> SUFFICES ASSUME InputsInv, ClaimsInv, BuildInv, NamesInv, KeptInv, [DeploymentNext]_deploymentVars
             PROVE  KeptInv'
  OBVIOUS
<1>a. UNCHANGED <<rt, cfg>>
  BY InputsKept DEF inputs
<1>b. PICK p : p = pod
  OBVIOUS
<1>c. PICK arr : arr = backing
  OBVIOUS
<1>d. PICK n : n = next
  OBVIOUS
<1>e. PICK cs \in Seq(Range(PVCOrder)) : cs = pvcs
  BY DEF ClaimsInv
<1>f. Len(rt.containers) \in Nat /\ Len(rt.containers)' = Len(rt.containers)
  BY <1>a DEF InputsInv, RuntimeSet
<1>g. ASSUME phase' = "ended", outcome' # "applied" PROVE KeptInv'
  BY <1>g DEF KeptInv, FormedSteps, LaterSteps, Deployed
<1>h. ASSUME phase' \notin FormedSteps \cup {"ended"} PROVE KeptInv'
  BY <1>h DEF KeptInv, FormedSteps, LaterSteps, Deployed
<1>i. ASSUME phase' \in {"volumes", "mmsocket", "fields"}, WellFormed(pod)' PROVE KeptInv'
  BY <1>i DEF KeptInv, LaterSteps, Deployed
<1> USE DEF AtStep, Change, Proceed, Fail, found
<1>1. CASE LoadManifest
  <2>1. \/ phase' = "ended" /\ outcome' # "applied"
        \/ phase' = "volumes" /\ pod' = TemplatePod
    BY <1>1 DEF LoadManifest
  <2>2. ASSUME pod' = TemplatePod PROVE WellFormed(pod)'
    <3>1. PICK t : t = TemplatePod
      OBVIOUS
    <3>2. WellFormed(t) /\ pod' = t
      BY <2>2, <3>1, TemplateFormed
    <3>3. QED BY <3>2 DEF WellFormed
  <2>3. QED BY <2>1, <2>2, <1>g, <1>i
<1>2. CASE AddVolumes
  <2>1. phase' = "mmsocket" /\ pod' = addVolumes(p, cs) /\ WellFormed(p)
    BY <1>2, <1>b, <1>e DEF AddVolumes, KeptInv, FormedSteps
  <2>2. PICK q : q = pod'
    OBVIOUS
  <2>3. WellFormed(q)
    BY <2>1, <2>2, VolumesHarmless DEF Harmless
  <2>4. WellFormed(pod)'
    BY <2>2, <2>3 DEF WellFormed
  <2>5. QED BY <2>1, <2>4, <1>i
<1>3. CASE AddMMDomainSocketMount
  <2>1. phase' = "fields" /\ pod' = addMMDomainSocketMount(p) /\ WellFormed(p)
    BY <1>3, <1>b DEF AddMMDomainSocketMount, KeptInv, FormedSteps
  <2>2. PICK q : q = pod'
    OBVIOUS
  <2>3. WellFormed(q)
    BY <2>1, <2>2, SocketHarmless DEF Harmless
  <2>4. WellFormed(pod)'
    BY <2>2, <2>3 DEF WellFormed
  <2>5. QED BY <2>1, <2>4, <1>i
<1>4. CASE AddPassThroughPodFields
  <2>1. /\ phase' = "containers" /\ pod' = addPassThroughPodFields(p) /\ WellFormed(p)
        /\ next' = 1 /\ backing' = Array(cs) /\ pvcs' = cs
    BY <1>4, <1>b, <1>e DEF AddPassThroughPodFields, KeptInv, FormedSteps
  <2>2. PICK q : q = pod'
    OBVIOUS
  <2>3. WellFormed(q)
    BY <2>1, <2>2, FieldsHarmless DEF Harmless
  <2>4. WellFormed(pod)'
    BY <2>2, <2>3 DEF WellFormed
  <2>5. Tight(cs) => backing' = CommonMounts(cs)
    BY <2>1, TightArray
  <2>6. Kept(pod, backing, next - 1)'
    BY <2>1 DEF Kept
  <2>7. QED BY <2>1, <2>4, <2>5, <2>6 DEF KeptInv, LaterSteps, Deployed
<1>5. CASE AddContainer
  <2>1. CASE ManySocketDirs
    BY <1>5, <1>g, <2>1 DEF AddContainer
  <2>2. CASE ~ ManySocketDirs
    <3>1. n \in 1..Len(rt.containers) /\ WellFormed(p)
      BY <1>5, <1>b, <1>d, <1>f DEF AddContainer, BuildInv, KeptInv, FormedSteps
    <3>2. PICK b : b = addContainer(pvcs, rt.containers[n], Build(p, arr))
      OBVIOUS
    <3>3. /\ WellFormed(b.pod)
          /\ arr = CommonMounts(pvcs) /\ Kept(p, arr, n - 1) => b.arr = arr /\ Kept(b.pod, arr, n)
      BY <1>e, <2>2, <3>1, <3>2, ContainerKept
    <3>4. pod' = b.pod /\ backing' = b.arr /\ next' = n + 1 /\ phase' = "containers" /\ pvcs' = pvcs
      BY <1>5, <1>b, <1>c, <1>d, <2>2, <3>2 DEF AddContainer
    <3>5. Tight(cs) => arr = CommonMounts(cs) /\ Kept(p, arr, n - 1)
      BY <1>5, <1>b, <1>c, <1>d, <1>e DEF AddContainer, KeptInv
    <3>6. PICK q : q = b.pod
      OBVIOUS
    <3>7. WellFormed(pod)'
      BY <3>3, <3>4, <3>6 DEF WellFormed
    <3>8. Tight(cs) => backing' = CommonMounts(cs) /\ backing' = arr /\ Kept(q, arr, n)'
      BY <1>a, <1>e, <3>3, <3>4, <3>5, <3>6, KeptSame
    <3>9. next' - 1 = n
      BY <3>1, <3>4
    <3>10. Tight(cs) => Kept(pod, backing, next - 1)'
      BY <3>4, <3>6, <3>8, <3>9 DEF Kept
    <3>11. QED BY <1>e, <3>4, <3>7, <3>8, <3>10 DEF KeptInv, LaterSteps, Deployed
  <2>3. QED BY <2>1, <2>2
<1>6. CASE AddAdapter /\ phase' # "ended"
  <2>1. PICK b : b = addAdapter(pvcs, Build(p, arr))
    OBVIOUS
  <2>2. pod' = b.pod /\ backing' = b.arr /\ phase' = "grace" /\ pvcs' = pvcs /\ phase = "containers"
    BY <1>6, <1>b, <1>c, <2>1 DEF AddAdapter
  <2>3. WellFormed(p)
    BY <1>b, <2>2 DEF KeptInv, FormedSteps
  <2>4. Harmless(p, b.pod) /\ (arr = CommonMounts(pvcs) => b.arr = arr)
    BY <1>e, <2>1, <2>3, AdapterKept
  <2>5. n = Len(rt.containers) + 1
    <3>1. n \in 1..(Len(rt.containers) + 1) /\ n > Len(rt.containers)
      BY <1>6, <1>d, <2>2 DEF AddAdapter, BuildInv
    <3>2. QED BY <1>f, <3>1
  <2>6. PICK m \in Nat : m = Len(rt.containers)
    BY <1>f
  <2>7. n - 1 = m
    BY <2>5, <2>6
  <2>8. Tight(cs) => arr = CommonMounts(cs) /\ Kept(p, arr, m)
    BY <1>b, <1>c, <1>d, <1>e, <2>2, <2>7 DEF KeptInv
  <2>9. PICK q : q = b.pod
    OBVIOUS
  <2>10. ValidNames
    BY <2>2 DEF NamesInv
  <2>11. Tight(cs) => Kept(q, arr, m)
    BY <2>4, <2>6, <2>8, <2>9, <2>10, KeptCarried DEF Harmless
  <2>12. Tight(cs) => backing' = arr /\ Kept(q, arr, m)'
    BY <1>a, <1>e, <2>2, <2>4, <2>8, <2>11, KeptSame
  <2>13. Len(rt.containers)' = m
    BY <1>f, <2>6
  <2>14. KeptAll(pod)'
    BY <1>e, <2>2, <2>9, <2>12, <2>13 DEF KeptAll, Kept
  <2>15. WellFormed(pod)'
    BY <2>2, <2>4, <2>9 DEF Harmless, WellFormed
  <2>16. QED BY <2>2, <2>14, <2>15 DEF KeptInv, Deployed
<1>7. CASE NoAdapter
  <2>1. UNCHANGED <<pod, backing, pvcs>> /\ phase' = "grace" /\ phase = "containers"
    BY <1>7 DEF NoAdapter
  <2>2. n = Len(rt.containers) + 1
    <3>1. n \in 1..(Len(rt.containers) + 1) /\ n > Len(rt.containers)
      BY <1>7, <1>d, <2>1 DEF NoAdapter, BuildInv
    <3>2. QED BY <1>f, <3>1
  <2>3. n - 1 = Len(rt.containers)
    BY <1>f, <2>2
  <2>4. WellFormed(p) /\ KeptAll(p)
    BY <1>b, <1>d, <2>1, <2>3 DEF KeptInv, FormedSteps, KeptAll
  <2>5. KeptAll(p)' /\ pod' = p
    BY <1>a, <1>b, <2>1, <2>4, KeptAllSame
  <2>6. WellFormed(pod)' /\ KeptAll(pod)'
    BY <2>4, <2>5 DEF WellFormed, KeptAll, Kept
  <2>7. QED BY <2>1, <2>6 DEF KeptInv, Deployed
<1>8. CASE LaterNext /\ phase' # "ended"
  <2>1. phase \in LaterSteps \ {"apply"}
    BY <1>8 DEF LaterNext, LaterSteps, SyncGracePeriod, AddMMEnvVars, AddModelTypeConstraints,
         ConfigureEtcdSecret, AddRESTProxy, ConfigureTLSSecret, ConfigureMetadata, EnsureMMContainerIsLast,
         ConfigureImagePullSecrets, AddPuller
  <2>2. ValidNames /\ WellFormed(pod) /\ KeptAll(pod) /\ (phase = "puller" => Resolved(pod))
    BY <2>1 DEF NamesInv, KeptInv, FormedSteps, LaterSteps
  <2>3. /\ phase' \in LaterSteps /\ WellFormed(pod)' /\ KeptAll(pod)'
        /\ phase' \in {"puller", "apply"} => Resolved(pod)'
    BY <1>8, <1>a, <2>2, LaterPod
  <2>4. QED BY <2>3 DEF KeptInv, LaterSteps, Deployed
<1>9. CASE ApplyManifest
  <2>1. phase = "apply" /\ phase' = "ended" /\ UNCHANGED <<pod, pvcs, backing>> /\ (outcome' = "applied" => Accepts(p))
    BY <1>9, <1>b DEF ApplyManifest
  <2>2. Resolved(p) /\ KeptAll(p)
    BY <1>b, <2>1 DEF KeptInv, LaterSteps
  <2>3. KeptAll(p)' /\ pod' = p
    BY <1>a, <1>b, <2>1, <2>2, KeptAllSame
  <2>4. KeptAll(pod)' /\ Resolved(pod)' /\ (outcome' = "applied" => Accepts(pod)')
    BY <2>1, <2>2, <2>3 DEF KeptAll, Kept, Resolved, Accepts
  <2>5. QED BY <2>1, <2>4 DEF KeptInv, FormedSteps, LaterSteps, Deployed
<1>10. CASE UNCHANGED deploymentVars
  <2>1. UNCHANGED <<phase, pod, pvcs, next, backing, outcome>>
    BY <1>10 DEF deploymentVars
  <2>2. KeptAll(p) => KeptAll(p)'
    BY <1>a, <2>1, KeptAllSame
  <2>3. PICK m : m = n - 1
    OBVIOUS
  <2>4. Kept(p, arr, m) => Kept(p, arr, m)'
    BY <1>a, <2>1, KeptSame
  <2>5. pod' = p /\ backing' = arr /\ (next - 1)' = m /\ next - 1 = m
    BY <1>b, <1>c, <1>d, <2>1, <2>3
  <2>6. KeptAll(pod) => KeptAll(pod)'
    BY <1>b, <2>2, <2>5 DEF KeptAll, Kept
  <2>7. Kept(pod, backing, next - 1) => Kept(pod, backing, next - 1)'
    BY <1>b, <1>c, <2>4, <2>5 DEF Kept
  <2>8. /\ WellFormed(pod)' = WellFormed(pod) /\ Resolved(pod)' = Resolved(pod) /\ Accepts(pod)' = Accepts(pod)
        /\ Tight(pvcs)' = Tight(pvcs) /\ CommonMounts(pvcs)' = CommonMounts(pvcs) /\ Deployed' = Deployed
    BY <2>1 DEF Deployed
  <2>9. QED BY <2>1, <2>6, <2>7, <2>8 DEF KeptInv
<1>11. QED
  <2>1. BuildNext => LoadManifest \/ AddVolumes \/ AddMMDomainSocketMount \/ AddPassThroughPodFields
                     \/ AddContainer \/ AddAdapter \/ NoAdapter \/ LaterNext
    BY DEF BuildNext, LaterNext
  <2>2. Handle \/ Validate \/ GetPVCs \/ DeleteDeployment \/ Scale \/ (\E e \in entries : ReadStorageEntry(e))
        \/ ReconcileAgain
        => phase' \notin FormedSteps \cup {"ended"} \/ (phase' = "ended" /\ outcome' # "applied")
    BY DEF Handle, Validate, GetPVCs, DeleteDeployment, Scale, ReadStorageEntry, ReconcileAgain, FormedSteps, LaterSteps
  <2>3. BuildNext /\ phase' = "ended" => outcome' # "applied"
    BY BuildIsStep DEF BuildStep, BuildSteps
  <2>4. CASE BuildNext /\ phase' = "ended"
    BY <1>g, <2>3, <2>4
  <2>5. QED
    BY <1>1, <1>2, <1>3, <1>4, <1>5, <1>6, <1>7, <1>8, <1>9, <1>10, <1>g, <1>h, <2>1, <2>2, <2>4, StepKinds

LEMMA KeptMounts == InputsInv /\ KeptInv => MountsKept
<1> SUFFICES ASSUME InputsInv, KeptInv, Deployed, Tight(pvcs) PROVE HasMounts(pod)
  BY DEF MountsKept, Tight
<1> SUFFICES ASSUME NEW i \in DOMAIN rt.containers, Latest(i)
             PROVE  MountsOf(pod.containers[At1(pod, rt.containers[i].name)]) = Wanted(rt.containers[i])
  BY DEF HasMounts, Latest
<1>1. Accepts(pod) /\ Resolved(pod) /\ Kept(pod, backing, Len(rt.containers))
  BY DEF KeptInv, KeptAll
<1>2. i \in 1..Len(rt.containers)
  BY DEF InputsInv, RuntimeSet
<1>3. PICK j \in DOMAIN pod.containers : /\ pod.containers[j].name = rt.containers[i].name
                                         /\ Range(Slice(pod.containers[j].mounts, backing)) = Wanted(rt.containers[i])
  BY <1>1, <1>2 DEF Kept
<1>4. At1(pod, rt.containers[i].name) = j
  BY <1>1, <1>3 DEF Accepts, At1
<1>5. Slice(pod.containers[j].mounts, backing) = pod.containers[j].mounts.seq
  BY <1>1 DEF Resolved, Slice
<1>6. QED BY <1>3, <1>4, <1>5 DEF MountsOf

\* MountsKept, for any runtime, any number of containers and of claims: where append has no room
\* in the array of common mounts, addRuntimeToDeployment gives each container of a deployment its
\* own mounts, and the transformations after it, which move containers and add others, keep them.
THEOREM MountsAreKept == DeploymentSpec => []MountsKept
<1> DEFINE Inv == InputsInv /\ ClaimsInv /\ BuildInv /\ NamesInv /\ KeptInv
<1>1. DeploymentInit => Inv
  <2> SUFFICES ASSUME DeploymentInit PROVE Inv
    OBVIOUS
  <2>1. pvcs = <<>> /\ phase = "admit"
    BY DEF DeploymentInit
  <2>2. ClaimsInv
    BY <2>1, EmptySeq DEF DeploymentInit, ClaimsInv, BuildSteps
  <2>3. BuildInv
    BY <2>1 DEF BuildInv, LaterSteps
  <2>4. KeptInv
    BY <2>1, KeptElsewhere DEF FormedSteps, LaterSteps, Deployed
  <2>5. QED
    BY <2>1, <2>2, <2>3, <2>4, InitInputs DEF NamesInv
<1>2. Inv /\ [DeploymentNext]_deploymentVars => Inv'
  <2> SUFFICES ASSUME Inv, [DeploymentNext]_deploymentVars PROVE Inv'
    OBVIOUS
  <2>1. InputsInv'
    BY InputsKept DEF inputs, InputsInv
  <2>2. ClaimsInv' BY NextClaims
  <2>3. BuildInv' BY NextBuild
  <2>4. NamesInv' BY NextNames
  <2>5. KeptInv' BY NextKept
  <2>6. QED BY <2>1, <2>2, <2>3, <2>4, <2>5
<1>3. Inv => MountsKept
  BY KeptMounts
<1>4. QED
  BY <1>1, <1>2, <1>3, PTL DEF DeploymentSpec

-----------------------------------------------------------------------------
(* RuntimeDeployment: environment variables and the room of an array, which are computed by *)
(* recursive functions *)

\* SetAll sets the variables one after the other.
SetTrace(env, es, m, f) ==
    /\ f = [k \in 0..m |-> f[k]]
    /\ f[0] = env
    /\ \A k \in 1..m : f[k] = SetEnvironmentVar(f[k - 1], es[k])

LEMMA SetTraceNext ==
    ASSUME NEW env, NEW es, NEW m \in Nat, NEW f, SetTrace(env, es, m, f)
    PROVE  \E g : SetTrace(env, es, m + 1, g)
<1> DEFINE e == SetEnvironmentVar(f[m], es[m + 1])
           g == [k \in 0..(m + 1) |-> IF k = m + 1 THEN e ELSE f[k]]
<1> HIDE DEF e
<1>1. g = [k \in 0..(m + 1) |-> g[k]]
  OBVIOUS
<1>2. g[m + 1] = e /\ \A k \in 0..m : g[k] = f[k]
  OBVIOUS
<1> HIDE DEF g
<1>3. g[0] = env
  BY <1>2 DEF SetTrace
<1>4. ASSUME NEW k \in 1..(m + 1) PROVE g[k] = SetEnvironmentVar(g[k - 1], es[k])
  <2>1. CASE k = m + 1
    <3>1. k - 1 = m /\ m \in 0..m
      BY <2>1
    <3>2. QED BY <2>1, <3>1, <1>2 DEF e
  <2>2. CASE k # m + 1
    <3>1. k \in 1..m /\ k \in 0..m /\ k - 1 \in 0..m
      BY <2>2
    <3>2. QED BY <3>1, <1>2 DEF SetTrace
  <2>3. QED BY <2>1, <2>2
<1>5. QED BY <1>1, <1>3, <1>4 DEF SetTrace

LEMMA SetTraceExists ==
    ASSUME NEW env, NEW es, NEW n \in Nat
    PROVE  \E f : SetTrace(env, es, n, f)
<1> DEFINE D == {m \in Nat : ~ \E f : SetTrace(env, es, m, f)}
<1>1. D = {}
  <2>1. SUFFICES ASSUME D # {} PROVE FALSE
    OBVIOUS
  <2>2. PICK k \in D : \A i \in D : k <= i
    <3>1. D \in SUBSET Nat
      OBVIOUS
    <3> HIDE DEF D
    <3>2. QED BY <2>1, <3>1, SmallestNumber
  <2>3. k \in Nat /\ ~ \E f : SetTrace(env, es, k, f)
    OBVIOUS
  <2>4. k # 0
    <3> DEFINE f == [j \in 0..0 |-> env]
    <3>1. f = [j \in 0..0 |-> f[j]] /\ f[0] = env
      OBVIOUS
    <3> HIDE DEF f
    <3>2. SetTrace(env, es, 0, f)
      BY <3>1 DEF SetTrace
    <3>3. QED BY <2>3, <3>2
  <2>5. k - 1 \in Nat /\ (k - 1) + 1 = k /\ ~ (k <= k - 1)
    BY <2>3, <2>4
  <2>6. PICK f : SetTrace(env, es, k - 1, f)
    BY <2>2, <2>5
  <2>7. \E g : SetTrace(env, es, (k - 1) + 1, g)
    BY <2>5, <2>6, SetTraceNext
  <2>8. QED BY <2>3, <2>5, <2>7
<1>2. QED BY <1>1

LEMMA SetAllTrace ==
    ASSUME NEW env, NEW es, Len(es) \in Nat
    PROVE  \E f : SetTrace(env, es, Len(es), f) /\ SetAll(env, es) = f[Len(es)]
<1> DEFINE N == Len(es)
           Unfold(f) == [n \in 0..N |-> IF n = 0 THEN env ELSE SetEnvironmentVar(f[n - 1], es[n])]
           set == CHOOSE f : f = Unfold(f)
<1>1. SetAll(env, es) = set[N]
  BY DEF SetAll
<1>2. ASSUME NEW f, SetTrace(env, es, N, f) PROVE f = Unfold(f)
  BY <1>2 DEF SetTrace
<1>3. PICK g : g = Unfold(g)
  BY <1>2, SetTraceExists
<1>4. set = Unfold(set)
  <2> HIDE DEF Unfold
  <2> QED BY <1>3
<1>5. SetTrace(env, es, N, set)
  <2> HIDE DEF set
  <2>1. set = [k \in 0..N |-> set[k]]
    BY <1>4
  <2>2. set[0] = env
    BY <1>4
  <2>3. \A k \in 1..N : set[k] = SetEnvironmentVar(set[k - 1], es[k])
    BY <1>4
  <2>4. QED BY <2>1, <2>2, <2>3 DEF SetTrace
<1>6. QED BY <1>1, <1>5

\* A variable is set in place or added; no other value comes in.
LEMMA SetVarType ==
    ASSUME NEW S, NEW env \in Seq(S), NEW e \in S
    PROVE  SetEnvironmentVar(env, e) \in Seq(S)
<1> DEFINE at == {i \in DOMAIN env : env[i].name = e.name}
<1>1. CASE at = {}
  BY <1>1 DEF SetEnvironmentVar
<1>2. CASE at # {}
  <2>1. PICK k : SetEnvironmentVar(env, e) = [env EXCEPT ![k] = e]
    BY <1>2 DEF SetEnvironmentVar
  <2>2. PICK m \in Nat : env \in [1..m -> S]
    OBVIOUS
  <2>3. [env EXCEPT ![k] = e] \in [1..m -> S]
    BY <2>2
  <2>4. \A f \in [1..m -> S] : f \in Seq(S)
    OBVIOUS
  <2>5. QED BY <2>1, <2>3, <2>4
<1>3. QED BY <1>1, <1>2

LEMMA SetAllType ==
    ASSUME NEW S, NEW env \in Seq(S), NEW es \in Seq(S)
    PROVE  SetAll(env, es) \in Seq(S)
<1>1. PICK n \in Nat : n = Len(es)
  OBVIOUS
<1>2. PICK f : SetTrace(env, es, n, f) /\ SetAll(env, es) = f[n]
  BY <1>1, SetAllTrace
<1> DEFINE D == {k \in 0..n : f[k] \notin Seq(S)}
<1>3. D = {}
  <2>1. SUFFICES ASSUME D # {} PROVE FALSE
    OBVIOUS
  <2>2. PICK k \in D : \A i \in D : k <= i
    <3>1. D \in SUBSET Nat
      OBVIOUS
    <3> HIDE DEF D
    <3>2. QED BY <2>1, <3>1, SmallestNumber
  <2>3. k \in 0..n /\ f[k] \notin Seq(S)
    OBVIOUS
  <2>4. k # 0
    BY <1>2, <2>3 DEF SetTrace
  <2>5. k \in 1..n /\ k - 1 \in 0..n /\ ~ (k <= k - 1)
    BY <2>3, <2>4
  <2>6. f[k - 1] \in Seq(S)
    BY <2>2, <2>5
  <2>7. f[k] = SetEnvironmentVar(f[k - 1], es[k]) /\ es[k] \in S
    BY <1>1, <1>2, <2>5 DEF SetTrace
  <2>8. QED BY <2>3, <2>6, <2>7, SetVarType
<1>4. QED BY <1>2, <1>3

\* The array of a slice that was appended to is never too small.
CapTrace(m, f) ==
    /\ f = [k \in 1..m |-> f[k]]
    /\ \A k \in 1..m : f[k] = IF k = 1 THEN 1 ELSE IF k > f[k - 1] THEN 2 * f[k - 1] ELSE f[k - 1]

LEMMA CapTraceEnough ==
    ASSUME NEW m \in Nat, NEW f, CapTrace(m, f), NEW k \in 1..m
    PROVE  f[k] \in Nat /\ f[k] >= k
<1> DEFINE D == {i \in 1..m : ~ (f[i] \in Nat /\ f[i] >= i)}
<1>1. D = {}
  <2>1. SUFFICES ASSUME D # {} PROVE FALSE
    OBVIOUS
  <2>2. PICK j \in D : \A i \in D : j <= i
    <3>1. D \in SUBSET Nat
      OBVIOUS
    <3> HIDE DEF D
    <3>2. QED BY <2>1, <3>1, SmallestNumber
  <2>3. j \in 1..m /\ ~ (f[j] \in Nat /\ f[j] >= j)
    OBVIOUS
  <2>4. f[j] = IF j = 1 THEN 1 ELSE IF j > f[j - 1] THEN 2 * f[j - 1] ELSE f[j - 1]
    BY <2>3 DEF CapTrace
  <2>5. j # 1
    BY <2>3, <2>4
  <2>6. j - 1 \in 1..m /\ ~ (j <= j - 1)
    BY <2>3, <2>5
  <2>7. f[j - 1] \in Nat /\ f[j - 1] >= j - 1
    BY <2>2, <2>6
  <2>8. QED BY <2>3, <2>4, <2>5, <2>7
<1>2. QED BY <1>1

LEMMA CapTraceNext ==
    ASSUME NEW m \in Nat, NEW f, CapTrace(m, f)
    PROVE  \E g : CapTrace(m + 1, g)
<1> DEFINE e == IF m + 1 = 1 THEN 1 ELSE IF m + 1 > f[m] THEN 2 * f[m] ELSE f[m]
           g == [k \in 1..(m + 1) |-> IF k = m + 1 THEN e ELSE f[k]]
<1> HIDE DEF e
<1>1. g = [k \in 1..(m + 1) |-> g[k]]
  OBVIOUS
<1>2. g[m + 1] = e /\ \A k \in 1..m : g[k] = f[k]
  OBVIOUS
<1> HIDE DEF g
<1>3. ASSUME NEW k \in 1..(m + 1)
      PROVE  g[k] = IF k = 1 THEN 1 ELSE IF k > g[k - 1] THEN 2 * g[k - 1] ELSE g[k - 1]
  <2>1. CASE k = m + 1
    <3>1. k - 1 = m /\ (k # 1 => m \in 1..m)
      BY <2>1
    <3>2. k # 1 => g[k - 1] = f[m]
      BY <3>1, <1>2
    <3>3. QED BY <2>1, <3>2, <1>2 DEF e
  <2>2. CASE k # m + 1
    <3>1. k \in 1..m /\ (k # 1 => k - 1 \in 1..m)
      BY <2>2
    <3>2. g[k] = f[k] /\ (k # 1 => g[k - 1] = f[k - 1])
      BY <3>1, <1>2
    <3>3. f[k] = IF k = 1 THEN 1 ELSE IF k > f[k - 1] THEN 2 * f[k - 1] ELSE f[k - 1]
      BY <3>1 DEF CapTrace
    <3>4. QED BY <3>2, <3>3
  <2>3. QED BY <2>1, <2>2
<1>4. QED BY <1>1, <1>3 DEF CapTrace

LEMMA CapTraceExists ==
    ASSUME NEW n \in Nat
    PROVE  \E f : CapTrace(n, f)
<1> DEFINE D == {m \in Nat : ~ \E f : CapTrace(m, f)}
<1>1. D = {}
  <2>1. SUFFICES ASSUME D # {} PROVE FALSE
    OBVIOUS
  <2>2. PICK k \in D : \A i \in D : k <= i
    <3>1. D \in SUBSET Nat
      OBVIOUS
    <3> HIDE DEF D
    <3>2. QED BY <2>1, <3>1, SmallestNumber
  <2>3. k \in Nat /\ ~ \E f : CapTrace(k, f)
    OBVIOUS
  <2>4. k # 0
    <3> DEFINE f == [j \in 1..0 |-> 0]
    <3>1. f = [j \in 1..0 |-> f[j]]
      OBVIOUS
    <3> HIDE DEF f
    <3>2. CapTrace(0, f)
      BY <3>1 DEF CapTrace
    <3>3. QED BY <2>3, <3>2
  <2>5. k - 1 \in Nat /\ (k - 1) + 1 = k /\ ~ (k <= k - 1)
    BY <2>3, <2>4
  <2>6. PICK f : CapTrace(k - 1, f)
    BY <2>2, <2>5
  <2>7. \E g : CapTrace((k - 1) + 1, g)
    BY <2>5, <2>6, CapTraceNext
  <2>8. QED BY <2>3, <2>5, <2>7
<1>2. QED BY <1>1

LEMMA SpareNat ==
    ASSUME NEW n \in Nat \ {0}
    PROVE  Spare(n) \in Nat
<1> DEFINE Unfold(f) == [k \in 1..n |-> IF k = 1 THEN 1 ELSE IF k > f[k - 1] THEN 2 * f[k - 1] ELSE f[k - 1]]
           cap == CHOOSE f : f = Unfold(f)
<1>1. Capacity(n) = cap[n]
  BY DEF Capacity
<1>2. ASSUME NEW f, CapTrace(n, f) PROVE f = Unfold(f)
  BY <1>2 DEF CapTrace
<1>3. PICK g : g = Unfold(g)
  BY <1>2, CapTraceExists
<1>4. cap = Unfold(cap)
  <2> HIDE DEF Unfold
  <2> QED BY <1>3
<1>5. CapTrace(n, cap)
  <2> HIDE DEF cap
  <2>1. cap = [k \in 1..n |-> cap[k]]
    BY <1>4
  <2>2. \A k \in 1..n : cap[k] = IF k = 1 THEN 1 ELSE IF k > cap[k - 1] THEN 2 * cap[k - 1] ELSE cap[k - 1]
    BY <1>4
  <2>3. QED BY <2>1, <2>2 DEF CapTrace
<1> HIDE DEF cap
<1>6. cap[n] \in Nat /\ cap[n] >= n
  BY <1>5, CapTraceEnough
<1>7. QED BY <1>1, <1>6 DEF Spare

-----------------------------------------------------------------------------
(* RuntimeDeployment: the containers that a transformation leaves *)

\* What is set in a container, and the rest.
LEMMA BoxFields ==
    ASSUME NEW c, Box(c), NEW e, NEW s
    PROVE  /\ [c EXCEPT !.env = e] = Container(c.name, e, c.mounts)
           /\ [c EXCEPT !.mounts.seq = s] = Container(c.name, c.env, [seq |-> s, common |-> c.mounts.common])
<1>1. PICK n, v, m, k, y : /\ m = [seq |-> y, common |-> k]
                           /\ c = [name |-> n, env |-> v, mounts |-> m]
  BY DEF Box, Container
<1>2. [m EXCEPT !.seq = s] = [seq |-> s, common |-> k] /\ m.common = k
  BY <1>1
<1>3. c.name = n /\ c.env = v /\ c.mounts = m
  BY <1>1
<1>4. [c EXCEPT !.env = e] = Container(n, e, m)
  BY <1>1 DEF Container
<1>5. [c EXCEPT !.mounts.seq = s] = Container(n, v, [seq |-> s, common |-> k])
  BY <1>1, <1>2 DEF Container
<1>6. QED BY <1>2, <1>3, <1>4, <1>5

\* Another environment and other mounts of a container of any name.
LEMMA BoxBoth ==
    ASSUME NEW c, Box(c), NEW e, NEW s, NEW d, d = [c EXCEPT !.env = e, !.mounts.seq = s]
    PROVE  d = Container(c.name, e, [seq |-> s, common |-> c.mounts.common])
<1>1. PICK a : a = [c EXCEPT !.env = e]
  OBVIOUS
<1>2. d = [a EXCEPT !.mounts.seq = s]
  BY <1>1
<1>3. a = Container(c.name, e, c.mounts)
  BY <1>1, BoxFields
<1>4. Box(a) /\ a.name = c.name /\ a.env = e /\ a.mounts = c.mounts
  BY <1>3 DEF Box, Container
<1>5. d = Container(a.name, a.env, [seq |-> s, common |-> a.mounts.common])
  BY <1>2, <1>4, BoxFields
<1>6. QED BY <1>4, <1>5

LEMMA FieldsOf ==
    ASSUME NEW n, NEW e, NEW s, NEW k
    PROVE  LET c == Container(n, e, [seq |-> s, common |-> k])
           IN  c.name = n /\ c.env = e /\ c.mounts.seq = s /\ c.mounts.common = k
  BY DEF Container

\* A pod in which the model-mesh container is another one.
LEMMA WithMMContainers ==
    ASSUME NEW p, WellFormed(p), NEW c, NEW x \in ContainersOf(WithMM(p, c))
    PROVE  \/ x \in ContainersOf(p)
           \/ x = c /\ MM(p) \in ContainersOf(p) /\ MM(p).name = "mm" /\ Box(MM(p))
<1>1. PICK i : i = FindContainer(p, "mm")
  OBVIOUS
<1>2. WithMM(p, c).containers = [p.containers EXCEPT ![i] = c]
  BY <1>1 DEF WithMM, WellFormed
<1>3. PICK k \in DOMAIN p.containers : x = [p.containers EXCEPT ![i] = c][k]
  BY <1>2 DEF ContainersOf
<1>4. CASE k # i
  BY <1>3, <1>4 DEF ContainersOf
<1>5. CASE k = i
  <2>1. x = c
    BY <1>3, <1>5
  <2>2. 0 \notin DOMAIN p.containers
    BY DEF WellFormed
  <2>3. i \in DOMAIN p.containers /\ p.containers[i].name = "mm"
    BY <1>1, <1>3, <1>5, <2>2, FirstContainer
  <2>4. MM(p) = p.containers[i]
    BY <1>1 DEF MM
  <2>5. QED BY <2>1, <2>3, <2>4 DEF ContainersOf, WellFormed
<1>6. QED BY <1>4, <1>5

LEMMA AppendedContainers ==
    ASSUME NEW p, WellFormed(p), NEW c, Box(c), NEW x \in ContainersOf([p EXCEPT !.containers = Append(@, c)])
    PROVE  x \in ContainersOf(p) \/ x = c
<1>1. PICK q : q = [p EXCEPT !.containers = Append(@, c)]
  OBVIOUS
<1>2. \A k \in DOMAIN q.containers : \/ k \in DOMAIN p.containers /\ q.containers[k] = p.containers[k]
                                     \/ q.containers[k] = c
  BY <1>1, ContainerAppended
<1>3. PICK k \in DOMAIN q.containers : x = q.containers[k]
  BY <1>1 DEF ContainersOf
<1>4. QED BY <1>2, <1>3 DEF ContainersOf

LEMMA PutContainers ==
    ASSUME NEW p, WellFormed(p), NEW c, Box(c), NEW x \in ContainersOf(PutContainer(p, c))
    PROVE  x \in ContainersOf(p) \/ x = c
<1>1. PICK i : i = FindContainer(p, c.name)
  OBVIOUS
<1>2. CASE i = 0
  <2>1. PutContainer(p, c) = [p EXCEPT !.containers = Append(@, c)]
    BY <1>1, <1>2 DEF PutContainer
  <2>2. x \in ContainersOf([p EXCEPT !.containers = Append(@, c)])
    BY <2>1
  <2>3. QED BY <2>2, AppendedContainers
<1>3. CASE i # 0
  <2>1. PutContainer(p, c).containers = [p.containers EXCEPT ![i] = c]
    BY <1>1, <1>3 DEF PutContainer, WellFormed
  <2>2. PICK k \in DOMAIN p.containers : x = [p.containers EXCEPT ![i] = c][k]
    BY <2>1 DEF ContainersOf
  <2>3. QED BY <2>2 DEF ContainersOf
<1>4. QED BY <1>2, <1>3

LEMMA TLSContainersOf ==
    ASSUME NEW p, WellFormed(p), NEW x \in ContainersOf(configureTLSSecret(p))
    PROVE  \/ x \in ContainersOf(p)
           \/ \E c \in ContainersOf(p) : Box(c) /\ c.name \in TLSContainers /\ x = WithTLS(c)
<1>1. CASE cfg.tls = "off"
  BY <1>1 DEF configureTLSSecret
<1>2. CASE cfg.tls # "off"
  <2> DEFINE f == [i \in DOMAIN p.containers |-> IF p.containers[i].name \in TLSContainers
                                                   THEN WithTLS(p.containers[i]) ELSE p.containers[i]]
  <2>1. PICK v : configureTLSSecret(p) = [p EXCEPT !.containers = f, !.volumes = v]
    BY <1>2 DEF configureTLSSecret
  <2>2. DOMAIN f = DOMAIN p.containers
    OBVIOUS
  <2>3. \A i \in DOMAIN p.containers : f[i] = IF p.containers[i].name \in TLSContainers
                                                THEN WithTLS(p.containers[i]) ELSE p.containers[i]
    OBVIOUS
  <2> HIDE DEF f
  <2>4. configureTLSSecret(p).containers = f
    BY <2>1 DEF WellFormed
  <2>5. PICK k \in DOMAIN p.containers : x = f[k]
    BY <2>2, <2>4 DEF ContainersOf
  <2>6. PICK c : c = p.containers[k]
    OBVIOUS
  <2>7. c \in ContainersOf(p) /\ Box(c)
    BY <2>6 DEF ContainersOf, WellFormed
  <2>8. x = IF c.name \in TLSContainers THEN WithTLS(c) ELSE c
    BY <2>3, <2>5, <2>6
  <2>9. QED BY <2>7, <2>8
<1>3. QED BY <1>1, <1>2

LEMMA LastContainers ==
    ASSUME NEW p, WellFormed(p), NEW x \in ContainersOf(ensureMMContainerIsLast(p))
    PROVE  x \in ContainersOf(p)
<1>1. PICK i : i = FindContainer(p, "mm")
  OBVIOUS
<1>2. CASE i = 0
  BY <1>1, <1>2 DEF ensureMMContainerIsLast
<1>3. CASE i # 0
  <2>1. PICK n \in Nat : n = Len(p.containers) /\ DOMAIN p.containers = 1..n
    BY DEF WellFormed
  <2>2. i \in 1..n /\ n \in 1..n
    <3>1. i \in 1..n
      BY <1>1, <1>3, <2>1, FirstContainer
    <3>2. QED BY <3>1
  <2>3. PICK f : f = [p.containers EXCEPT ![n] = p.containers[i], ![i] = p.containers[n]]
    OBVIOUS
  <2>4. ensureMMContainerIsLast(p) = [p EXCEPT !.containers = f]
    BY <1>1, <1>3, <2>1, <2>3 DEF ensureMMContainerIsLast
  <2>5. ensureMMContainerIsLast(p).containers = f
    BY <2>4 DEF WellFormed
  <2>6. DOMAIN f = 1..n /\ f[n] = p.containers[i] /\ f[i] = p.containers[n]
        /\ \A k \in 1..n : k # n /\ k # i => f[k] = p.containers[k]
    <3>1. p.containers \in [1..n -> Range(p.containers)]
      BY <2>1 DEF WellFormed
    <3>2. QED BY <2>2, <2>3, <3>1
  <2>7. PICK k \in 1..n : x = f[k]
    BY <2>5, <2>6 DEF ContainersOf
  <2>8. QED BY <2>1, <2>2, <2>6, <2>7 DEF ContainersOf
<1>4. QED BY <1>2, <1>3

LEMMA ResolvedContainers ==
    ASSUME NEW p, WellFormed(p), NEW arr, NEW x \in ContainersOf(configureImagePullSecrets(p, arr))
    PROVE  \E c \in ContainersOf(p) : Box(c) /\ x = Container(c.name, c.env, Own(Mounts(c, arr)))
<1> DEFINE f == [i \in DOMAIN p.containers |-> [p.containers[i] EXCEPT !.mounts = Own(Mounts(p.containers[i], arr))]]
<1>1. PICK v : configureImagePullSecrets(p, arr) = [p EXCEPT !.secrets = v, !.containers = f]
  BY DEF configureImagePullSecrets
<1>2. DOMAIN f = DOMAIN p.containers
  OBVIOUS
<1>3. \A i \in DOMAIN p.containers : f[i] = [p.containers[i] EXCEPT !.mounts = Own(Mounts(p.containers[i], arr))]
  OBVIOUS
<1> HIDE DEF f
<1>4. configureImagePullSecrets(p, arr).containers = f
  BY <1>1 DEF WellFormed
<1>5. PICK k \in DOMAIN p.containers : x = f[k]
  BY <1>2, <1>4 DEF ContainersOf
<1>6. PICK c : c = p.containers[k]
  OBVIOUS
<1>7. c \in ContainersOf(p) /\ Box(c)
  BY <1>6 DEF ContainersOf, WellFormed
<1>8. x = [c EXCEPT !.mounts = Own(Mounts(c, arr))]
  BY <1>3, <1>5, <1>6
<1>9. [c EXCEPT !.mounts = Own(Mounts(c, arr))] = Container(c.name, c.env, Own(Mounts(c, arr)))
  BY <1>7 DEF Box, Container
<1>10. QED BY <1>7, <1>8, <1>9

-----------------------------------------------------------------------------
(* RuntimeDeployment: sockets *)

Listed(s) == \E S : s \in Seq(S)

LEMMA ListedOwn ==
    ASSUME NEW s, Listed(s)
    PROVE  s \in Seq(Range(s)) /\ Len(s) \in Nat /\ DOMAIN s = 1..Len(s)
<1>1. PICK S : s \in Seq(S)
  BY DEF Listed
<1>2. s \in Seq(Range(s))
  BY <1>1, SeqOfRange
<1>3. QED BY <1>1, <1>2

LEMMA ListedAppend ==
    ASSUME NEW s, Listed(s), NEW e
    PROVE  Listed(Append(s, e)) /\ Range(Append(s, e)) = Range(s) \cup {e}
<1>1. PICK S : S = Range(s) \cup {e}
  OBVIOUS
<1>2. s \in Seq(S)
  BY <1>1, ListedOwn, SeqMonotonic
<1>3. Append(s, e) \in Seq(S)
  BY <1>1, <1>2
<1>4. /\ DOMAIN Append(s, e) = 1..(Len(s) + 1) /\ Append(s, e)[Len(s) + 1] = e
      /\ \A i \in 1..Len(s) : Append(s, e)[i] = s[i]
      /\ Len(s) \in Nat /\ DOMAIN s = 1..Len(s)
  BY <1>1, <1>2
<1>5. Range(Append(s, e)) \subseteq S
  BY <1>3 DEF Range
<1>6. S \subseteq Range(Append(s, e))
  <2>1. e \in Range(Append(s, e))
    BY <1>4 DEF Range
  <2>2. ASSUME NEW i \in DOMAIN s PROVE s[i] \in Range(Append(s, e))
    <3>1. i \in 1..(Len(s) + 1) /\ Append(s, e)[i] = s[i]
      BY <1>4
    <3>2. QED BY <1>4, <3>1 DEF Range
  <2>3. QED BY <1>1, <2>1, <2>2 DEF Range
<1>7. QED BY <1>1, <1>3, <1>5, <1>6 DEF Listed

LEMMA ListedConcat ==
    ASSUME NEW s, Listed(s), NEW t, Listed(t)
    PROVE  Listed(s \o t) /\ Range(s \o t) = Range(s) \cup Range(t)
<1>1. PICK S : S = Range(s) \cup Range(t)
  OBVIOUS
<1>2. s \in Seq(S) /\ t \in Seq(S)
  BY <1>1, ListedOwn, SeqMonotonic
<1>3. s \o t \in Seq(S) /\ Range(s \o t) = Range(s) \cup Range(t)
  BY <1>2, RangeConcatenation
<1>4. QED BY <1>3 DEF Listed

LEMMA ListedItem ==
    ASSUME NEW s, Listed(s), NEW e
    PROVE  Listed(WithItem(s, e)) /\ Range(WithItem(s, e)) = Range(s) \cup {e}
  BY ListedAppend DEF WithItem

LEMMA ListedSet ==
    ASSUME NEW s, Listed(s), NEW e
    PROVE  Listed(SetEnvironmentVar(s, e)) /\ Range(SetEnvironmentVar(s, e)) \subseteq Range(s) \cup {e}
<1>1. PICK S : S = Range(s) \cup {e}
  OBVIOUS
<1>2. s \in Seq(S) /\ e \in S
  BY <1>1, ListedOwn, SeqMonotonic
<1>3. SetEnvironmentVar(s, e) \in Seq(S)
  BY <1>2, SetVarType
<1>4. QED BY <1>1, <1>3 DEF Listed, Range

LEMMA ListedSetAll ==
    ASSUME NEW s, Listed(s), NEW t, Listed(t)
    PROVE  Listed(SetAll(s, t)) /\ Range(SetAll(s, t)) \subseteq Range(s) \cup Range(t)
<1>1. PICK S : S = Range(s) \cup Range(t)
  OBVIOUS
<1>2. s \in Seq(S) /\ t \in Seq(S)
  BY <1>1, ListedOwn, SeqMonotonic
<1>3. SetAll(s, t) \in Seq(S)
  BY <1>2, SetAllType
<1>4. QED BY <1>1, <1>3 DEF Listed, Range

LEMMA ListedNone == Listed(<<>>) /\ Range(<<>>) = {}
<1>1. <<>> \in Seq({0})
  OBVIOUS
<1>2. QED BY <1>1 DEF Listed, Range

LEMMA ListedOne ==
    ASSUME NEW x, NEW t, t = <<x>>
    PROVE  Listed(t) /\ Range(t) = {x}
<1>1. t \in Seq({x})
  OBVIOUS
<1>2. DOMAIN t = {1} /\ t[1] = x
  OBVIOUS
<1>3. QED BY <1>1, <1>2 DEF Listed, Range

LEMMA ListedTwo ==
    ASSUME NEW x, NEW y, NEW t, t = <<x, y>>
    PROVE  Listed(t) /\ Range(t) = {x, y}
<1>1. t \in Seq({x, y})
  OBVIOUS
<1>2. DOMAIN t = {1, 2} /\ t[1] = x /\ t[2] = y
  OBVIOUS
<1>3. QED BY <1>1, <1>2 DEF Listed, Range

LEMMA ListedThree ==
    ASSUME NEW x, NEW y, NEW z, NEW t, t = <<x, y, z>>
    PROVE  Listed(t) /\ Range(t) = {x, y, z}
<1>1. t \in Seq({x, y, z})
  OBVIOUS
<1>2. DOMAIN t = {1, 2, 3} /\ t[1] = x /\ t[2] = y /\ t[3] = z
  OBVIOUS
<1>3. QED BY <1>1, <1>2 DEF Listed, Range

\* The directories that model-mesh may be told of.
MMDirs ==
    {"-"} \cup (IF Given(rt.data) THEN {ParseEndpoint(rt.data).dir} ELSE {})
    \cup (IF UseStorageHelper THEN {} ELSE {ParseEndpoint(rt.mgmt).dir})

Shown(c, arr) ==
    \A e \in Range(c.env) : e.dir = "-" \/ SocketMount(e.dir) \in Range(Slice(c.mounts, arr))

\* Model-mesh has its mount before it is told of a socket; every other container gets both at once.
SocketFit(c, arr) ==
    /\ Listed(c.env)
    /\ c.name \in {"mm", "rest-proxy"} => c.mounts.common = 0 /\ Listed(c.mounts.seq)
    /\ c.name = "mm" => /\ \A e \in Range(c.env) : e.dir \in MMDirs
                        /\ MountPoint.kind = "uds" => SocketMount(MountPoint.dir) \in Range(c.mounts.seq)
    /\ c.name # "mm" => Shown(c, arr)

FitPod(p, arr) == \A c \in ContainersOf(p) : SocketFit(c, arr)

\* Model-mesh with other variables and more mounts.
LEMMA MMFit ==
    ASSUME NEW c, Box(c), c.name = "mm", NEW arr, SocketFit(c, arr), NEW e, NEW s,
           Listed(e), Listed(s), \A v \in Range(e) : v.dir \in MMDirs, Range(c.mounts.seq) \subseteq Range(s)
    PROVE  /\ SocketFit([c EXCEPT !.env = e], arr)
           /\ SocketFit([c EXCEPT !.mounts.seq = s], arr)
           /\ SocketFit([c EXCEPT !.env = e, !.mounts.seq = s], arr)
<1>1. ASSUME NEW x, NEW y, NEW k
      PROVE  LET d == Container("mm", x, [seq |-> y, common |-> k])
             IN  d.name = "mm" /\ d.env = x /\ d.mounts.seq = y /\ d.mounts.common = k
  BY FieldsOf
<1>2. c.mounts = [seq |-> c.mounts.seq, common |-> c.mounts.common]
  BY DEF Box
<1>3. ASSUME NEW x, NEW y, Listed(x), Listed(y), \A v \in Range(x) : v.dir \in MMDirs,
             Range(c.mounts.seq) \subseteq Range(y)
      PROVE  SocketFit(Container("mm", x, [seq |-> y, common |-> c.mounts.common]), arr)
  BY <1>1, <1>3 DEF SocketFit
<1>4. Listed(c.env) /\ Listed(c.mounts.seq) /\ \A v \in Range(c.env) : v.dir \in MMDirs
  BY DEF SocketFit
<1>5. PICK a, b, d : /\ a = [c EXCEPT !.env = e] /\ b = [c EXCEPT !.mounts.seq = s]
                     /\ d = [c EXCEPT !.env = e, !.mounts.seq = s]
  OBVIOUS
<1>6. /\ a = Container("mm", e, c.mounts)
      /\ b = Container("mm", c.env, [seq |-> s, common |-> c.mounts.common])
      /\ d = Container("mm", e, [seq |-> s, common |-> c.mounts.common])
  <2>1. a = Container("mm", e, c.mounts)
    BY <1>5, BoxFields
  <2>2. b = Container("mm", c.env, [seq |-> s, common |-> c.mounts.common])
    BY <1>5, BoxFields
  <2>3. d = Container("mm", e, [seq |-> s, common |-> c.mounts.common])
    BY <1>5, BoxBoth
  <2>4. QED BY <2>1, <2>2, <2>3
<1>7. a = Container("mm", e, [seq |-> c.mounts.seq, common |-> c.mounts.common])
  BY <1>2, <1>6
<1>8. SocketFit(a, arr) /\ SocketFit(b, arr) /\ SocketFit(d, arr)
  BY <1>3, <1>4, <1>6, <1>7
<1>9. QED BY <1>5, <1>8

LEMMA WithMMFit ==
    ASSUME NEW p, WellFormed(p), NEW arr, FitPod(p, arr), NEW c,
           MM(p) \in ContainersOf(p) /\ MM(p).name = "mm" /\ Box(MM(p)) /\ SocketFit(MM(p), arr) => SocketFit(c, arr)
    PROVE  FitPod(WithMM(p, c), arr)
<1> SUFFICES ASSUME NEW x \in ContainersOf(WithMM(p, c)) PROVE SocketFit(x, arr)
  BY DEF FitPod
<1>1. \/ x \in ContainersOf(p)
      \/ x = c /\ MM(p) \in ContainersOf(p) /\ MM(p).name = "mm" /\ Box(MM(p))
  BY WithMMContainers
<1>2. QED BY <1>1 DEF FitPod

LEMMA SameFit ==
    ASSUME NEW p, NEW q, q.containers = p.containers, NEW arr, FitPod(p, arr)
    PROVE  FitPod(q, arr)
  BY DEF FitPod, ContainersOf

\* Values of the controller's own, which name no directory.
LEMMA EnvDir == \A n, by : Env(n, by).dir = "-" /\ "-" \in MMDirs
  BY DEF Env, MMDirs

LEMMA GraceFit == ASSUME NEW p, WellFormed(p), NEW arr, FitPod(p, arr) PROVE FitPod(syncGracePeriod(p), arr)
<1>1. PICK m : m = MM(p)
  OBVIOUS
<1>2. PICK e : e = SetEnvironmentVar(m.env, Env("SHUTDOWN_TIMEOUT_MS", "set"))
  OBVIOUS
<1>3. PICK c : c = [m EXCEPT !.env = e]
  OBVIOUS
<1>4. syncGracePeriod(p) = WithMM(p, c)
  BY <1>1, <1>2, <1>3 DEF syncGracePeriod
<1>5. ASSUME m.name = "mm", Box(m), SocketFit(m, arr) PROVE SocketFit(c, arr)
  <2>1. Listed(m.env) /\ Listed(m.mounts.seq) /\ \A v \in Range(m.env) : v.dir \in MMDirs
    BY <1>5 DEF SocketFit
  <2>2. Listed(e) /\ Range(e) \subseteq Range(m.env) \cup {Env("SHUTDOWN_TIMEOUT_MS", "set")}
    BY <1>2, <2>1, ListedSet
  <2>3. \A v \in Range(e) : v.dir \in MMDirs
    BY <2>1, <2>2, EnvDir
  <2>4. QED BY <1>3, <1>5, <2>1, <2>2, <2>3, MMFit
<1>6. QED BY <1>1, <1>4, <1>5, WithMMFit

\* Model-mesh with another environment and other mounts, in the pod.
LEMMA MMChanged ==
    ASSUME NEW p, WellFormed(p), NEW arr, FitPod(p, arr), NEW e, NEW s,
           MM(p).name = "mm" /\ SocketFit(MM(p), arr) =>
             Listed(e) /\ Listed(s) /\ (\A v \in Range(e) : v.dir \in MMDirs) /\ Range(MM(p).mounts.seq) \subseteq Range(s)
    PROVE  /\ FitPod(WithMM(p, [MM(p) EXCEPT !.env = e]), arr)
           /\ FitPod(WithMM(p, [MM(p) EXCEPT !.env = e, !.mounts.seq = s]), arr)
<1>1. PICK m : m = MM(p)
  OBVIOUS
<1>2. PICK a, b : a = [m EXCEPT !.env = e] /\ b = [m EXCEPT !.env = e, !.mounts.seq = s]
  OBVIOUS
<1>3. m.name = "mm" /\ Box(m) /\ SocketFit(m, arr) => SocketFit(a, arr) /\ SocketFit(b, arr)
  BY <1>1, <1>2, MMFit
<1>4. FitPod(WithMM(p, a), arr) /\ FitPod(WithMM(p, b), arr)
  BY <1>1, <1>3, WithMMFit
<1>5. QED BY <1>1, <1>2, <1>4

LEMMA ListedMap ==
    ASSUME NEW S, NEW s \in Seq(S), NEW F, F = DOMAIN s, NEW f, f = [i \in F |-> f[i]]
    PROVE  Listed(f) /\ Len(f) = Len(s) /\ Range(f) = {f[i] : i \in F}
<1>1. PICK n \in Nat : n = Len(s) /\ DOMAIN s = 1..n
  OBVIOUS
<1>2. DOMAIN f = 1..n
  BY <1>1
<1>3. PICK T : T = {f[i] : i \in 1..n}
  OBVIOUS
<1>4. f \in [1..n -> T]
  BY <1>1, <1>3
<1>5. f \in Seq(T) /\ Len(f) = n
  BY <1>4
<1>6. Range(f) = {f[i] : i \in F}
  BY <1>1, <1>2 DEF Range
<1>7. QED BY <1>1, <1>5, <1>6 DEF Listed

\* What addMMEnvVars tells model-mesh: sockets of the endpoints only.
LEMMA MMEnvDirs ==
    ASSUME InputsInv
    PROVE  LET t == ExtraEnv \o DataEnv \o ManagementEnv \o FixedEnv
           IN  Listed(t) /\ \A v \in Range(t) : v.dir \in MMDirs
<1>1. Listed(ExtraEnv) /\ \A v \in Range(ExtraEnv) : v.dir \in MMDirs
  <2>1. PICK x \in Seq(STRING) : x = cfg.extraEnv
    BY DEF InputsInv, ClusterSet
  <2>2. PICK f : f = ExtraEnv
    OBVIOUS
  <2>3. f = [i \in DOMAIN x |-> f[i]] /\ \A i \in DOMAIN x : f[i] = Env(x[i], "extra")
    BY <2>1, <2>2 DEF ExtraEnv
  <2>4. Listed(f) /\ Range(f) = {f[i] : i \in DOMAIN x}
    BY <2>3, ListedMap
  <2>5. QED BY <2>2, <2>3, <2>4, EnvDir
<1>2. Listed(DataEnv) /\ \A v \in Range(DataEnv) : v.dir \in MMDirs
  <2>1. CASE Given(rt.data)
    <3>1. PICK v : v = EndpointEnv(rt.data, "INTERNAL_SERVING_GRPC_PORT", "INTERNAL_SERVING_GRPC_SOCKET_PATH")
      OBVIOUS
    <3>2. v.dir = "-" \/ v.dir = ParseEndpoint(rt.data).dir
      BY <3>1 DEF EndpointEnv, Env, EnvPath
    <3>3. v.dir \in MMDirs
      BY <2>1, <3>2 DEF MMDirs
    <3>4. DataEnv = <<v>>
      BY <2>1, <3>1 DEF DataEnv
    <3>5. QED BY <3>3, <3>4, ListedOne
  <2>2. CASE ~ Given(rt.data)
    BY <2>2, ListedNone DEF DataEnv
  <2>3. QED BY <2>1, <2>2
<1>3. Listed(ManagementEnv) /\ \A v \in Range(ManagementEnv) : v.dir \in MMDirs
  <2>1. CASE ~ UseStorageHelper
    <3>1. PICK v : v = EndpointEnv(rt.mgmt, "INTERNAL_GRPC_PORT", "INTERNAL_GRPC_SOCKET_PATH")
      OBVIOUS
    <3>2. v.dir = "-" \/ v.dir = ParseEndpoint(rt.mgmt).dir
      BY <3>1 DEF EndpointEnv, Env, EnvPath
    <3>3. v.dir \in MMDirs
      BY <2>1, <3>2 DEF MMDirs
    <3>4. ManagementEnv = <<v>>
      BY <2>1, <3>1 DEF ManagementEnv
    <3>5. QED BY <3>3, <3>4, ListedOne
  <2>2. CASE UseStorageHelper
    <3>1. PICK v : v = Env("INTERNAL_GRPC_PORT", "set")
      OBVIOUS
    <3>2. ManagementEnv = <<v>> /\ v.dir \in MMDirs
      BY <2>2, <3>1, EnvDir DEF ManagementEnv
    <3>3. QED BY <3>2, ListedOne
  <2>3. QED BY <2>1, <2>2
<1>4. Listed(FixedEnv) /\ \A v \in Range(FixedEnv) : v.dir \in MMDirs
  <2>1. PICK x, y : x = Env("MM_KVSTORE_PREFIX", "set") /\ y = Env("MM_DEFAULT_VMODEL_OWNER", "set")
    OBVIOUS
  <2>2. FixedEnv = <<x, y>> /\ x.dir \in MMDirs /\ y.dir \in MMDirs
    BY <2>1, EnvDir DEF FixedEnv
  <2>3. QED BY <2>2, ListedTwo
<1>5. ASSUME NEW s, NEW t, Listed(s), Listed(t), \A v \in Range(s) : v.dir \in MMDirs, \A v \in Range(t) : v.dir \in MMDirs
      PROVE  Listed(s \o t) /\ \A v \in Range(s \o t) : v.dir \in MMDirs
  BY <1>5, ListedConcat
<1>6. Listed(ExtraEnv \o DataEnv) /\ \A v \in Range(ExtraEnv \o DataEnv) : v.dir \in MMDirs
  BY <1>1, <1>2, <1>5
<1>7. /\ Listed(ExtraEnv \o DataEnv \o ManagementEnv)
      /\ \A v \in Range(ExtraEnv \o DataEnv \o ManagementEnv) : v.dir \in MMDirs
  BY <1>3, <1>5, <1>6
<1>8. QED BY <1>4, <1>5, <1>7

LEMMA EnvFit ==
    ASSUME InputsInv, NEW p, WellFormed(p), NEW arr, FitPod(p, arr)
    PROVE  FitPod(addMMEnvVars(p), arr)
<1>1. PICK t : t = ExtraEnv \o DataEnv \o ManagementEnv \o FixedEnv
  OBVIOUS
<1>2. Listed(t) /\ \A v \in Range(t) : v.dir \in MMDirs
  BY <1>1, MMEnvDirs
<1>3. PICK m : m = MM(p)
  OBVIOUS
<1>4. PICK e, s : e = SetAll(m.env, t) /\ s = m.mounts.seq
  OBVIOUS
<1>5. ASSUME m.name = "mm", SocketFit(m, arr)
      PROVE  Listed(e) /\ Listed(s) /\ (\A v \in Range(e) : v.dir \in MMDirs) /\ Range(m.mounts.seq) \subseteq Range(s)
  <2>1. Listed(m.env) /\ Listed(m.mounts.seq) /\ \A v \in Range(m.env) : v.dir \in MMDirs
    BY <1>5 DEF SocketFit
  <2>2. Listed(e) /\ Range(e) \subseteq Range(m.env) \cup Range(t)
    BY <1>2, <1>4, <2>1, ListedSetAll
  <2>3. QED BY <1>2, <1>4, <2>1, <2>2
<1>6. addMMEnvVars(p) = WithMM(p, [MM(p) EXCEPT !.env = e])
  BY <1>1, <1>3, <1>4 DEF addMMEnvVars
<1>7. FitPod(WithMM(p, [MM(p) EXCEPT !.env = e]), arr)
  BY <1>3, <1>5, MMChanged
<1>8. QED BY <1>6, <1>7

\* Only other fields of the pod than its containers change.
LEMMA FieldsFit ==
    ASSUME NEW p, WellFormed(p), NEW arr, FitPod(p, arr), NEW x, NEW q,
           q = [p EXCEPT !.volumes = x] \/ q = [p EXCEPT !.terms = x] \/ q = [p EXCEPT !.labels = x]
    PROVE  FitPod(q, arr)
<1>1. q.containers = p.containers
  BY DEF WellFormed
<1>2. QED BY <1>1, SameFit

LEMMA ConstraintsFit ==
    ASSUME NEW p, WellFormed(p), NEW arr, FitPod(p, arr)
    PROVE  FitPod(addModelTypeConstraints(p), arr)
<1>1. PICK x, y, z : /\ x = Env("MM_LABELS", "set") /\ y = Env("MM_TYPE_CONSTRAINTS_PATH", "set")
                     /\ z = Env("MM_DATAPLANE_CONFIG_PATH", "set")
  OBVIOUS
<1>2. Listed(<<x, y, z>>) /\ Range(<<x, y, z>>) = {x, y, z}
  <2>1. PICK t : t = <<x, y, z>>
    OBVIOUS
  <2>2. Listed(t) /\ Range(t) = {x, y, z}
    BY <2>1, ListedThree
  <2>3. QED BY <2>1, <2>2
<1>3. PICK m : m = MM(p)
  OBVIOUS
<1>4. PICK e, s : e = m.env \o <<x, y, z>> /\ s = Append(m.mounts.seq, Mount("tc-config"))
  OBVIOUS
<1>5. ASSUME m.name = "mm", SocketFit(m, arr)
      PROVE  Listed(e) /\ Listed(s) /\ (\A v \in Range(e) : v.dir \in MMDirs) /\ Range(m.mounts.seq) \subseteq Range(s)
  <2>1. Listed(m.env) /\ Listed(m.mounts.seq) /\ \A v \in Range(m.env) : v.dir \in MMDirs
    BY <1>5 DEF SocketFit
  <2>2. Listed(e) /\ Range(e) = Range(m.env) \cup {x, y, z}
    BY <1>2, <1>4, <2>1, ListedConcat
  <2>3. Listed(s) /\ Range(m.mounts.seq) \subseteq Range(s)
    BY <1>4, <2>1, ListedAppend
  <2>4. x.dir \in MMDirs /\ y.dir \in MMDirs /\ z.dir \in MMDirs
    BY <1>1, EnvDir
  <2>5. QED BY <2>1, <2>2, <2>3, <2>4
<1>6. PICK q : q = WithMM(p, [MM(p) EXCEPT !.env = e, !.mounts.seq = s])
  OBVIOUS
<1>7. FitPod(q, arr)
  BY <1>3, <1>5, <1>6, MMChanged
<1>8. WellFormed(q)
  BY <1>6, MMFormed DEF Harmless
<1>9. PICK v : addModelTypeConstraints(p) = [q EXCEPT !.volumes = v]
  BY <1>1, <1>3, <1>4, <1>6 DEF addModelTypeConstraints
<1>10. QED BY <1>7, <1>8, <1>9, FieldsFit

LEMMA EtcdFit ==
    ASSUME NEW p, WellFormed(p), NEW arr, FitPod(p, arr)
    PROVE  FitPod(configureEtcdSecret(p), arr)
<1>1. PICK m : m = MM(p)
  OBVIOUS
<1>2. PICK e, s : /\ e = [i \in DOMAIN m.env |-> IF m.env[i].name = "KV_STORE" THEN Env("KV_STORE", "set") ELSE m.env[i]]
                  /\ s = WithItem(m.mounts.seq, Mount("etcd-config"))
  OBVIOUS
<1>3. ASSUME m.name = "mm", SocketFit(m, arr)
      PROVE  Listed(e) /\ Listed(s) /\ (\A v \in Range(e) : v.dir \in MMDirs) /\ Range(m.mounts.seq) \subseteq Range(s)
  <2>1. Listed(m.env) /\ Listed(m.mounts.seq) /\ \A v \in Range(m.env) : v.dir \in MMDirs
    BY <1>3 DEF SocketFit
  <2>2. Listed(s) /\ Range(m.mounts.seq) \subseteq Range(s)
    BY <1>2, <2>1, ListedItem
  <2>3. PICK u, S : u = m.env /\ u \in Seq(S)
    BY <2>1 DEF Listed
  <2>4. e = [i \in DOMAIN u |-> e[i]] /\ \A i \in DOMAIN u : e[i] = u[i] \/ e[i] = Env("KV_STORE", "set")
    BY <1>2, <2>3
  <2>5. Listed(e) /\ Range(e) = {e[i] : i \in DOMAIN u}
    BY <2>3, <2>4, ListedMap
  <2>6. \A i \in DOMAIN u : u[i].dir \in MMDirs
    BY <2>1, <2>3 DEF Range
  <2>7. \A i \in DOMAIN u : e[i].dir \in MMDirs
    BY <2>4, <2>6, EnvDir
  <2>8. QED BY <2>2, <2>5, <2>7
<1>4. PICK q : q = WithMM(p, [MM(p) EXCEPT !.env = e, !.mounts.seq = s])
  OBVIOUS
<1>5. FitPod(q, arr)
  BY <1>1, <1>3, <1>4, MMChanged
<1>6. WellFormed(q)
  BY <1>4, MMFormed DEF Harmless
<1>7. PICK v : configureEtcdSecret(p) = [q EXCEPT !.volumes = v]
  BY <1>1, <1>2, <1>4 DEF configureEtcdSecret
<1>8. QED BY <1>5, <1>6, <1>7, FieldsFit

LEMMA LabelsFit == ASSUME NEW p, WellFormed(p), NEW arr, FitPod(p, arr) PROVE FitPod(configureMetadata(p), arr)
<1>1. PICK x : configureMetadata(p) = [p EXCEPT !.labels = x]
  BY DEF configureMetadata
<1>2. QED BY <1>1, FieldsFit

LEMMA LastFit == ASSUME NEW p, WellFormed(p), NEW arr, FitPod(p, arr) PROVE FitPod(ensureMMContainerIsLast(p), arr)
  BY LastContainers DEF FitPod

LEMMA ProxyFit == ASSUME NEW p, WellFormed(p), NEW arr, FitPod(p, arr) PROVE FitPod(addRESTProxy(p), arr)
<1>1. CASE ~ cfg.proxy
  BY <1>1 DEF addRESTProxy
<1>2. CASE cfg.proxy
  <2>1. PICK v : v = Env("REST_PROXY_USE_TLS", "set")
    OBVIOUS
  <2>2. PICK e : e = <<v>>
    OBVIOUS
  <2>3. Listed(e) /\ Range(e) = {v} /\ v.dir = "-"
    BY <2>1, <2>2, ListedOne, EnvDir
  <2>4. PICK c : c = Container("rest-proxy", e, Own(<<>>))
    OBVIOUS
  <2>5. Box(c)
    BY <2>4, BoxOwn
  <2>6. c.name = "rest-proxy" /\ c.env = e /\ c.mounts.seq = <<>> /\ c.mounts.common = 0
    BY <2>4 DEF Container, Own
  <2>7. SocketFit(c, arr)
    BY <2>3, <2>6, ListedNone DEF SocketFit, Shown
  <2>8. addRESTProxy(p) = [p EXCEPT !.containers = Append(@, c)]
    BY <1>2, <2>1, <2>2, <2>4 DEF addRESTProxy
  <2>9. QED BY <2>5, <2>7, <2>8, AppendedContainers DEF FitPod
<1>3. QED BY <1>1, <1>2

\* The variables for certificates name no directory.
LEMMA TLSDirs == Listed(TLSEnv) /\ \A v \in Range(TLSEnv) : v.dir = "-"
<1>1. PICK x, y, s : x = Env("MM_TLS_KEY_CERT_PATH", "set") /\ y = Env("MM_TLS_PRIVATE_KEY_PATH", "set") /\ s = <<x, y>>
  OBVIOUS
<1>2. PICK w, z, t : w = Env("MM_TLS_CLIENT_AUTH", "set") /\ z = Env("MM_TLS_TRUST_CERT_PATH", "set") /\ t = <<w, z>>
  OBVIOUS
<1>3. PICK u : u = IF cfg.clientAuth THEN t ELSE <<>>
  OBVIOUS
<1>4. TLSEnv = s \o u
  BY <1>1, <1>2, <1>3 DEF TLSEnv
<1>5. Listed(s) /\ Range(s) = {x, y}
  BY <1>1, ListedTwo
<1>6. Listed(t) /\ Range(t) = {w, z}
  BY <1>2, ListedTwo
<1>7. Listed(u) /\ Range(u) \subseteq {w, z}
  BY <1>3, <1>6, ListedNone
<1>8. x.dir = "-" /\ y.dir = "-" /\ w.dir = "-" /\ z.dir = "-"
  BY <1>1, <1>2, EnvDir
<1>9. Listed(s \o u) /\ Range(s \o u) = Range(s) \cup Range(u)
  BY <1>5, <1>7, ListedConcat
<1>10. QED BY <1>4, <1>5, <1>7, <1>8, <1>9

LEMMA WithTLSFit ==
    ASSUME NEW c, Box(c), c.name \in {"mm", "rest-proxy"}, NEW arr, SocketFit(c, arr)
    PROVE  SocketFit(WithTLS(c), arr)
<1>1. PICK e, s : e = c.env \o TLSEnv /\ s = WithItem(c.mounts.seq, Mount("tls-certs"))
  OBVIOUS
<1>2. PICK d : d = [c EXCEPT !.env = e, !.mounts.seq = s]
  OBVIOUS
<1>3. WithTLS(c) = d
  BY <1>1, <1>2 DEF WithTLS
<1>4. d = Container(c.name, e, [seq |-> s, common |-> c.mounts.common])
  BY <1>2, BoxBoth
<1>5. d.name = c.name /\ d.env = e /\ d.mounts.seq = s /\ d.mounts.common = c.mounts.common
  BY <1>4, FieldsOf
<1>6. c.mounts.common = 0 /\ Listed(c.env) /\ Listed(c.mounts.seq)
  BY DEF SocketFit
<1>7. Listed(e) /\ Range(e) = Range(c.env) \cup Range(TLSEnv)
  BY <1>1, <1>6, TLSDirs, ListedConcat
<1>8. Listed(s) /\ Range(c.mounts.seq) \subseteq Range(s)
  BY <1>1, <1>6, ListedItem
<1>9. "-" \in MMDirs
  BY DEF MMDirs
<1>10. CASE c.name = "mm"
  BY <1>3, <1>5, <1>6, <1>7, <1>8, <1>9, <1>10, TLSDirs DEF SocketFit
<1>11. CASE c.name # "mm"
  <2>1. Slice(c.mounts, arr) = c.mounts.seq /\ Slice(d.mounts, arr) = s
    BY <1>5, <1>6 DEF Slice
  <2>2. Shown(c, arr)
    BY <1>11 DEF SocketFit
  <2>3. Shown(d, arr)
    BY <1>5, <1>7, <1>8, <2>1, <2>2, TLSDirs DEF Shown
  <2>4. QED BY <1>3, <1>5, <1>6, <1>7, <1>8, <1>11, <2>3 DEF SocketFit
<1>12. QED BY <1>10, <1>11

LEMMA TLSFit == ASSUME NEW p, WellFormed(p), NEW arr, FitPod(p, arr) PROVE FitPod(configureTLSSecret(p), arr)
<1> SUFFICES ASSUME NEW x \in ContainersOf(configureTLSSecret(p)) PROVE SocketFit(x, arr)
  BY DEF FitPod
<1>1. CASE x \in ContainersOf(p)
  BY <1>1 DEF FitPod
<1>2. CASE x \notin ContainersOf(p)
  <2>1. PICK c \in ContainersOf(p) : Box(c) /\ c.name \in TLSContainers /\ x = WithTLS(c)
    BY <1>2, TLSContainersOf
  <2>2. c.name \in {"mm", "rest-proxy"}
    BY <2>1 DEF TLSContainers
  <2>3. QED BY <2>1, <2>2, WithTLSFit DEF FitPod
<1>3. QED BY <1>1, <1>2

\* Once each container has its mounts for itself, the array does not matter.
LEMMA SecretsFit ==
    ASSUME NEW p, WellFormed(p), NEW arr, FitPod(p, arr), NEW arr2
    PROVE  FitPod(configureImagePullSecrets(p, arr), arr2)
<1> SUFFICES ASSUME NEW x \in ContainersOf(configureImagePullSecrets(p, arr)) PROVE SocketFit(x, arr2)
  BY DEF FitPod
<1>1. PICK c \in ContainersOf(p) : Box(c) /\ x = Container(c.name, c.env, Own(Mounts(c, arr)))
  BY ResolvedContainers
<1>2. SocketFit(c, arr)
  BY DEF FitPod
<1>3. PICK s : s = Slice(c.mounts, arr)
  OBVIOUS
<1>4. Mounts(c, arr) = s
  BY <1>3 DEF Mounts, Slice
<1>5. x.name = c.name /\ x.env = c.env /\ x.mounts.seq = s /\ x.mounts.common = 0
  BY <1>1, <1>4, FieldsOf DEF Own
<1>6. Slice(x.mounts, arr2) = s
  BY <1>5 DEF Slice
<1>7. c.name \in {"mm", "rest-proxy"} => s = c.mounts.seq
  BY <1>2, <1>3 DEF SocketFit, Slice
<1>8. QED BY <1>2, <1>3, <1>5, <1>6, <1>7 DEF SocketFit, Shown

\* The puller is told of the management endpoint, and mounts its directory.
LEMMA PullerFit ==
    ASSUME NEW p, WellFormed(p), NEW arr, FitPod(p, arr), NEW cs \in Seq(Range(PVCOrder)),
           UseStorageHelper => ValidEndpoint(rt.mgmt)
    PROVE  FitPod(addPuller(p, cs), arr)
<1>1. CASE ~ UseStorageHelper
  BY <1>1 DEF addPuller
<1>2. CASE UseStorageHelper
  <2>1. PICK d, v, e : /\ d = ParseEndpoint(rt.mgmt).dir
                       /\ v = EnvPath("MODEL_SERVER_ENDPOINT", d) /\ e = <<v>>
    OBVIOUS
  <2>2. Listed(e) /\ Range(e) = {v} /\ v.dir = d
    BY <2>1, ListedOne DEF EnvPath
  <2>3. PICK s : s = PullerMounts(cs)
    OBVIOUS
  <2>4. PICK c : c = Container("puller", e, Own(s))
    OBVIOUS
  <2>5. Box(c)
    BY <2>4, BoxOwn
  <2>6. c.name = "puller" /\ c.env = e /\ c.mounts.seq = s /\ c.mounts.common = 0
    BY <2>4, FieldsOf DEF Own
  <2>7. d = "-" \/ SocketMount(d) \in Range(s)
    <3>1. CASE rt.mgmt.kind = "port"
      BY <2>1, <3>1 DEF ParseEndpoint
    <3>2. CASE rt.mgmt.kind = "unix"
      <4>1. d = rt.mgmt.dir
        BY <2>1, <3>2 DEF ParseEndpoint
      <4>2. PICK x, y, z : /\ x = <<Mount("models-dir"), Mount("storage-config")>> /\ y = <<SocketMount(d)>>
                           /\ z = [i \in DOMAIN cs |-> Mount(cs[i])]
        OBVIOUS
      <4>3. s = x \o y \o z
        BY <2>3, <3>2, <4>1, <4>2 DEF PullerMounts
      <4>4. Listed(x)
        BY <4>2, ListedTwo
      <4>5. Listed(y) /\ Range(y) = {SocketMount(d)}
        BY <4>2, ListedOne
      <4>6. Listed(z)
        BY <4>2, ListedMap
      <4>7. Listed(x \o y) /\ Range(y) \subseteq Range(x \o y)
        BY <4>4, <4>5, ListedConcat
      <4>8. Range(x \o y) \subseteq Range(s)
        BY <4>3, <4>6, <4>7, ListedConcat
      <4>9. QED BY <4>5, <4>7, <4>8
    <3>3. QED BY <1>2, <3>1, <3>2 DEF ValidEndpoint
  <2>8. Slice(c.mounts, arr) = s
    BY <2>6 DEF Slice
  <2>9. SocketFit(c, arr)
    BY <2>2, <2>6, <2>7, <2>8 DEF SocketFit, Shown
  <2>10. addPuller(p, cs) = [p EXCEPT !.containers = Append(@, c)]
    BY <1>2, <2>1, <2>3, <2>4 DEF addPuller, Puller
  <2>11. QED BY <2>5, <2>9, <2>10, AppendedContainers DEF FitPod
<1>3. QED BY <1>1, <1>2

\* The array holds the common mounts, and a slice of it or of its own is a sequence.
Room(cs, arr) == Listed(arr) /\ Len(CommonMounts(cs)) <= Len(arr)

Lies(s, arr) == s.common \in Nat /\ s.common <= Len(arr) /\ (s.common = 0 => Listed(s.seq))

LEMMA ListedPart ==
    ASSUME NEW s, Listed(s), NEW i \in Nat \ {0}, NEW j \in Nat, j <= Len(s)
    PROVE  Listed(SubSeq(s, i, j)) /\ Len(SubSeq(s, i, j)) = IF i <= j THEN j - i + 1 ELSE 0
<1>1. PICK S : s \in Seq(S)
  BY DEF Listed
<1>2. Len(s) \in Nat
  BY <1>1
<1>3. CASE i <= j
  <2>1. i \in 1..Len(s) /\ j \in 1..Len(s)
    BY <1>2, <1>3
  <2>2. SubSeq(s, i, j) \in Seq(S) /\ Len(SubSeq(s, i, j)) = j - i + 1
    BY <1>1, <1>3, <2>1
  <2>3. QED BY <1>3, <2>2 DEF Listed
<1>4. CASE ~ (i <= j)
  <2>1. SubSeq(s, i, j) = <<>>
    BY <1>1, <1>2, <1>4, SubSeqEmpty
  <2>2. QED BY <1>4, <2>1, ListedNone
<1>5. QED BY <1>3, <1>4

LEMMA ListedLength ==
    ASSUME NEW s, Listed(s), NEW t, Listed(t)
    PROVE  Len(s \o t) = Len(s) + Len(t) /\ Len(s) \in Nat /\ Len(t) \in Nat
<1>1. PICK S : S = Range(s) \cup Range(t)
  OBVIOUS
<1>2. s \in Seq(S) /\ t \in Seq(S)
  BY <1>1, ListedOwn, SeqMonotonic
<1>3. QED BY <1>2, ConcatProperties

LEMMA AppendRoom ==
    ASSUME NEW cs \in Seq(Range(PVCOrder)), NEW arr, Room(cs, arr), NEW ms, Listed(ms)
    PROVE  LET a == AppendToCommon(cs, arr, ms)
           IN  Room(cs, a.arr) /\ Lies(a.s, a.arr)
<1>1. PICK n \in Nat \ {0} : n = Len(CommonMounts(cs))
  BY CommonType
<1>2. PICK l \in Nat : l = Len(ms)
  BY ListedOwn
<1>3. PICK k \in Nat : k = Len(arr) /\ n <= k
  BY <1>1, ListedOwn DEF Room
<1>4. PICK x : x = SubSeq(arr, 1, n)
  OBVIOUS
<1>5. Listed(x) /\ Len(x) = n
  BY <1>1, <1>3, <1>4, ListedPart DEF Room
<1>6. Listed(x \o ms) /\ Len(x \o ms) = n + l
  BY <1>2, <1>5, ListedConcat, ListedLength
<1>7. PICK a : a = AppendToCommon(cs, arr, ms)
  OBVIOUS
<1>8. CASE n + l <= k
  <2>1. PICK y : y = SubSeq(arr, n + l + 1, k)
    OBVIOUS
  <2>2. Listed(y) /\ Len(y) = k - (n + l)
    BY <1>3, <1>8, <2>1, ListedPart DEF Room
  <2>3. Listed(x \o ms \o y) /\ Len(x \o ms \o y) = k
    BY <1>3, <1>6, <2>2, ListedConcat, ListedLength
  <2>4. a = [arr |-> x \o ms \o y, s |-> Common(n + l)]
    BY <1>1, <1>2, <1>3, <1>4, <1>7, <1>8, <2>1 DEF AppendToCommon
  <2>5. a.arr = x \o ms \o y /\ a.s.common = n + l
    BY <2>4 DEF Common
  <2>6. QED BY <1>1, <1>3, <1>7, <1>8, <2>3, <2>5 DEF Room, Lies
<1>9. CASE ~ (n + l <= k)
  <2>1. a = [arr |-> arr, s |-> Own(x \o ms)]
    BY <1>1, <1>2, <1>3, <1>4, <1>7, <1>9 DEF AppendToCommon
  <2>2. a.arr = arr /\ a.s.common = 0 /\ a.s.seq = x \o ms
    BY <2>1 DEF Own
  <2>3. QED BY <1>3, <1>6, <1>7, <2>2 DEF Lies
<1>10. QED BY <1>8, <1>9

\* The socket's mount is in the slice that addDomainSocketMount leaves.
LEMMA SocketRoom ==
    ASSUME NEW cs, NEW a, Room(cs, a.arr), Lies(a.s, a.arr)
    PROVE  LET d == AddDomainSocketMount(a)
           IN  /\ Room(cs, d.arr)
               /\ SocketDirs # {} => SocketMount(CHOOSE x \in SocketDirs : TRUE) \in Range(Slice(d.s, d.arr))
<1>1. PICK d : d = AddDomainSocketMount(a)
  OBVIOUS
<1>2. CASE SocketDirs = {}
  BY <1>2 DEF AddDomainSocketMount
<1>3. CASE SocketDirs # {}
  <2>1. PICK m : m = SocketMount(CHOOSE x \in SocketDirs : TRUE)
    OBVIOUS
  <2>2. d = AppendMount(a.arr, a.s, m)
    BY <1>1, <1>3, <2>1 DEF AddDomainSocketMount
  <2>3. PICK arr, c, k : arr = a.arr /\ c = a.s.common /\ k = Len(arr)
    OBVIOUS
  <2>4. Listed(arr) /\ c \in Nat /\ k \in Nat /\ c <= k /\ DOMAIN arr = 1..k
    BY <2>3, ListedOwn DEF Room, Lies
  <2>5. CASE c > 0 /\ c < k
    <3>1. PICK w : w = [arr EXCEPT ![c + 1] = m]
      OBVIOUS
    <3>2. d = [arr |-> w, s |-> Common(c + 1)]
      BY <2>2, <2>3, <2>5, <3>1 DEF AppendMount
    <3>3. d.arr = w /\ d.s.common = c + 1
      BY <3>2 DEF Common
    <3>4. PICK T : T = Range(arr) \cup {m}
      OBVIOUS
    <3>5. arr \in Seq(T) /\ m \in T
      BY <2>4, <3>4, ListedOwn, SeqMonotonic
    <3>6. w \in Seq(T) /\ Len(w) = k /\ w[c + 1] = m
      BY <2>3, <2>4, <2>5, <3>1, <3>5
    <3>7. Room(cs, d.arr)
      BY <2>3, <3>3, <3>6 DEF Room, Listed
    <3>8. PICK u : u = SubSeq(w, 1, c + 1)
      OBVIOUS
    <3>9. Slice(d.s, d.arr) = u
      BY <2>4, <3>3, <3>8 DEF Slice
    <3>10. Len(u) = c + 1 /\ u[c + 1] = m /\ u \in Seq(T)
      BY <2>4, <2>5, <3>6, <3>8
    <3>11. m \in Range(u)
      <4>1. DOMAIN u = 1..(c + 1) /\ c + 1 \in 1..(c + 1)
        BY <2>4, <3>10
      <4>2. QED BY <3>10, <4>1 DEF Range
    <3>12. QED BY <1>1, <2>1, <3>7, <3>9, <3>11
  <2>6. CASE ~ (c > 0 /\ c < k)
    <3>1. PICK x : x = IF c = 0 THEN a.s.seq ELSE SubSeq(arr, 1, c)
      OBVIOUS
    <3>2. Listed(x)
      <4>1. CASE c = 0
        BY <2>3, <3>1, <4>1 DEF Lies
      <4>2. CASE c # 0
        <5>1. Listed(SubSeq(arr, 1, c))
          BY <2>3, <2>4, ListedPart
        <5>2. QED BY <3>1, <4>2, <5>1
      <4>3. QED BY <4>1, <4>2
    <3>3. d = [arr |-> arr, s |-> Own(Append(x, m))]
      BY <2>2, <2>3, <2>6, <3>1 DEF AppendMount
    <3>4. d.arr = arr /\ Slice(d.s, d.arr) = Append(x, m)
      BY <3>3 DEF Own, Slice
    <3>5. m \in Range(Append(x, m))
      BY <3>2, ListedAppend
    <3>6. QED BY <1>1, <2>1, <2>3, <3>4, <3>5
  <2>7. QED BY <2>5, <2>6
<1>4. QED BY <1>2, <1>3

\* A pod that fits whatever the array holds.
QuietBuild(cs, b) == WellFormed(b.pod) /\ (\A arr : FitPod(b.pod, arr)) /\ Room(cs, b.arr)

LEMMA StartRoom == ASSUME NEW cs \in Seq(Range(PVCOrder)) PROVE Room(cs, Array(cs))
<1>1. PICK n \in Nat \ {0} : n = Len(CommonMounts(cs))
  BY CommonType
<1>2. PICK k \in Nat : k = Spare(n)
  BY <1>1, SpareNat
<1>3. PICK t : t = [i \in 1..k |-> Mount("unused")]
  OBVIOUS
<1>4. t \in Seq({Mount("unused")})
  BY <1>3
<1>5. Listed(t) /\ Listed(CommonMounts(cs))
  BY <1>4, CommonType DEF Listed
<1>6. Array(cs) = CommonMounts(cs) \o t
  BY <1>1, <1>2, <1>3 DEF Array
<1>7. Listed(Array(cs)) /\ Len(Array(cs)) = n + Len(t) /\ Len(t) \in Nat
  BY <1>1, <1>5, <1>6, ListedConcat, ListedLength
<1>8. QED BY <1>1, <1>7 DEF Room

\* Model-mesh's mount is made before it is told of a socket.
LEMMA TemplateFit ==
    ASSUME NEW p, WellFormed(p), p.containers = TemplatePod.containers, NEW arr
    PROVE  FitPod(addMMDomainSocketMount(p), arr)
<1>1. PICK x, y, z : /\ x = Env("KV_STORE", "template") /\ y = Env("MM_METRICS", "template")
                     /\ z = Env("SHUTDOWN_TIMEOUT_MS", "template")
  OBVIOUS
<1>2. PICK e : e = <<x, y, z>>
  OBVIOUS
<1>3. Listed(e) /\ Range(e) = {x, y, z} /\ x.dir = "-" /\ y.dir = "-" /\ z.dir = "-"
  BY <1>1, <1>2, ListedThree, EnvDir
<1>4. PICK c : c = Container("mm", e, Own(<<>>))
  OBVIOUS
<1>5. Box(c)
  BY <1>4, BoxOwn
<1>6. c.name = "mm" /\ c.env = e /\ c.mounts.seq = <<>> /\ c.mounts.common = 0
  BY <1>4, FieldsOf DEF Own
<1>7. p.containers = <<c>> /\ DOMAIN p.containers = {1} /\ p.containers[1] = c
  BY <1>1, <1>2, <1>4 DEF TemplatePod
<1>8. FindContainer(p, "mm") = 1
  <2>1. {i \in DOMAIN p.containers : p.containers[i].name = "mm"} = {1}
    BY <1>6, <1>7
  <2>2. (CHOOSE i \in {1} : \A j \in {1} : i <= j) = 1
    OBVIOUS
  <2>3. QED BY <2>1, <2>2 DEF FindContainer
<1>9. \A v \in Range(e) : v.dir \in MMDirs
  BY <1>3 DEF MMDirs
<1>10. CASE MountPoint.kind # "uds"
  <2>1. SocketFit(c, arr)
    BY <1>3, <1>6, <1>9, <1>10, ListedNone DEF SocketFit
  <2>2. addMMDomainSocketMount(p) = p
    BY <1>10 DEF addMMDomainSocketMount
  <2>3. QED BY <1>7, <2>1, <2>2 DEF FitPod, ContainersOf
<1>11. CASE MountPoint.kind = "uds"
  <2>1. PICK m : m = SocketMount(MountPoint.dir)
    OBVIOUS
  <2>2. PICK s : s = Append(<<>>, m)
    OBVIOUS
  <2>3. Listed(s) /\ m \in Range(s)
    BY <2>2, ListedNone, ListedAppend
  <2>4. PICK d : d = [c EXCEPT !.mounts.seq = s]
    OBVIOUS
  <2>5. d = Container(c.name, c.env, [seq |-> s, common |-> c.mounts.common])
    BY <1>5, <2>4, BoxFields
  <2>6. d.name = "mm" /\ d.env = e /\ d.mounts.seq = s /\ d.mounts.common = 0
    BY <1>6, <2>5, FieldsOf
  <2>7. SocketFit(d, arr)
    BY <1>3, <1>9, <2>1, <2>3, <2>6 DEF SocketFit
  <2>8. MM(p) = c
    BY <1>7, <1>8 DEF MM
  <2>9. addMMDomainSocketMount(p) = WithMM(p, d)
    BY <1>6, <1>11, <2>1, <2>2, <2>4, <2>8 DEF addMMDomainSocketMount
  <2>10. WithMM(p, d).containers = [p.containers EXCEPT ![1] = d]
    BY <1>8 DEF WithMM, WellFormed
  <2>11. PICK q : q = [p.containers EXCEPT ![1] = d]
    OBVIOUS
  <2>12. DOMAIN q = {1} /\ q[1] = d
    BY <1>7, <2>11
  <2>13. QED BY <2>7, <2>9, <2>10, <2>11, <2>12 DEF FitPod, ContainersOf
<1>12. QED BY <1>10, <1>11

LEMMA StartQuiet == ASSUME NEW cs \in Seq(Range(PVCOrder)) PROVE QuietBuild(cs, Start(cs))
<1>1. PICK p : p = addVolumes(TemplatePod, cs)
  OBVIOUS
<1>2. PICK q : q = addMMDomainSocketMount(p)
  OBVIOUS
<1>3. PICK r : r = addPassThroughPodFields(q)
  OBVIOUS
<1>4. WellFormed(p)
  BY <1>1, TemplateFormed, VolumesHarmless DEF Harmless
<1>5. p.containers = TemplatePod.containers
  <2>1. PICK v : p = [TemplatePod EXCEPT !.volumes = v]
    BY <1>1 DEF addVolumes
  <2>2. QED BY <2>1 DEF TemplatePod
<1>6. WellFormed(q)
  BY <1>2, <1>4, SocketHarmless DEF Harmless
<1>7. WellFormed(r)
  BY <1>3, <1>6, FieldsHarmless DEF Harmless
<1>8. ASSUME NEW arr PROVE FitPod(r, arr)
  <2>1. FitPod(q, arr)
    BY <1>2, <1>4, <1>5, TemplateFit
  <2>2. PICK x : r = [q EXCEPT !.terms = x]
    BY <1>3 DEF addPassThroughPodFields
  <2>3. QED BY <1>6, <2>1, <2>2, FieldsFit
<1>9. Start(cs).pod = r /\ Start(cs).arr = Array(cs)
  BY <1>1, <1>2, <1>3 DEF Start, Build
<1>10. QED BY <1>7, <1>8, <1>9, StartRoom DEF QuietBuild

\* A container of the runtime is told of no socket, and leaves the others as they are.
LEMMA ContainerQuiet ==
    ASSUME NEW cs \in Seq(Range(PVCOrder)), NEW c, c.mounts \in Seq(STRING), c.name \notin InternalContainers,
           NEW b, QuietBuild(cs, b)
    PROVE  QuietBuild(cs, addContainer(cs, c, b))
<1>1. PICK ms : ms = UserMounts(c)
  OBVIOUS
<1>2. Listed(ms) /\ Len(ms) \in Nat
  <2>1. PICK x \in Seq(STRING) : x = c.mounts
    OBVIOUS
  <2>2. ms = [i \in DOMAIN x |-> ms[i]]
    BY <1>1, <2>1 DEF UserMounts
  <2>3. QED BY <2>2, ListedMap
<1>3. PICK a : a = AppendToCommon(cs, b.arr, ms)
  OBVIOUS
<1>4. PICK d : d = AddDomainSocketMount(a)
  OBVIOUS
<1>5. ContainerMounts(cs, c, b.arr) = d
  BY <1>1, <1>3, <1>4 DEF ContainerMounts, UserMounts
<1>6. Room(cs, d.arr)
  BY <1>2, <1>3, <1>4, AppendRoom, SocketRoom DEF QuietBuild
<1>7. PICK x : x = Container(c.name, <<>>, d.s)
  OBVIOUS
<1>8. x.name = c.name /\ x.env = <<>>
  BY <1>7 DEF Container
<1>9. Box(x)
  <2>1. d.s = [seq |-> d.s.seq, common |-> d.s.common] /\ d.s.common \in Nat
    BY <1>2, <1>3, <1>4, SliceShape
  <2>2. QED BY <1>7, <2>1 DEF Box, Container
<1>10. \A arr : SocketFit(x, arr)
  BY <1>8, ListedNone DEF SocketFit, Shown, InternalContainers
<1>11. PICK p : p = b.pod
  OBVIOUS
<1>12. addContainer(cs, c, b).pod = PutContainer(p, x) /\ addContainer(cs, c, b).arr = d.arr
  BY <1>5, <1>7, <1>11 DEF addContainer, Build
<1>13. WellFormed(PutContainer(p, x))
  BY <1>9, <1>11, ContainerPut DEF QuietBuild
<1>14. ASSUME NEW arr PROVE FitPod(PutContainer(p, x), arr)
  BY <1>9, <1>10, <1>11, PutContainers DEF QuietBuild, FitPod
<1>15. QED BY <1>6, <1>12, <1>13, <1>14 DEF QuietBuild

\* Whatever number of containers has been added.
LEMMA BuiltQuiet ==
    ASSUME InputsInv, ValidNames, NEW cs \in Seq(Range(PVCOrder)), NEW b, BuiltAll(cs, b)
    PROVE  QuietBuild(cs, b)
<1>1. PICK l \in Nat : l = Len(rt.containers) /\ DOMAIN rt.containers = 1..l
  BY DEF InputsInv, RuntimeSet
<1>2. PICK n \in Nat \ {0} : n = l + 1
  BY <1>1
<1>3. PICK t : Traced(cs, n, t) /\ t[n] = b
  BY <1>1, <1>2 DEF BuiltAll, Built
<1> DEFINE D == {k \in 1..n : ~ QuietBuild(cs, t[k])}
<1>4. D = {}
  <2>1. SUFFICES ASSUME D # {} PROVE FALSE
    OBVIOUS
  <2>2. D \in SUBSET Nat
    OBVIOUS
  <2>3. PICK k \in D : \A i \in D : k <= i
    <3> HIDE DEF D
    <3> QED BY <2>1, <2>2, SmallestNumber
  <2>4. k \in 1..n /\ ~ QuietBuild(cs, t[k])
    OBVIOUS
  <2>5. k # 1
    BY <1>3, <2>4, StartQuiet DEF Traced
  <2>6. PICK i \in 1..(n - 1) : i + 1 = k /\ i \in 1..n /\ i \in DOMAIN rt.containers
    <3> HIDE DEF D
    <3>1. PICK i \in Int : i = k - 1
      BY <2>4
    <3>2. i \in 1..(n - 1) /\ i + 1 = k /\ i \in 1..n /\ i \in 1..l
      BY <1>2, <2>4, <2>5, <3>1
    <3>3. QED BY <1>1, <3>2
  <2>7. QuietBuild(cs, t[i])
    BY <2>3, <2>6
  <2>8. t[k] = addContainer(cs, rt.containers[i], t[i])
    BY <1>3, <2>6 DEF Traced
  <2>9. PICK c : c = rt.containers[i]
    OBVIOUS
  <2>10. c.mounts \in Seq(STRING) /\ c.name \notin InternalContainers
    <3>1. PICK S, u : /\ S = [name : STRING, mounts : Seq(STRING), flaw : BOOLEAN]
                      /\ u = rt.containers /\ u \in Seq(S)
      BY DEF InputsInv, RuntimeSet
    <3>2. u[i] \in S
      <4> HIDE DEF D
      <4>1. DOMAIN u = 1..Len(u) /\ i \in DOMAIN u
        BY <2>6, <3>1
      <4>2. QED BY <3>1, <4>1, ElementOfSeq
    <3>3. c.mounts \in Seq(STRING)
      BY <2>9, <3>1, <3>2
    <3>4. QED BY <2>6, <2>9, <3>3 DEF ValidNames
  <2>11. QED BY <2>4, <2>7, <2>8, <2>9, <2>10, ContainerQuiet
<1>5. QED BY <1>2, <1>3, <1>4

\* The adapter is told of the data endpoint, if there is one.
LEMMA AdapterDirs ==
    ASSUME InputsInv
    PROVE  /\ Listed(AdapterEnv)
           /\ \A v \in Range(AdapterEnv) : v.dir = "-" \/ (Given(rt.data) /\ v.dir = ParseEndpoint(rt.data).dir)
<1>1. PICK x, y, d : /\ x = Env("ADAPTER_PORT", "set") /\ y = Env("RUNTIME_PORT", "set")
                     /\ d = IF Given(rt.data) THEN ParseEndpoint(rt.data).dir ELSE "-"
  OBVIOUS
<1>2. PICK z : z = EnvPath("RUNTIME_DATA_ENDPOINT", d)
  OBVIOUS
<1>3. PICK s : s = <<x, y, z>>
  OBVIOUS
<1>4. Listed(s) /\ Range(s) = {x, y, z}
  BY <1>3, ListedThree
<1>5. x.dir = "-" /\ y.dir = "-" /\ z.dir = d
  BY <1>1, <1>2, EnvDir DEF EnvPath
<1>6. PICK w \in Seq(STRING) : w = rt.adapterEnv
  BY DEF InputsInv, RuntimeSet
<1>7. PICK t : t = [i \in DOMAIN w |-> Env(w[i], "user")]
  OBVIOUS
<1>8. t = [i \in DOMAIN w |-> t[i]] /\ \A i \in DOMAIN w : t[i] = Env(w[i], "user")
  BY <1>7
<1>9. Listed(t) /\ Range(t) = {t[i] : i \in DOMAIN w}
  BY <1>8, ListedMap
<1>10. \A v \in Range(t) : v.dir = "-"
  BY <1>8, <1>9, EnvDir
<1>11. AdapterEnv = SetAll(s, t)
  BY <1>1, <1>2, <1>3, <1>6, <1>7 DEF AdapterEnv
<1>12. Listed(SetAll(s, t)) /\ Range(SetAll(s, t)) \subseteq Range(s) \cup Range(t)
  BY <1>4, <1>9, ListedSetAll
<1>13. QED BY <1>1, <1>4, <1>5, <1>10, <1>11, <1>12

LEMMA AdapterFit ==
    ASSUME InputsInv, NEW cs \in Seq(Range(PVCOrder)), NEW b, QuietBuild(cs, b), rt.mgmt.kind \in {"none", "port"}
    PROVE  WellFormed(addAdapter(cs, b).pod) /\ FitPod(addAdapter(cs, b).pod, addAdapter(cs, b).arr)
<1>1. PICK ms : ms = <<Mount("storage-config")>>
  OBVIOUS
<1>2. Listed(ms) /\ Len(ms) \in Nat
  BY <1>1, ListedOne, ListedOwn
<1>3. PICK m : m = AppendToCommon(cs, b.arr, ms)
  OBVIOUS
<1>4. PICK d : d = AddDomainSocketMount(m)
  OBVIOUS
<1>5. PICK a : a = IF Given(rt.data) THEN d ELSE m
  OBVIOUS
<1>6. PICK x : x = Container("adapter", AdapterEnv, a.s)
  OBVIOUS
<1>7. PICK p : p = b.pod
  OBVIOUS
<1>8. addAdapter(cs, b).pod = [p EXCEPT !.containers = Append(@, x)] /\ addAdapter(cs, b).arr = a.arr
  BY <1>1, <1>3, <1>4, <1>5, <1>6, <1>7 DEF addAdapter, Build
<1>9. Box(x)
  <2>1. /\ m.s = [seq |-> m.s.seq, common |-> m.s.common] /\ m.s.common \in Nat
        /\ d.s = [seq |-> d.s.seq, common |-> d.s.common] /\ d.s.common \in Nat
    BY <1>2, <1>3, <1>4, SliceShape
  <2>2. a.s = [seq |-> a.s.seq, common |-> a.s.common] /\ a.s.common \in Nat
    BY <1>5, <2>1
  <2>3. QED BY <1>6, <2>2 DEF Box, Container
<1>10. x.name = "adapter" /\ x.env = AdapterEnv /\ x.mounts = a.s
  BY <1>6 DEF Container
<1>11. Room(cs, m.arr) /\ Lies(m.s, m.arr)
  BY <1>2, <1>3, AppendRoom DEF QuietBuild
<1>12. SocketDirs # {} => SocketMount(CHOOSE y \in SocketDirs : TRUE) \in Range(Slice(d.s, d.arr))
  BY <1>4, <1>11, SocketRoom
<1>13. ASSUME NEW v \in Range(AdapterEnv), v.dir # "-" PROVE SocketMount(v.dir) \in Range(Slice(a.s, a.arr))
  <2>1. Given(rt.data) /\ v.dir = ParseEndpoint(rt.data).dir
    BY <1>13, AdapterDirs
  <2>2. SocketDirs = {v.dir}
    <3>1. rt.mgmt \in EndpointSet
      BY DEF InputsInv, RuntimeSet
    <3>2. Given(rt.mgmt) => ParseEndpoint(rt.mgmt).dir = "-"
      BY <3>1 DEF Given, NoEndpoint, EndpointSet, ParseEndpoint
    <3>3. QED BY <1>13, <2>1, <3>2 DEF SocketDirs, Endpoints
  <2>3. (CHOOSE y \in SocketDirs : TRUE) = v.dir
    BY <2>2
  <2>4. QED BY <1>5, <1>12, <2>1, <2>2, <2>3
<1>14. SocketFit(x, a.arr)
  BY <1>10, <1>13, AdapterDirs DEF SocketFit, Shown
<1>15. WellFormed(p) /\ FitPod(p, a.arr)
  BY <1>7 DEF QuietBuild
<1>16. PICK q : q = [p EXCEPT !.containers = Append(@, x)]
  OBVIOUS
<1>17. WellFormed(q)
  BY <1>9, <1>15, <1>16, ContainerAppended
<1>18. FitPod(q, a.arr)
  BY <1>9, <1>14, <1>15, <1>16, AppendedContainers DEF FitPod
<1>19. QED BY <1>8, <1>16, <1>17, <1>18

\* What the reconcile has seen of the endpoints, when the deployment is complete.
Passed ==
    /\ rt.adapter # "" => rt.mgmt.kind \in {"none", "port"}
    /\ UseStorageHelper => ValidEndpoint(rt.mgmt)
    /\ rt.containers # <<>> => ~ ManySocketDirs

LEMMA ApplyFit ==
    ASSUME InputsInv, ValidNames, Passed, NEW cs \in Seq(Range(PVCOrder)), NEW b, BuiltAll(cs, b)
    PROVE  LET p == ToApply(cs, Adapted(cs, b))
           IN  Resolved(p) /\ FitPod(p, <<>>)
<1>1. QuietBuild(cs, b)
  BY BuiltQuiet
<1>2. PICK d : d = Adapted(cs, b)
  OBVIOUS
<1>3. PICK arr : arr = d.arr
  OBVIOUS
<1>4. WellFormed(d.pod) /\ FitPod(d.pod, arr)
  <2>1. CASE rt.adapter = ""
    BY <1>1, <1>2, <2>1 DEF Adapted, QuietBuild
  <2>2. CASE rt.adapter # ""
    BY <1>1, <1>2, <1>3, <2>2, AdapterFit DEF Adapted, Passed
  <2>3. QED BY <2>1, <2>2
<1>5. WellFormed(ToEnv(d)) /\ FitPod(ToEnv(d), arr)
  BY <1>4, GraceHarmless, GraceFit DEF ToEnv, Harmless
<1>6. WellFormed(ToConstraints(d)) /\ FitPod(ToConstraints(d), arr)
  BY <1>5, EnvHarmless, EnvFit DEF ToConstraints, Harmless
<1>7. WellFormed(ToEtcd(d)) /\ FitPod(ToEtcd(d), arr)
  BY <1>6, ConstraintsHarmless, ConstraintsFit DEF ToEtcd, Harmless
<1>8. WellFormed(ToProxy(d)) /\ FitPod(ToProxy(d), arr)
  BY <1>7, EtcdHarmless, EtcdFit DEF ToProxy, Harmless
<1>9. WellFormed(ToTLS(d)) /\ FitPod(ToTLS(d), arr)
  BY <1>8, ProxyHarmless, ProxyFit DEF ToTLS, Harmless
<1>10. WellFormed(ToMetadata(d)) /\ FitPod(ToMetadata(d), arr)
  BY <1>9, TLSHarmless, TLSFit DEF ToMetadata, Harmless
<1>11. WellFormed(ToLast(d)) /\ FitPod(ToLast(d), arr)
  BY <1>10, MetadataHarmless, LabelsFit DEF ToLast, Harmless
<1>12. WellFormed(ToSecrets(d)) /\ FitPod(ToSecrets(d), arr)
  BY <1>11, LastHarmless, LastFit DEF ToSecrets, Harmless
<1>13. WellFormed(ToPuller(d)) /\ Resolved(ToPuller(d)) /\ FitPod(ToPuller(d), <<>>)
  BY <1>3, <1>12, SecretsResolve, SecretsResolved, SecretsFit DEF ToPuller
<1>14. Resolved(ToApply(cs, d)) /\ FitPod(ToApply(cs, d), <<>>)
  BY <1>13, PullerResolved, PullerFit DEF ToApply, Passed
<1>15. QED BY <1>2, <1>14

\* Every container of a pod has the sockets it is told of.
SocketsIn(p) ==
    \A c \in ContainersOf(p) : \A i \in DOMAIN c.env :
      \/ c.env[i].dir = "-"
      \/ SocketMount(c.env[i].dir) \in MountsOf(c)
      \/ /\ c.name = "mm" /\ ~ UseStorageHelper /\ Given(rt.data)
         /\ MountPoint.kind = "tcp" \/ (ManySocketDirs /\ rt.containers = <<>>)

\* Model-mesh mounts the directory of one endpoint, and the others have the same or are excepted.
LEMMA FitShows ==
    ASSUME InputsInv, Passed, NEW p, Resolved(p), FitPod(p, <<>>)
    PROVE  SocketsIn(p)
<1> SUFFICES ASSUME NEW c \in ContainersOf(p), NEW i \in DOMAIN c.env
             PROVE  \/ c.env[i].dir = "-"
                    \/ SocketMount(c.env[i].dir) \in MountsOf(c)
                    \/ /\ c.name = "mm" /\ ~ UseStorageHelper /\ Given(rt.data)
                       /\ MountPoint.kind = "tcp" \/ (ManySocketDirs /\ rt.containers = <<>>)
  BY DEF SocketsIn
<1>1. PICK v : v = c.env[i]
  OBVIOUS
<1>2. v \in Range(c.env)
  BY <1>1 DEF Range
<1>3. SocketFit(c, <<>>)
  BY DEF FitPod
<1>4. c.mounts.common = 0
  BY DEF ContainersOf, Resolved
<1>5. CASE c.name # "mm"
  <2>1. Slice(c.mounts, <<>>) = c.mounts.seq
    BY <1>4 DEF Slice
  <2>2. QED BY <1>1, <1>2, <1>3, <1>5, <2>1 DEF SocketFit, Shown, MountsOf
<1>6. CASE c.name = "mm"
  <2>1. v.dir \in MMDirs /\ (MountPoint.kind = "uds" => SocketMount(MountPoint.dir) \in MountsOf(c))
    BY <1>2, <1>3, <1>6 DEF SocketFit, MountsOf
  <2>2. rt.data \in EndpointSet /\ rt.mgmt \in EndpointSet
    BY DEF InputsInv, RuntimeSet
  <2>3. \A e \in EndpointSet : /\ ParseEndpoint(e).kind \in {"tcp", "uds"}
                               /\ ParseEndpoint(e).kind = "tcp" => ParseEndpoint(e).dir = "-"
                               /\ ~ Given(e) => ParseEndpoint(e).dir = "-"
                               /\ Given(e) /\ ParseEndpoint(e).kind = "uds" => ParseEndpoint(e).dir # "-"
    BY DEF EndpointSet, ParseEndpoint, Given, NoEndpoint
  <2>4. CASE Given(rt.data) /\ v.dir = ParseEndpoint(rt.data).dir
    <3>1. MountPoint = ParseEndpoint(rt.data)
      BY <2>4 DEF MountPoint
    <3>2. QED BY <1>1, <2>1, <2>2, <2>3, <2>4, <3>1
  <2>5. CASE ~ UseStorageHelper /\ v.dir = ParseEndpoint(rt.mgmt).dir
    <3>1. CASE ~ Given(rt.mgmt)
      BY <1>1, <2>2, <2>3, <2>5, <3>1
    <3>2. CASE Given(rt.mgmt) /\ ~ Given(rt.data)
      <4>1. MountPoint = ParseEndpoint(rt.mgmt)
        BY <3>2 DEF MountPoint
      <4>2. QED BY <1>1, <2>1, <2>2, <2>3, <2>5, <4>1
    <3>3. CASE Given(rt.mgmt) /\ Given(rt.data)
      <4>1. MountPoint = ParseEndpoint(rt.data)
        BY <3>3 DEF MountPoint
      <4>2. CASE MountPoint.kind = "tcp"
        BY <1>6, <2>5, <3>3, <4>2
      <4>3. CASE MountPoint.kind = "uds"
        <5>1. CASE v.dir = MountPoint.dir
          BY <1>1, <2>1, <4>3, <5>1
        <5>2. CASE v.dir # MountPoint.dir /\ v.dir # "-"
          <6>1. v.dir \in SocketDirs /\ MountPoint.dir \in SocketDirs
            BY <2>2, <2>3, <2>5, <3>3, <4>1, <4>3, <5>2 DEF SocketDirs, Endpoints
          <6>2. ManySocketDirs
            <7>1. SUFFICES ASSUME ~ ManySocketDirs PROVE FALSE
              OBVIOUS
            <7>2. SocketDirs # {}
              BY <6>1
            <7>3. PICK z : SocketDirs = {z}
              BY <7>1, <7>2, OneSocketDir
            <7>4. QED BY <5>2, <6>1, <7>3
          <6>3. QED BY <1>6, <2>5, <3>3, <6>2 DEF Passed
        <5>3. QED BY <1>1, <5>1, <5>2
      <4>4. QED BY <2>2, <2>3, <4>1, <4>2, <4>3
    <3>4. QED BY <3>1, <3>2, <3>3
  <2>6. QED BY <1>1, <2>1, <2>4, <2>5 DEF MMDirs
<1>7. QED BY <1>5, <1>6

\* What the steps of the reconcile have seen of the endpoints.
GuardInv ==
    /\ phase = "containers" /\ next > 1 => ~ ManySocketDirs
    /\ phase \in LaterSteps => /\ rt.adapter # "" => rt.mgmt.kind \in {"none", "port"}
                               /\ rt.containers # <<>> => ~ ManySocketDirs
    /\ phase = "apply" => (UseStorageHelper => ValidEndpoint(rt.mgmt))

LEMMA NextGuard ==
    InputsInv /\ BuildInv /\ GuardInv /\ [DeploymentNext]_deploymentVars => GuardInv'
<1> SUFFICES ASSUME InputsInv, BuildInv, GuardInv, [DeploymentNext]_deploymentVars
             PROVE  GuardInv'
  OBVIOUS
<1>a. UNCHANGED <<rt, cfg>>
  BY InputsKept DEF inputs
<1>b. /\ ManySocketDirs' = ManySocketDirs
      /\ (UseStorageHelper' <=> UseStorageHelper) /\ (ValidEndpoint(rt.mgmt)' <=> ValidEndpoint(rt.mgmt))
  BY <1>a, SameVocabulary DEF ManySocketDirs, ValidEndpoint
<1>c. ASSUME phase' \notin LaterSteps \cup {"containers"} PROVE GuardInv'
  BY <1>c DEF GuardInv, LaterSteps
<1>d. PICK l \in Nat : l = Len(rt.containers) /\ (l = 0 => rt.containers = <<>>)
  BY DEF InputsInv, RuntimeSet
<1> USE DEF AtStep, Change, Proceed, Fail, found
<1>1. CASE LoadManifest
  BY <1>1, <1>c DEF LoadManifest, LaterSteps
<1>2. CASE AddVolumes
  BY <1>2, <1>c DEF AddVolumes, LaterSteps
<1>3. CASE AddMMDomainSocketMount
  BY <1>3, <1>c DEF AddMMDomainSocketMount, LaterSteps
<1>4. CASE AddPassThroughPodFields
  BY <1>4 DEF AddPassThroughPodFields, LaterSteps, GuardInv
<1>5. CASE AddContainer
  <2>1. phase' = "ended" \/ (phase' = "containers" /\ ~ ManySocketDirs)
    BY <1>5 DEF AddContainer
  <2>2. QED BY <1>b, <1>c, <2>1 DEF GuardInv, LaterSteps
<1>6. CASE AddAdapter \/ NoAdapter
  <2>1. /\ phase = "containers" /\ next > l
        /\ phase' = "ended" \/ (phase' = "grace" /\ (rt.adapter # "" => ~ Given(rt.mgmt) \/ rt.mgmt.kind = "port"))
    BY <1>6, <1>d DEF AddAdapter, NoAdapter
  <2>2. rt.mgmt \in EndpointSet
    BY DEF InputsInv, RuntimeSet
  <2>3. ~ Given(rt.mgmt) => rt.mgmt.kind = "none"
    BY <2>2 DEF Given, NoEndpoint
  <2>4. rt.containers # <<>> => ~ ManySocketDirs
    <3>1. PICK n : n = next
      OBVIOUS
    <3>2. n \in 1..(l + 1) /\ n > l
      BY <1>d, <2>1, <3>1 DEF BuildInv
    <3>3. l # 0 => n > 1
      BY <3>2
    <3>4. rt.containers # <<>> => next > 1
      BY <1>d, <3>1, <3>3
    <3>5. QED BY <2>1, <3>4 DEF GuardInv
  <2>5. CASE phase' = "ended"
    BY <1>c, <2>5 DEF LaterSteps
  <2>6. CASE phase' = "grace"
    BY <1>a, <1>b, <2>1, <2>3, <2>4, <2>6 DEF GuardInv
  <2>7. QED BY <2>1, <2>5, <2>6
<1>7. CASE LaterNext
  <2>1. phase \in LaterSteps \ {"apply"} /\ (phase' = "ended" \/ phase' \in LaterSteps)
    BY <1>7 DEF LaterNext, LaterSteps, SyncGracePeriod, AddMMEnvVars, AddModelTypeConstraints,
         ConfigureEtcdSecret, AddRESTProxy, ConfigureTLSSecret, ConfigureMetadata, EnsureMMContainerIsLast,
         ConfigureImagePullSecrets, AddPuller
  <2>2. phase' = "apply" => AddPuller
    BY <1>7 DEF LaterNext, LaterSteps, SyncGracePeriod, AddMMEnvVars, AddModelTypeConstraints,
         ConfigureEtcdSecret, AddRESTProxy, ConfigureTLSSecret, ConfigureMetadata, EnsureMMContainerIsLast,
         ConfigureImagePullSecrets
  <2>3. phase' = "apply" => (UseStorageHelper => ValidEndpoint(rt.mgmt))
    BY <2>2 DEF AddPuller
  <2>4. CASE phase' = "ended"
    BY <1>c, <2>4 DEF LaterSteps
  <2>5. CASE phase' \in LaterSteps
    <3>1. phase' # "containers"
      BY <2>5 DEF LaterSteps
    <3>2. QED BY <1>a, <1>b, <2>1, <2>3, <2>5, <3>1 DEF GuardInv
  <2>6. QED BY <2>1, <2>4, <2>5
<1>8. CASE UNCHANGED deploymentVars
  BY <1>8, <1>a, <1>b DEF deploymentVars, GuardInv
<1>9. CASE Handle \/ Validate \/ GetPVCs \/ DeleteDeployment \/ Scale \/ (\E e \in entries : ReadStorageEntry(e))
           \/ ApplyManifest \/ ReconcileAgain
  <2>1. phase' \notin LaterSteps \cup {"containers"}
    BY <1>9 DEF Handle, Validate, GetPVCs, DeleteDeployment, Scale, ReadStorageEntry, ReconcileAgain, ApplyManifest,
                LaterSteps
  <2>2. QED BY <1>c, <2>1
<1>10. QED
  <2>1. BuildNext => LoadManifest \/ AddVolumes \/ AddMMDomainSocketMount \/ AddPassThroughPodFields
                     \/ AddContainer \/ AddAdapter \/ NoAdapter \/ LaterNext
    BY DEF BuildNext, LaterNext
  <2>2. QED BY <1>1, <1>2, <1>3, <1>4, <1>5, <1>6, <1>7, <1>8, <1>9, <2>1, StepKinds

LEMMA SocketsSame == ASSUME UNCHANGED <<rt, cfg>>, NEW p PROVE SocketsIn(p)' <=> SocketsIn(p)
<1>1. MountPoint' = MountPoint /\ (UseStorageHelper' <=> UseStorageHelper) /\ (Given(rt.data)' <=> Given(rt.data))
      /\ ManySocketDirs' = ManySocketDirs
  BY SameVocabulary DEF ManySocketDirs
<1>2. ContainersOf(p)' = ContainersOf(p) /\ \A c : MountsOf(c)' = MountsOf(c)
  BY DEF ContainersOf, MountsOf
<1>3. QED BY <1>1, <1>2 DEF SocketsIn

LEMMA NextSockets ==
    /\ InputsInv /\ ClaimsInv /\ BuildInv /\ NamesInv /\ GuardInv /\ applied \in Seq(Pods) /\ SocketsMounted
    /\ [DeploymentNext]_deploymentVars
    => SocketsMounted'
<1> SUFFICES ASSUME InputsInv, ClaimsInv, BuildInv, NamesInv, GuardInv, applied \in Seq(Pods), SocketsMounted,
                    [DeploymentNext]_deploymentVars
             PROVE  SocketsMounted'
  OBVIOUS
<1>1. UNCHANGED <<rt, cfg>>
  BY InputsKept DEF inputs
<1>2. \A p \in Pods : SocketsIn(p)
  BY DEF SocketsMounted, SocketsIn
<1>3. (\A p \in Pods' : SocketsIn(p)) => SocketsMounted'
  <2>1. (\A p \in Pods' : SocketsIn(p)') => SocketsMounted'
    BY DEF SocketsMounted, SocketsIn
  <2>2. QED BY <1>1, <2>1, SocketsSame
<1>4. CASE applied' = applied
  <2>1. Pods' = Pods
    BY <1>4 DEF Pods
  <2>2. QED BY <1>2, <1>3, <2>1
<1>5. CASE applied' # applied
  <2>1. ApplyManifest /\ applied' = Append(applied, pod)
    BY <1>5, StepKinds, BuildIsStep
       DEF Handle, Validate, GetPVCs, DeleteDeployment, Scale, ReadStorageEntry, BuildStep, ApplyManifest,
           ReconcileAgain, Proceed, Fail, deploymentVars
  <2>2. PICK p : p = pod
    OBVIOUS
  <2>3. \A q \in Pods' : q \in Pods \/ q = p
    BY <2>1, <2>2 DEF Pods
  <2>4. phase = "apply"
    BY <2>1 DEF ApplyManifest, AtStep
  <2>5. PICK cs \in Seq(Range(PVCOrder)) : cs = pvcs
    BY DEF ClaimsInv
  <2>6. PICK b : BuiltAll(cs, b) /\ PodIs(cs, Adapted(cs, b))
    BY <2>4, <2>5 DEF BuildInv, LaterSteps
  <2>7. p = ToApply(cs, Adapted(cs, b))
    BY <2>2, <2>4, <2>6 DEF PodIs
  <2>8. ValidNames /\ Passed
    BY <2>4 DEF NamesInv, GuardInv, Passed, LaterSteps
  <2>9. Resolved(p) /\ FitPod(p, <<>>)
    BY <2>6, <2>7, <2>8, ApplyFit
  <2>10. SocketsIn(p)
    BY <2>8, <2>9, FitShows
  <2>11. QED BY <1>2, <1>3, <2>3, <2>10
<1>6. QED BY <1>4, <1>5

\* SocketsMounted, for any runtime, any cluster and any number of containers and claims: whatever
\* the transformations add and move, a container that is told of a socket mounts its directory,
\* also where the adapter's mount lies in the array that all containers share; for model-mesh with
\* the exceptions of mountPoint (util.go:109-138).
THEOREM SocketsAreMounted == DeploymentSpec => []SocketsMounted
<1> DEFINE Inv == /\ InputsInv /\ ClaimsInv /\ BuildInv /\ AppliedInv /\ applied \in Seq(Pods)
                  /\ NamesInv /\ GuardInv /\ SocketsMounted
<1>1. DeploymentInit => Inv
  <2> SUFFICES ASSUME DeploymentInit PROVE Inv
    OBVIOUS
  <2>1. pvcs = <<>> /\ phase = "admit" /\ applied = <<>>
    BY DEF DeploymentInit
  <2>2. ClaimsInv
    BY <2>1, EmptySeq DEF DeploymentInit, ClaimsInv, BuildSteps
  <2>3. BuildInv
    BY <2>1 DEF BuildInv, LaterSteps
  <2>4. Pods = {}
    BY <2>1 DEF Pods
  <2>5. AppliedInv /\ applied \in Seq(Pods) /\ SocketsMounted
    BY <2>1, <2>4 DEF AppliedInv, SocketsMounted
  <2>6. GuardInv
    BY <2>1 DEF GuardInv, LaterSteps
  <2>7. QED
    BY <2>1, <2>2, <2>3, <2>5, <2>6, InitInputs DEF NamesInv
<1>2. Inv /\ [DeploymentNext]_deploymentVars => Inv'
  <2> SUFFICES ASSUME Inv, [DeploymentNext]_deploymentVars PROVE Inv'
    OBVIOUS
  <2>1. InputsInv'
    BY InputsKept DEF inputs, InputsInv
  <2>2. ClaimsInv' BY NextClaims
  <2>3. BuildInv' BY NextBuild
  <2>4. AppliedInv' /\ (applied \in Seq(Pods))' BY NextApplied
  <2>5. NamesInv' BY NextNames
  <2>6. GuardInv' BY NextGuard
  <2>7. SocketsMounted' BY NextSockets
  <2>8. QED BY <2>1, <2>2, <2>3, <2>4, <2>5, <2>6, <2>7
<1>3. QED
  BY <1>1, <1>2, PTL DEF DeploymentSpec

-----------------------------------------------------------------------------
(* RuntimeDeployment: what the API server takes *)

\* A sequence without repetitions, and one of mounts of the volumes V.
Distinct(s) == Listed(s) /\ IsInjective(s)

Proper(s, V) == Distinct(s) /\ \A m \in Range(s) : m.vol \in V

LEMMA DistinctAppend ==
    ASSUME NEW s, Distinct(s), NEW x, x \notin Range(s)
    PROVE  Distinct(Append(s, x))
<1>1. PICK S : S = Range(s) \cup {x}
  OBVIOUS
<1>2. s \in Seq(S) /\ x \in S
  BY <1>1, ListedOwn, SeqMonotonic DEF Distinct
<1>3. PICK n \in Nat : n = Len(s) /\ DOMAIN s = 1..n
  BY <1>2
<1>4. PICK t : t = Append(s, x)
  OBVIOUS
<1>5. DOMAIN t = 1..(n + 1) /\ t[n + 1] = x /\ \A i \in 1..n : t[i] = s[i]
  BY <1>2, <1>3, <1>4
<1>6. \A i \in 1..n : s[i] # x
  BY <1>3 DEF Range
<1>7. \A i, j \in 1..n : s[i] = s[j] => i = j
  BY <1>3 DEF Distinct, IsInjective
<1>8. ASSUME NEW i \in 1..(n + 1), NEW j \in 1..(n + 1), t[i] = t[j] PROVE i = j
  <2>1. i \in 1..n \/ i = n + 1
    OBVIOUS
  <2>2. j \in 1..n \/ j = n + 1
    OBVIOUS
  <2>3. QED BY <1>5, <1>6, <1>7, <1>8, <2>1, <2>2
<1>9. IsInjective(t)
  BY <1>5, <1>8 DEF IsInjective
<1>10. QED BY <1>4, <1>9, ListedAppend DEF Distinct

LEMMA DistinctItem ==
    ASSUME NEW s, Distinct(s), NEW x
    PROVE  Distinct(WithItem(s, x)) /\ Range(WithItem(s, x)) = Range(s) \cup {x}
<1>1. Range(WithItem(s, x)) = Range(s) \cup {x}
  BY ListedItem DEF Distinct
<1>2. QED BY <1>1, DistinctAppend DEF WithItem

LEMMA DistinctConcat ==
    ASSUME NEW s, Distinct(s), NEW t, Distinct(t), Range(s) \cap Range(t) = {}
    PROVE  Distinct(s \o t)
<1>1. PICK S : S = Range(s) \cup Range(t)
  OBVIOUS
<1>2. s \in Seq(S) /\ t \in Seq(S)
  BY <1>1, ListedOwn, SeqMonotonic DEF Distinct
<1>3. PICK n \in Nat, k \in Nat : n = Len(s) /\ DOMAIN s = 1..n /\ k = Len(t) /\ DOMAIN t = 1..k
  BY <1>2
<1>4. PICK u : u = s \o t
  OBVIOUS
<1>5. DOMAIN u = 1..(n + k) /\ \A i \in 1..(n + k) : u[i] = IF i <= n THEN s[i] ELSE t[i - n]
  BY <1>2, <1>3, <1>4
<1>6. \A i \in 1..n : \A j \in 1..k : s[i] # t[j]
  BY <1>3 DEF Range
<1>7. /\ \A i, j \in 1..n : s[i] = s[j] => i = j
      /\ \A i, j \in 1..k : t[i] = t[j] => i = j
  BY <1>3 DEF Distinct, IsInjective
<1>8. ASSUME NEW i \in 1..(n + k), NEW j \in 1..(n + k), u[i] = u[j] PROVE i = j
  <2>1. (i \in 1..n /\ u[i] = s[i]) \/ (i - n \in 1..k /\ u[i] = t[i - n])
    BY <1>5
  <2>2. (j \in 1..n /\ u[j] = s[j]) \/ (j - n \in 1..k /\ u[j] = t[j - n])
    BY <1>5
  <2>3. (i \in 1..n /\ u[i] = s[i]) /\ (j \in 1..n /\ u[j] = s[j]) => i = j
    BY <1>7, <1>8
  <2>4. (i - n \in 1..k /\ u[i] = t[i - n]) /\ (j - n \in 1..k /\ u[j] = t[j - n]) => i - n = j - n
    BY <1>7, <1>8
  <2>5. ~ ((i \in 1..n /\ u[i] = s[i]) /\ (j - n \in 1..k /\ u[j] = t[j - n]))
    BY <1>6, <1>8
  <2>6. ~ ((i - n \in 1..k /\ u[i] = t[i - n]) /\ (j \in 1..n /\ u[j] = s[j]))
    BY <1>6, <1>8
  <2>7. QED BY <2>1, <2>2, <2>3, <2>4, <2>5, <2>6
<1>9. IsInjective(u)
  BY <1>5, <1>8 DEF IsInjective
<1>10. QED BY <1>4, <1>9, ListedConcat DEF Distinct

LEMMA DistinctMap ==
    ASSUME NEW S, NEW s \in Seq(S), IsInjective(s), NEW F, F = DOMAIN s, NEW f, f = [i \in F |-> f[i]],
           \A i, j \in F : f[i] = f[j] => s[i] = s[j]
    PROVE  Distinct(f) /\ Range(f) = {f[i] : i \in F}
<1>1. Listed(f) /\ Range(f) = {f[i] : i \in F}
  BY ListedMap
<1>2. DOMAIN f = F
  OBVIOUS
<1>3. IsInjective(f)
  BY <1>2 DEF IsInjective
<1>4. QED BY <1>1, <1>3 DEF Distinct

LEMMA DistinctNone == Distinct(<<>>) /\ Range(<<>>) = {}
  BY ListedNone DEF Distinct, IsInjective

LEMMA DistinctOne ==
    ASSUME NEW x, NEW t, t = <<x>>
    PROVE  Distinct(t) /\ Range(t) = {x}
<1>1. Listed(t) /\ Range(t) = {x}
  BY ListedOne
<1>2. DOMAIN t = {1}
  OBVIOUS
<1>3. QED BY <1>1, <1>2 DEF Distinct, IsInjective

\* The volumes at the start and at the end.
VolumeList(cs) ==
    rt.volumes \o <<"models-dir">>
    \o (IF UnixDomainSockets THEN <<"domain-socket">> ELSE <<>>)
    \o (IF rt.adapter # "" \/ UseStorageHelper THEN <<"storage-config">> ELSE <<>>)
    \o cs

FinalVolumes(cs) ==
    Range(VolumeList(cs)) \cup {"tc-config", "etcd-config"} \cup (IF cfg.tls = "off" THEN {} ELSE {"tls-certs"})

\* A mount that may follow the common ones.
Extra(cs, m) == m.vol \in FinalVolumes(cs) /\ m \notin Range(CommonMounts(cs))

\* The array of the common mounts has room for no other mount, or for one.
ArrayOK(cs, arr) == arr = CommonMounts(cs) \/ \E x : arr = Append(CommonMounts(cs), x)

\* A slice of its own, the common mounts, or these and the one mount that follows them.
SliceOK(cs, s, arr) ==
    LET n == Len(CommonMounts(cs))
    IN  \/ s.common = 0 /\ Proper(s.seq, FinalVolumes(cs))
        \/ s.common = n
        \/ s.common = n + 1 /\ \E x : Extra(cs, x) /\ arr = Append(CommonMounts(cs), x)

\* What append does to the array: nothing, or it writes the mount that follows.
Follows(cs, arr, brr) ==
    \/ brr = arr
    \/ /\ \E x : arr = Append(CommonMounts(cs), x)
       /\ \E x : Extra(cs, x) /\ brr = Append(CommonMounts(cs), x)

LEMMA SliceFollows ==
    ASSUME NEW cs \in Seq(Range(PVCOrder)), NEW s, NEW arr, SliceOK(cs, s, arr), NEW brr, Follows(cs, arr, brr)
    PROVE  SliceOK(cs, s, brr)
  BY DEF SliceOK, Follows

LEMMA ArrayFollows ==
    ASSUME NEW cs, NEW arr, ArrayOK(cs, arr), NEW brr, Follows(cs, arr, brr)
    PROVE  ArrayOK(cs, brr)
  BY DEF ArrayOK, Follows

LEMMA FollowsOn ==
    ASSUME NEW cs, NEW a, NEW b, NEW c, Follows(cs, a, b), Follows(cs, b, c)
    PROVE  Follows(cs, a, c)
  BY DEF Follows

\* An array with one mount after the common ones.
LEMMA OneMore ==
    ASSUME NEW cs \in Seq(Range(PVCOrder)), NEW x
    PROVE  LET n == Len(CommonMounts(cs))
               arr == Append(CommonMounts(cs), x)
           IN  /\ n \in Nat \ {0} /\ Len(arr) = n + 1
               /\ SubSeq(arr, 1, n) = CommonMounts(cs)
               /\ SubSeq(arr, 1, n + 1) = arr
               /\ SubSeq(CommonMounts(cs), 1, n) = CommonMounts(cs)
               /\ \A m : [arr EXCEPT ![n + 1] = m] = Append(CommonMounts(cs), m)
               /\ SubSeq(arr, n + 2, n + 1) = <<>>
<1>1. PICK C : C = CommonMounts(cs)
  OBVIOUS
<1>2. PICK n \in Nat \ {0} : n = Len(C) /\ C \in Seq(MountSet)
  BY <1>1, CommonType
<1>3. PICK S : S = MountSet \cup {x}
  OBVIOUS
<1>4. C \in Seq(S) /\ x \in S
  BY <1>2, <1>3, SeqMonotonic
<1>5. PICK arr : arr = Append(C, x)
  OBVIOUS
<1>6. arr \in Seq(S) /\ Len(arr) = n + 1 /\ DOMAIN C = 1..n
  BY <1>2, <1>4, <1>5
<1>7. SubSeq(arr, 1, n) = C
  BY <1>2, <1>4, <1>5, <1>6
<1>8. SubSeq(arr, 1, n + 1) = arr
  BY <1>2, <1>4, <1>5, <1>6
<1>9. SubSeq(C, 1, n) = C
  BY <1>2, <1>4
<1>10. ASSUME NEW m PROVE [arr EXCEPT ![n + 1] = m] = Append(C, m)
  <2>1. PICK T : T = S \cup {m}
    OBVIOUS
  <2>2. C \in Seq(T) /\ x \in T /\ m \in T
    BY <1>4, <2>1, SeqMonotonic
  <2>3. PICK u, v : u = [arr EXCEPT ![n + 1] = m] /\ v = Append(C, m)
    OBVIOUS
  <2>4. u \in Seq(T) /\ v \in Seq(T) /\ Len(u) = n + 1 /\ Len(v) = n + 1
    BY <1>2, <1>5, <2>2, <2>3
  <2>5. \A i \in 1..(n + 1) : u[i] = v[i]
    <3>1. \A i \in 1..n : v[i] = C[i] /\ u[i] = arr[i] /\ arr[i] = C[i]
      <4>1. \A i \in 1..n : v[i] = C[i]
        BY <1>2, <2>2, <2>3
      <4>2. \A i \in 1..n : arr[i] = C[i]
        BY <1>2, <1>4, <1>5
      <4>3. DOMAIN arr = 1..(n + 1)
        BY <1>2, <1>6
      <4>4. \A i \in 1..n : i \in DOMAIN arr /\ i # n + 1
        BY <1>2, <4>3
      <4>5. \A i \in 1..n : u[i] = arr[i]
        BY <2>3, <4>4
      <4>6. QED BY <4>1, <4>2, <4>5
    <3>2. v[n + 1] = m /\ u[n + 1] = m
      BY <1>2, <1>6, <2>2, <2>3
    <3>3. \A i \in 1..(n + 1) : i \in 1..n \/ i = n + 1
      BY <1>2
    <3>4. QED BY <3>1, <3>2, <3>3
  <2>6. u = v
    BY <2>4, <2>5, SeqEqual
  <2>7. QED BY <2>3, <2>6
<1>11. SubSeq(arr, n + 2, n + 1) = <<>>
  BY <1>2, <1>6
<1>12. QED
  BY <1>1, <1>2, <1>5, <1>6, <1>7, <1>8, <1>9, <1>10, <1>11

\* What the validator and the exceptions leave: a runtime that can be deployed with the claims cs.
Ready(cs) ==
    /\ InputsInv
    /\ cs \in Seq(Range(PVCOrder)) /\ IsInjective(cs)
    /\ Range(cs) \cap (Range(rt.volumes) \cup InternalVolumes) = {}
    /\ ValidateVolumes /\ IsInjective(rt.volumes)
    /\ \A i \in DOMAIN rt.containers :
         LET c == rt.containers[i]
         IN  /\ ValidateContainer(c) /\ IsInjective(c.mounts)
             /\ Range(c.mounts) \subseteq Range(rt.volumes) \cup Range(cs) \cup {"models-dir"}
    /\ (rt.labels \cup cfg.labels) \cap {"name", "modelmesh-service"} = {}
    /\ rt.adapter # "" => \A i \in DOMAIN rt.containers : rt.containers[i].name # "adapter"
    /\ \A e \in Endpoints : Given(e) => ValidEndpoint(e)
    /\ Spare(Len(CommonMounts(cs))) \in {0, 1}

\* The volumes of the pod at the start have different names.
LEMMA VolumesDistinct ==
    ASSUME NEW cs, Ready(cs)
    PROVE  /\ Distinct(VolumeList(cs))
           /\ Range(VolumeList(cs)) = Range(rt.volumes) \cup {"models-dir"} \cup Range(cs)
                                      \cup (IF UnixDomainSockets THEN {"domain-socket"} ELSE {})
                                      \cup (IF rt.adapter # "" \/ UseStorageHelper THEN {"storage-config"} ELSE {})
<1>1. PICK a, b : a = rt.volumes /\ b = <<"models-dir">>
  OBVIOUS
<1>2. PICK c : c = IF UnixDomainSockets THEN <<"domain-socket">> ELSE <<>>
  OBVIOUS
<1>3. PICK d : d = IF rt.adapter # "" \/ UseStorageHelper THEN <<"storage-config">> ELSE <<>>
  OBVIOUS
<1>4. Distinct(a) /\ Range(a) = Range(rt.volumes)
  BY <1>1 DEF Ready, InputsInv, RuntimeSet, Distinct, Listed
<1>5. Distinct(b) /\ Range(b) = {"models-dir"}
  BY <1>1, DistinctOne
<1>6. Distinct(c) /\ Range(c) = IF UnixDomainSockets THEN {"domain-socket"} ELSE {}
  BY <1>2, DistinctOne, DistinctNone
<1>7. Distinct(d) /\ Range(d) = IF rt.adapter # "" \/ UseStorageHelper THEN {"storage-config"} ELSE {}
  BY <1>3, DistinctOne, DistinctNone
<1>8. Distinct(cs)
  BY DEF Ready, Distinct, Listed
<1>9. Range(rt.volumes) \cap InternalVolumes = {}
  BY DEF Ready, ValidateVolumes, CheckName, Range
<1>10. Range(cs) \cap (Range(rt.volumes) \cup InternalVolumes) = {}
  BY DEF Ready
<1>11. {"models-dir", "domain-socket", "storage-config"} \subseteq InternalVolumes
  BY DEF InternalVolumes
<1>12. Distinct(a \o b) /\ Range(a \o b) = Range(a) \cup Range(b)
  BY <1>4, <1>5, <1>9, <1>11, DistinctConcat, ListedConcat DEF Distinct
<1>13. Distinct((a \o b) \o c) /\ Range((a \o b) \o c) = Range(a \o b) \cup Range(c)
  <2>1. Range(a \o b) \cap Range(c) = {}
    BY <1>4, <1>5, <1>6, <1>9, <1>11, <1>12
  <2>2. QED BY <1>6, <1>12, <2>1, DistinctConcat, ListedConcat DEF Distinct
<1>14. Distinct(((a \o b) \o c) \o d) /\ Range(((a \o b) \o c) \o d) = Range((a \o b) \o c) \cup Range(d)
  <2>1. Range((a \o b) \o c) \cap Range(d) = {}
    BY <1>4, <1>5, <1>6, <1>7, <1>9, <1>11, <1>12, <1>13
  <2>2. QED BY <1>7, <1>13, <2>1, DistinctConcat, ListedConcat DEF Distinct
<1>15. PICK v : v = ((a \o b) \o c) \o d
  OBVIOUS
<1>16. Distinct(v \o cs) /\ Range(v \o cs) = Range(v) \cup Range(cs)
  <2>1. Range(v) \cap Range(cs) = {}
    BY <1>4, <1>5, <1>6, <1>7, <1>10, <1>11, <1>12, <1>13, <1>14, <1>15
  <2>2. QED BY <1>8, <1>14, <1>15, <2>1, DistinctConcat, ListedConcat DEF Distinct
<1>17. VolumeList(cs) = v \o cs
  BY <1>1, <1>2, <1>3, <1>15 DEF VolumeList
<1>18. QED
  BY <1>4, <1>5, <1>6, <1>7, <1>12, <1>13, <1>14, <1>15, <1>16, <1>17

\* The common mounts are different, and of volumes that are there.
LEMMA CommonProper ==
    ASSUME NEW cs, Ready(cs)
    PROVE  /\ Proper(CommonMounts(cs), FinalVolumes(cs))
           /\ Range(CommonMounts(cs)) = {Mount("models-dir")} \cup {Mount(v) : v \in Range(cs)}
<1>1. PICK t : t = <<Mount("models-dir")>>
  OBVIOUS
<1>2. Distinct(t) /\ Range(t) = {Mount("models-dir")}
  BY <1>1, DistinctOne
<1>3. PICK F, f : F = DOMAIN cs /\ f = [i \in F |-> Mount(cs[i])]
  OBVIOUS
<1>4. \A v, w : Mount(v) = Mount(w) => v = w
  BY DEF Mount
<1>5. \A i, j \in F : f[i] = f[j] => cs[i] = cs[j]
  BY <1>3, <1>4
<1>6. f = [i \in F |-> f[i]]
  BY <1>3
<1>7. Distinct(f) /\ Range(f) = {f[i] : i \in F}
  <2>1. PICK S : cs \in Seq(S) /\ IsInjective(cs)
    BY DEF Ready
  <2>2. QED BY <1>3, <1>5, <1>6, <2>1, DistinctMap
<1>8. Range(f) = {Mount(v) : v \in Range(cs)}
  BY <1>3, <1>7 DEF Range
<1>9. "models-dir" \notin Range(cs)
  BY DEF Ready, InternalVolumes
<1>10. Range(t) \cap Range(f) = {}
  BY <1>2, <1>4, <1>8, <1>9
<1>11. CommonMounts(cs) = t \o f
  BY <1>1, <1>3 DEF CommonMounts
<1>12. Distinct(CommonMounts(cs)) /\ Range(CommonMounts(cs)) = Range(t) \cup Range(f)
  BY <1>2, <1>7, <1>10, <1>11, DistinctConcat, ListedConcat DEF Distinct
<1>13. {"models-dir"} \cup Range(cs) \subseteq FinalVolumes(cs)
  BY VolumesDistinct DEF FinalVolumes
<1>14. ASSUME NEW m \in Range(CommonMounts(cs)) PROVE m.vol \in FinalVolumes(cs)
  BY <1>2, <1>8, <1>12, <1>13 DEF Mount
<1>15. QED BY <1>2, <1>8, <1>12, <1>14 DEF Proper

\* Whatever has been written after the common mounts, a slice is proper.
LEMMA SliceProper ==
    ASSUME NEW cs, Ready(cs), NEW arr, ArrayOK(cs, arr), NEW s, SliceOK(cs, s, arr)
    PROVE  Proper(Slice(s, arr), FinalVolumes(cs))
<1>1. PICK C, n : C = CommonMounts(cs) /\ n = Len(C)
  OBVIOUS
<1>2. cs \in Seq(Range(PVCOrder)) /\ n \in Nat \ {0}
  BY <1>1, CommonType DEF Ready
<1>3. Proper(C, FinalVolumes(cs)) /\ Listed(C)
  BY <1>1, CommonProper DEF Proper, Distinct
<1>4. CASE s.common = 0 /\ Proper(s.seq, FinalVolumes(cs))
  BY <1>4 DEF Slice
<1>5. CASE s.common = n
  <2>1. SubSeq(arr, 1, n) = C
    BY <1>1, <1>2, OneMore DEF ArrayOK
  <2>2. QED BY <1>2, <1>3, <1>5, <2>1 DEF Slice
<1>6. CASE s.common = n + 1 /\ \E x : Extra(cs, x) /\ arr = Append(C, x)
  <2>1. PICK x : Extra(cs, x) /\ arr = Append(C, x)
    BY <1>6
  <2>2. SubSeq(arr, 1, n + 1) = arr
    BY <1>1, <1>2, <2>1, OneMore
  <2>3. Slice(s, arr) = arr
    BY <1>2, <1>6, <2>2 DEF Slice
  <2>4. Distinct(arr)
    BY <1>1, <1>3, <2>1, DistinctAppend DEF Extra, Proper
  <2>5. Range(arr) = Range(C) \cup {x}
    BY <1>3, <2>1, ListedAppend
  <2>6. QED BY <1>3, <2>1, <2>3, <2>4, <2>5 DEF Proper, Extra
<1>7. QED BY <1>1, <1>4, <1>5, <1>6 DEF SliceOK

\* The common mounts and then others, with room for one or for none.
LEMMA AppendProper ==
    ASSUME NEW cs, Ready(cs), NEW arr, ArrayOK(cs, arr), NEW ms, Distinct(ms), \A m \in Range(ms) : Extra(cs, m)
    PROVE  LET a == AppendToCommon(cs, arr, ms)
           IN  /\ Follows(cs, arr, a.arr)
               /\ SliceOK(cs, a.s, a.arr)
               /\ Range(Slice(a.s, a.arr)) = Range(CommonMounts(cs)) \cup Range(ms)
<1>1. PICK C, n : C = CommonMounts(cs) /\ n = Len(C)
  OBVIOUS
<1>2. cs \in Seq(Range(PVCOrder)) /\ n \in Nat \ {0}
  BY <1>1, CommonType DEF Ready
<1>3. Proper(C, FinalVolumes(cs)) /\ Listed(C) /\ Distinct(C)
  BY <1>1, CommonProper DEF Proper, Distinct
<1>4. PICK l \in Nat : l = Len(ms) /\ DOMAIN ms = 1..l
  BY ListedOwn DEF Distinct
<1>5. SubSeq(arr, 1, n) = C
  BY <1>1, <1>2, OneMore DEF ArrayOK
<1>6. PICK a : a = AppendToCommon(cs, arr, ms)
  OBVIOUS
<1>7. CASE l = 0
  <2>1. ms = <<>>
    BY <1>4, <1>7, ListedOwn, EmptySeq DEF Distinct
  <2>2. SubSeq(arr, 1, n) \o ms \o SubSeq(arr, n + l + 1, Len(arr)) = arr /\ n + l <= Len(arr)
    <3>1. CASE arr = C
      <4>1. SubSeq(arr, n + l + 1, Len(arr)) = <<>>
        BY <1>1, <1>2, <1>7, <3>1, CommonType
      <4>2. QED BY <1>1, <1>2, <1>5, <1>7, <2>1, <3>1, <4>1, CommonType, ConcatEmptySeq
    <3>2. CASE \E x : arr = Append(C, x)
      <4>1. PICK x : arr = Append(C, x)
        BY <3>2
      <4>2. PICK S : C \in Seq(S) /\ x \in S /\ S = MountSet \cup {x}
        BY <1>1, <1>2, CommonType, SeqMonotonic
      <4>3. SubSeq(arr, n + 1, n + 1) = <<x>> /\ Len(arr) = n + 1
        <5>1. arr \in Seq(S) /\ Len(arr) = n + 1 /\ arr[n + 1] = x
          BY <1>1, <1>2, <4>1, <4>2
        <5>2. PICK u : u = SubSeq(arr, n + 1, n + 1)
          OBVIOUS
        <5>3. u \in Seq(S) /\ Len(u) = 1 /\ u[1] = arr[n + 1]
          BY <1>2, <5>1, <5>2
        <5>4. u = <<x>>
          BY <5>1, <5>3
        <5>5. QED BY <5>1, <5>2, <5>4
      <4>4. C \o <<>> = C /\ C \o <<x>> = Append(C, x)
        BY <4>2, ConcatEmptySeq
      <4>5. QED BY <1>2, <1>5, <1>7, <2>1, <4>1, <4>3, <4>4
    <3>3. QED BY <1>1, <3>1, <3>2 DEF ArrayOK
  <2>3. a = [arr |-> arr, s |-> Common(n)]
    <3>1. n + l = n
      BY <1>2, <1>7
    <3>2. a = [arr |-> arr, s |-> Common(n + l)]
      BY <1>1, <1>4, <1>6, <2>2 DEF AppendToCommon
    <3>3. QED BY <3>1, <3>2
  <2>4. a.arr = arr /\ a.s.common = n
    BY <2>3 DEF Common
  <2>5. Slice(a.s, a.arr) = C /\ Range(ms) = {}
    BY <1>2, <1>5, <2>1, <2>4, DistinctNone DEF Slice
  <2>6. QED BY <1>1, <1>6, <2>4, <2>5 DEF Follows, SliceOK
<1>8. CASE l # 0 /\ n + l <= Len(arr)
  <2>1. PICK x : arr = Append(C, x)
    <3>1. arr # C
      BY <1>1, <1>2, <1>4, <1>8
    <3>2. QED BY <1>1, <3>1 DEF ArrayOK
  <2>2. Len(arr) = n + 1
    BY <1>1, <1>2, <2>1, OneMore
  <2>3. l = 1
    BY <1>2, <1>4, <1>8, <2>2
  <2>4. PICK m : m = ms[1]
    OBVIOUS
  <2>5. ms = <<m>> /\ Range(ms) = {m}
    <3>1. ms \in Seq(Range(ms))
      BY ListedOwn DEF Distinct
    <3>2. ms = <<m>>
      <4>1. PICK T : T = Range(ms) /\ ms \in Seq(T) /\ Len(ms) = 1
        BY <1>4, <2>3, <3>1
      <4>2. QED BY <2>4, <4>1
    <3>3. QED BY <3>2, DistinctOne
  <2>6. SubSeq(arr, n + l + 1, Len(arr)) = <<>>
    <3>1. n + l + 1 = n + 2
      BY <1>2, <2>3
    <3>2. QED BY <1>1, <1>2, <2>1, <2>2, <3>1, OneMore
  <2>7. (C \o ms) \o <<>> = Append(C, m)
    <3>1. PICK S : C \in Seq(S) /\ m \in S /\ S = MountSet \cup {m}
      BY <1>1, <1>2, CommonType, SeqMonotonic
    <3>2. C \o <<m>> = Append(C, m) /\ Append(C, m) \in Seq(S)
      BY <3>1
    <3>3. QED BY <2>5, <3>2, ConcatEmptySeq
  <2>8. a = [arr |-> Append(C, m), s |-> Common(n + 1)]
    BY <1>1, <1>4, <1>5, <1>6, <1>8, <2>3, <2>6, <2>7 DEF AppendToCommon
  <2>9. a.arr = Append(C, m) /\ a.s.common = n + 1
    BY <2>8 DEF Common
  <2>10. Extra(cs, m)
    BY <2>5
  <2>11. SubSeq(a.arr, 1, n + 1) = a.arr
    BY <1>1, <1>2, <2>9, OneMore
  <2>12. Slice(a.s, a.arr) = Append(C, m)
    BY <1>2, <2>9, <2>11 DEF Slice
  <2>13. Range(Append(C, m)) = Range(C) \cup Range(ms)
    BY <1>3, <2>5, ListedAppend
  <2>14. QED BY <1>1, <1>6, <2>1, <2>9, <2>10, <2>12, <2>13 DEF Follows, SliceOK
<1>9. CASE ~ (n + l <= Len(arr))
  <2>1. a = [arr |-> arr, s |-> Own(C \o ms)]
    BY <1>1, <1>4, <1>5, <1>6, <1>9 DEF AppendToCommon
  <2>2. a.arr = arr /\ a.s.common = 0 /\ a.s.seq = C \o ms
    BY <2>1 DEF Own
  <2>3. Range(C) \cap Range(ms) = {}
    BY <1>1 DEF Extra
  <2>4. Distinct(C \o ms) /\ Range(C \o ms) = Range(C) \cup Range(ms)
    BY <1>3, <2>3, DistinctConcat, ListedConcat DEF Distinct
  <2>5. Proper(C \o ms, FinalVolumes(cs))
    BY <1>3, <2>4 DEF Proper, Extra
  <2>6. Slice(a.s, a.arr) = C \o ms
    BY <2>2 DEF Slice
  <2>7. QED BY <1>1, <1>6, <2>2, <2>4, <2>5, <2>6 DEF Follows, SliceOK
<1>10. QED BY <1>7, <1>8, <1>9

\* The mount of a socket after them.
LEMMA SocketProper ==
    ASSUME NEW cs, Ready(cs), NEW a, ArrayOK(cs, a.arr), SliceOK(cs, a.s, a.arr),
           NEW m, Extra(cs, m), m \notin Range(Slice(a.s, a.arr))
    PROVE  LET d == AppendMount(a.arr, a.s, m)
           IN  Follows(cs, a.arr, d.arr) /\ SliceOK(cs, d.s, d.arr)
<1>1. PICK C, n, arr, k : C = CommonMounts(cs) /\ n = Len(C) /\ arr = a.arr /\ k = a.s.common
  OBVIOUS
<1>2. cs \in Seq(Range(PVCOrder)) /\ n \in Nat \ {0}
  BY <1>1, CommonType DEF Ready
<1>3. PICK d : d = AppendMount(arr, a.s, m)
  OBVIOUS
<1>4. k \in Nat
  BY <1>1, <1>2 DEF SliceOK
<1>5. CASE k > 0 /\ k < Len(arr)
  <2>1. PICK x : arr = Append(C, x)
    <3>1. arr # C
      BY <1>1, <1>2, <1>5 DEF SliceOK
    <3>2. QED BY <1>1, <3>1 DEF ArrayOK
  <2>2. Len(arr) = n + 1 /\ [arr EXCEPT ![n + 1] = m] = Append(C, m)
    BY <1>1, <1>2, <2>1, OneMore
  <2>3. k = n
    BY <1>1, <1>2, <1>5, <2>2 DEF SliceOK
  <2>4. d = [arr |-> Append(C, m), s |-> Common(n + 1)]
    BY <1>1, <1>3, <1>5, <2>2, <2>3 DEF AppendMount
  <2>5. d.arr = Append(C, m) /\ d.s.common = n + 1
    BY <2>4 DEF Common
  <2>6. QED BY <1>1, <1>3, <2>1, <2>5 DEF Follows, SliceOK
<1>6. CASE ~ (k > 0 /\ k < Len(arr))
  <2>1. PICK s : s = Slice(a.s, arr)
    OBVIOUS
  <2>2. d = [arr |-> arr, s |-> Own(Append(s, m))]
    BY <1>1, <1>3, <1>6, <2>1 DEF AppendMount, Slice
  <2>3. d.arr = arr /\ d.s.common = 0 /\ d.s.seq = Append(s, m)
    BY <2>2 DEF Own
  <2>4. Proper(s, FinalVolumes(cs)) /\ m \notin Range(s)
    BY <1>1, <2>1, SliceProper
  <2>5. Distinct(Append(s, m)) /\ Range(Append(s, m)) = Range(s) \cup {m}
    BY <2>4, DistinctAppend, ListedAppend DEF Proper, Distinct
  <2>6. Proper(Append(s, m), FinalVolumes(cs))
    BY <2>4, <2>5 DEF Proper, Extra
  <2>7. QED BY <1>1, <1>3, <2>3, <2>6 DEF Follows, SliceOK
<1>7. QED BY <1>5, <1>6

\* Containers have different names.
UniqueNames(p) ==
    \A i, j \in DOMAIN p.containers : p.containers[i].name = p.containers[j].name => i = j

LEMMA NamesCarried ==
    ASSUME NEW p, UniqueNames(p), NEW q, DOMAIN q.containers = DOMAIN p.containers,
           \A i \in DOMAIN p.containers : q.containers[i].name = p.containers[i].name
    PROVE  UniqueNames(q)
  BY DEF UniqueNames

LEMMA NamesAppended ==
    ASSUME NEW p, WellFormed(p), UniqueNames(p), NEW c, Box(c), \A x \in ContainersOf(p) : x.name # c.name
    PROVE  UniqueNames([p EXCEPT !.containers = Append(@, c)])
<1>f. PICK f : f = p.containers
  OBVIOUS
<1>1. PICK n \in Nat : f = p.containers /\ n = Len(f) /\ DOMAIN f = 1..n
  BY <1>f DEF WellFormed
<1>2. PICK S : S = Range(f) \cup {c}
  OBVIOUS
<1>3. f \in Seq(S) /\ c \in S
  BY <1>1, <1>2, SeqMonotonic DEF WellFormed
<1>4. PICK q : q = [p EXCEPT !.containers = Append(@, c)]
  OBVIOUS
<1>5. q.containers = Append(f, c)
  BY <1>1, <1>4 DEF WellFormed
<1>6. PICK g : g = q.containers
  OBVIOUS
<1>7. DOMAIN g = 1..(n + 1) /\ g[n + 1] = c /\ \A i \in 1..n : g[i] = f[i]
  BY <1>1, <1>3, <1>5, <1>6
<1>8. \A i \in 1..n : f[i].name # c.name
  BY <1>1 DEF ContainersOf
<1>9. \A i, j \in 1..n : f[i].name = f[j].name => i = j
  BY <1>1 DEF UniqueNames
<1>10. ASSUME NEW i \in 1..(n + 1), NEW j \in 1..(n + 1), g[i].name = g[j].name PROVE i = j
  <2>1. i \in 1..n \/ i = n + 1
    OBVIOUS
  <2>2. j \in 1..n \/ j = n + 1
    OBVIOUS
  <2>3. QED BY <1>7, <1>8, <1>9, <1>10, <2>1, <2>2
<1>11. UniqueNames(q)
  BY <1>6, <1>7, <1>10 DEF UniqueNames
<1>12. QED BY <1>4, <1>11

LEMMA NamesPut ==
    ASSUME NEW p, WellFormed(p), UniqueNames(p), NEW c, Box(c)
    PROVE  UniqueNames(PutContainer(p, c))
<1>1. PICK i : i = FindContainer(p, c.name)
  OBVIOUS
<1>2. CASE i = 0
  <2>1. \A x \in ContainersOf(p) : x.name # c.name
    <3>1. 0 \notin DOMAIN p.containers
      BY DEF WellFormed
    <3>2. \A j \in DOMAIN p.containers : p.containers[j].name # c.name
      BY <1>1, <1>2, <3>1, FirstContainer
    <3>3. QED BY <3>2 DEF ContainersOf
  <2>2. PutContainer(p, c) = [p EXCEPT !.containers = Append(@, c)]
    BY <1>1, <1>2 DEF PutContainer
  <2>3. QED BY <2>1, <2>2, NamesAppended
<1>3. CASE i # 0
  <2>1. i \in DOMAIN p.containers /\ p.containers[i].name = c.name
    BY <1>1, <1>3, FirstContainer
  <2>2. PICK q : q = [p EXCEPT !.containers[i] = c]
    OBVIOUS
  <2>3. q.containers = [p.containers EXCEPT ![i] = c]
    BY <2>2 DEF WellFormed
  <2>4. DOMAIN q.containers = DOMAIN p.containers
        /\ \A j \in DOMAIN p.containers : q.containers[j] = IF j = i THEN c ELSE p.containers[j]
    BY <2>3
  <2>5. UniqueNames(q)
    BY <2>1, <2>4, NamesCarried
  <2>6. QED BY <1>1, <1>3, <2>2, <2>5 DEF PutContainer
<1>4. QED BY <1>2, <1>3

LEMMA NamesMM ==
    ASSUME NEW p, WellFormed(p), UniqueNames(p), NEW c, FindContainer(p, "mm") # 0 => c.name = "mm"
    PROVE  UniqueNames(WithMM(p, c))
<1>1. PICK i : i = FindContainer(p, "mm")
  OBVIOUS
<1>2. PICK q : q = WithMM(p, c)
  OBVIOUS
<1>3. q.containers = [p.containers EXCEPT ![i] = c]
  BY <1>1, <1>2 DEF WithMM, WellFormed
<1>4. i \in DOMAIN p.containers => p.containers[i].name = "mm" /\ c.name = "mm"
  <2>1. DOMAIN p.containers \subseteq Nat \ {0}
    BY DEF WellFormed
  <2>2. QED BY <1>1, <2>1, FirstContainer
<1>5. /\ DOMAIN q.containers = DOMAIN p.containers
      /\ \A j \in DOMAIN p.containers : q.containers[j] = IF j = i THEN c ELSE p.containers[j]
  BY <1>3
<1>6. \A j \in DOMAIN p.containers : q.containers[j].name = p.containers[j].name
  BY <1>4, <1>5
<1>7. UniqueNames(q)
  BY <1>5, <1>6, NamesCarried
<1>8. QED BY <1>2, <1>7

\* The other fields of a pod.
LEMMA FieldsKept ==
    ASSUME NEW p, WellFormed(p), NEW c
    PROVE  /\ PutContainer(p, c).volumes = p.volumes /\ PutContainer(p, c).labels = p.labels
           /\ WithMM(p, c).volumes = p.volumes /\ WithMM(p, c).labels = p.labels
           /\ [p EXCEPT !.containers = c].volumes = p.volumes /\ [p EXCEPT !.containers = c].labels = p.labels
           /\ [p EXCEPT !.volumes = c].labels = p.labels /\ [p EXCEPT !.volumes = c].volumes = c
           /\ [p EXCEPT !.labels = c].volumes = p.volumes /\ [p EXCEPT !.labels = c].labels = c
           /\ [p EXCEPT !.terms = c].volumes = p.volumes /\ [p EXCEPT !.terms = c].labels = p.labels
           /\ [p EXCEPT !.secrets = c].volumes = p.volumes /\ [p EXCEPT !.secrets = c].labels = p.labels
<1>1. PICK f, v, t, s, l : p = [containers |-> f, volumes |-> v, terms |-> t, secrets |-> s, labels |-> l]
  BY DEF WellFormed
<1>2. ASSUME NEW g PROVE LET q == [p EXCEPT !.containers = g] IN q.volumes = p.volumes /\ q.labels = p.labels
  BY <1>1
<1>3. PICK g : PutContainer(p, c) = [p EXCEPT !.containers = g]
  BY DEF PutContainer
<1>4. PICK h : WithMM(p, c) = [p EXCEPT !.containers = h]
  BY DEF WithMM
<1>5. /\ [p EXCEPT !.volumes = c].labels = p.labels /\ [p EXCEPT !.volumes = c].volumes = c
      /\ [p EXCEPT !.labels = c].volumes = p.volumes /\ [p EXCEPT !.labels = c].labels = c
  BY <1>1
<1>6. /\ [p EXCEPT !.terms = c].volumes = p.volumes /\ [p EXCEPT !.terms = c].labels = p.labels
      /\ [p EXCEPT !.secrets = c].volumes = p.volumes /\ [p EXCEPT !.secrets = c].labels = p.labels
  BY <1>1
<1>7. QED BY <1>2, <1>3, <1>4, <1>5, <1>6

\* A pod with the containers added so far, and the array that they share.
Sturdy(cs, b) ==
    /\ WellFormed(b.pod) /\ UniqueNames(b.pod) /\ ArrayOK(cs, b.arr)
    /\ b.pod.volumes = VolumeList(cs) /\ b.pod.labels = TemplatePod.labels
    /\ \A c \in ContainersOf(b.pod) :
         /\ SliceOK(cs, c.mounts, b.arr)
         /\ c.name = "mm" \/ \E i \in DOMAIN rt.containers : c.name = rt.containers[i].name
         /\ c.name = "mm" => c.mounts.common = 0 /\ Mount("tc-config") \notin Range(c.mounts.seq)

\* The endpoints that are sockets have the volume of the sockets.
LEMMA SocketVolume ==
    ASSUME NEW cs, Ready(cs)
    PROVE  /\ SocketDirs # {} => UnixDomainSockets /\ \A d \in SocketDirs : d # "-"
           /\ MountPoint.kind = "uds" => UnixDomainSockets /\ MountPoint.dir # "-"
           /\ UnixDomainSockets => "domain-socket" \in FinalVolumes(cs)
<1>1. \A e \in Endpoints : e \in EndpointSet /\ (Given(e) => e.kind \in {"port", "unix"})
  BY DEF Ready, InputsInv, RuntimeSet, Endpoints, ValidEndpoint
<1>2. UnixDomainSockets => "domain-socket" \in FinalVolumes(cs)
  BY VolumesDistinct DEF FinalVolumes
<1>3. \A e \in Endpoints : Given(e) /\ ParseEndpoint(e).dir # "-" => e.kind = "unix"
  BY <1>1 DEF ParseEndpoint
<1>4. SocketDirs # {} => UnixDomainSockets
  BY <1>3 DEF SocketDirs, UnixDomainSockets
<1>5. \A d \in SocketDirs : d # "-"
  BY DEF SocketDirs
<1>6. ASSUME MountPoint.kind = "uds" PROVE UnixDomainSockets /\ MountPoint.dir # "-"
  <2>1. PICK e : e = IF Given(rt.data) THEN rt.data ELSE rt.mgmt
    OBVIOUS
  <2>2. e \in Endpoints
    BY <2>1 DEF Endpoints
  <2>3. MountPoint = IF Given(e) THEN ParseEndpoint(e) ELSE ParseEndpoint([kind |-> "port", dir |-> "-"])
    BY <2>1 DEF MountPoint
  <2>4. ParseEndpoint([kind |-> "port", dir |-> "-"]).kind = "tcp"
    BY DEF ParseEndpoint
  <2>5. Given(e) /\ MountPoint = ParseEndpoint(e)
    BY <1>6, <2>3, <2>4
  <2>6. e.kind # "port"
    BY <1>6, <2>5 DEF ParseEndpoint
  <2>7. e.kind = "unix" /\ MountPoint.dir = e.dir
    BY <1>1, <2>2, <2>5, <2>6 DEF ParseEndpoint
  <2>8. e.dir # "-"
    BY <1>1, <2>2, <2>7 DEF EndpointSet
  <2>9. QED BY <2>2, <2>7, <2>8 DEF UnixDomainSockets
<1>7. QED BY <1>2, <1>4, <1>5, <1>6

LEMMA MountsDiffer ==
    /\ \A v, w : Mount(v) # UserMount(w) /\ (Mount(v) = Mount(w) => v = w) /\ (UserMount(v) = UserMount(w) => v = w)
    /\ \A v, d : d # "-" => Mount(v) # SocketMount(d)
    /\ \A v, d : UserMount(v) = SocketMount(d) => v = "domain-socket"
    /\ \A v : Mount(v).vol = v /\ UserMount(v).vol = v /\ SocketMount(v).vol = "domain-socket"
  BY DEF Mount, UserMount, SocketMount

LEMMA StartArray ==
    ASSUME NEW cs, Ready(cs)
    PROVE  ArrayOK(cs, Array(cs))
<1>1. PICK C : C = CommonMounts(cs) /\ C \in Seq(MountSet)
  BY CommonType DEF Ready
<1>2. PICK k : k = Spare(Len(C))
  OBVIOUS
<1>3. k \in {0, 1}
  BY <1>1, <1>2 DEF Ready
<1>4. PICK t : t = [i \in 1..k |-> Mount("unused")]
  OBVIOUS
<1>5. Array(cs) = C \o t
  BY <1>1, <1>2, <1>4 DEF Array
<1>6. CASE k = 0
  <2>1. t = <<>>
    BY <1>4, <1>6
  <2>2. QED BY <1>1, <1>5, <2>1, ConcatEmptySeq DEF ArrayOK
<1>7. CASE k = 1
  <2>1. PICK x : x = Mount("unused")
    OBVIOUS
  <2>2. t = <<x>>
    BY <1>4, <1>7, <2>1
  <2>3. PICK S : C \in Seq(S) /\ x \in S /\ S = MountSet \cup {x}
    BY <1>1, SeqMonotonic
  <2>4. C \o t = Append(C, x)
    BY <2>2, <2>3
  <2>5. QED BY <1>1, <1>5, <2>4 DEF ArrayOK
<1>8. QED BY <1>3, <1>6, <1>7

\* The template with its volumes, and with the socket of model-mesh.
LEMMA StartSturdy ==
    ASSUME NEW cs, Ready(cs)
    PROVE  Sturdy(cs, Start(cs))
<1>1. PICK p : p = addVolumes(TemplatePod, cs)
  OBVIOUS
<1>2. PICK q : q = addMMDomainSocketMount(p)
  OBVIOUS
<1>3. PICK r : r = addPassThroughPodFields(q)
  OBVIOUS
<1>4. WellFormed(p)
  BY <1>1, TemplateFormed, VolumesHarmless DEF Harmless
<1>5. p = [TemplatePod EXCEPT !.volumes = VolumeList(cs)]
  BY <1>1 DEF addVolumes, VolumeList
<1>6. p.volumes = VolumeList(cs) /\ p.labels = TemplatePod.labels /\ p.containers = TemplatePod.containers
  BY <1>5, TemplateFormed, FieldsKept, OtherFields
<1>7. PICK e : TemplatePod.containers = <<Container("mm", e, Own(<<>>))>>
  BY DEF TemplatePod
<1>8. PICK c : c = Container("mm", e, Own(<<>>))
  OBVIOUS
<1>9. Box(c) /\ c.name = "mm" /\ c.env = e /\ c.mounts.seq = <<>> /\ c.mounts.common = 0
  BY <1>8, BoxOwn, FieldsOf DEF Own
<1>10. DOMAIN p.containers = {1} /\ p.containers[1] = c
  BY <1>6, <1>7, <1>8
<1>11. UniqueNames(p) /\ ContainersOf(p) = {c}
  BY <1>10 DEF UniqueNames, ContainersOf
<1> DEFINE Good(x) == /\ x.name = "mm" /\ x.mounts.common = 0 /\ Proper(x.mounts.seq, FinalVolumes(cs))
                      /\ Mount("tc-config") \notin Range(x.mounts.seq)
<1>12. Good(c)
  BY <1>9, DistinctNone DEF Proper
<1>13. /\ WellFormed(q) /\ UniqueNames(q) /\ \A x \in ContainersOf(q) : Good(x)
       /\ q.volumes = p.volumes /\ q.labels = p.labels
  <2>1. CASE MountPoint.kind # "uds"
    <3>1. q = p
      BY <1>2, <2>1 DEF addMMDomainSocketMount
    <3> HIDE DEF Good
    <3>2. QED BY <1>4, <1>11, <1>12, <3>1
  <2>2. CASE MountPoint.kind = "uds"
    <3>1. PICK m : m = SocketMount(MountPoint.dir)
      OBVIOUS
    <3>2. PICK s : s = Append(MM(p).mounts.seq, m)
      OBVIOUS
    <3>3. PICK d : d = [MM(p) EXCEPT !.mounts.seq = s]
      OBVIOUS
    <3>4. q = WithMM(p, d)
      BY <1>2, <2>2, <3>1, <3>2, <3>3 DEF addMMDomainSocketMount
    <3>5. FindContainer(p, "mm") = 1
      <4>1. 0 \notin DOMAIN p.containers
        BY <1>10
      <4>2. QED BY <1>4, <1>9, <1>10, <4>1, FirstContainer
    <3>6. MM(p) = c
      BY <1>10, <3>5 DEF MM
    <3>7. d = Container(c.name, c.env, [seq |-> s, common |-> c.mounts.common])
      BY <1>9, <3>3, <3>6, BoxFields
    <3>8. d.name = "mm" /\ d.mounts.seq = s /\ d.mounts.common = 0
      BY <1>9, <3>7, FieldsOf
    <3>9. Distinct(s) /\ Range(s) = {m}
      <4>1. s = Append(<<>>, m)
        BY <1>9, <3>2, <3>6
      <4>2. Distinct(Append(<<>>, m)) /\ Range(Append(<<>>, m)) = Range(<<>>) \cup {m}
        BY DistinctNone, DistinctAppend, ListedAppend DEF Distinct
      <4>3. QED BY <4>1, <4>2, DistinctNone
    <3>10. m.vol \in FinalVolumes(cs) /\ m # Mount("tc-config")
      BY <2>2, <3>1, SocketVolume, MountsDiffer
    <3>11. Good(d)
      BY <3>8, <3>9, <3>10 DEF Proper
    <3>13. \A x \in ContainersOf(q) : x = d
      <4>1. q.containers = [p.containers EXCEPT ![1] = d]
        BY <1>4, <3>4, <3>5 DEF WithMM, WellFormed
      <4>2. DOMAIN q.containers = {1} /\ q.containers[1] = d
        BY <1>10, <4>1
      <4>3. QED BY <4>2 DEF ContainersOf
    <3>14. WellFormed(q)
      BY <1>2, <1>4, SocketHarmless DEF Harmless
    <3>15. UniqueNames(q) /\ q.volumes = p.volumes /\ q.labels = p.labels
      BY <1>4, <1>11, <3>4, <3>8, NamesMM, FieldsKept
    <3> HIDE DEF Good
    <3>16. QED BY <3>11, <3>13, <3>14, <3>15
  <2>3. QED BY <2>1, <2>2
<1>14. PICK x : r = [q EXCEPT !.terms = x]
  BY <1>3 DEF addPassThroughPodFields
<1>15. WellFormed(r) /\ r.containers = q.containers /\ r.volumes = q.volumes /\ r.labels = q.labels
  BY <1>13, <1>14, OtherFields, FieldsKept
<1>16. UniqueNames(r) /\ ContainersOf(r) = ContainersOf(q)
  BY <1>13, <1>15 DEF UniqueNames, ContainersOf
<1>17. Start(cs).pod = r /\ Start(cs).arr = Array(cs)
  BY <1>1, <1>2, <1>3 DEF Start, Build
<1>18. \A c2 \in ContainersOf(r) : SliceOK(cs, c2.mounts, Array(cs))
  BY <1>13, <1>16 DEF SliceOK
<1>19. QED
  BY <1>6, <1>13, <1>15, <1>16, <1>17, <1>18, StartArray DEF Sturdy

\* A container of the runtime: its own mounts, then the socket.
LEMMA ContainerSturdy ==
    ASSUME NEW cs, Ready(cs), NEW i \in DOMAIN rt.containers, NEW b, Sturdy(cs, b)
    PROVE  Sturdy(cs, addContainer(cs, rt.containers[i], b))
<1>1. PICK c : c = rt.containers[i]
  OBVIOUS
<1>2. c.mounts \in Seq(STRING)
  <2>1. PICK S, u : S = [name : STRING, mounts : Seq(STRING), flaw : BOOLEAN] /\ u = rt.containers /\ u \in Seq(S)
    BY DEF Ready, InputsInv, RuntimeSet
  <2>2. u[i] \in S
    <3>1. DOMAIN u = 1..Len(u) /\ i \in DOMAIN u
      BY <2>1
    <3>2. QED BY <2>1, <3>1, ElementOfSeq
  <2>3. QED BY <1>1, <2>1, <2>2
<1>3. /\ ValidateContainer(c) /\ IsInjective(c.mounts)
      /\ Range(c.mounts) \subseteq Range(rt.volumes) \cup Range(cs) \cup {"models-dir"}
  BY <1>1 DEF Ready
<1>4. PICK F, x : F = DOMAIN c.mounts /\ x = c.mounts
  OBVIOUS
<1>5. PICK ms : ms = [j \in F |-> UserMount(x[j])]
  OBVIOUS
<1>6. ms = UserMounts(c)
  BY <1>4, <1>5 DEF UserMounts
<1>7. Distinct(ms) /\ Range(ms) = {ms[j] : j \in F}
  <2>1. \A j, k \in F : ms[j] = ms[k] => x[j] = x[k]
    BY <1>5, MountsDiffer
  <2>2. ms = [j \in F |-> ms[j]]
    BY <1>5
  <2>3. PICK S : x \in Seq(S) /\ IsInjective(x) /\ F = DOMAIN x
    BY <1>2, <1>3, <1>4
  <2>4. QED BY <2>1, <2>2, <2>3, DistinctMap
<1>8. ASSUME NEW m \in Range(ms) PROVE Extra(cs, m) /\ \A d : m # SocketMount(d)
  <2>1. PICK j \in F : m = UserMount(x[j])
    BY <1>5, <1>7
  <2>2. PICK v : v = x[j]
    OBVIOUS
  <2>3. v \in Range(c.mounts)
    BY <1>4, <2>2 DEF Range
  <2>4. v \in FinalVolumes(cs)
    BY <1>3, <2>3, VolumesDistinct DEF FinalVolumes
  <2>5. v # "domain-socket"
    BY <1>3, <1>4, <2>2 DEF ValidateContainer, CheckName, InternalOnlyMounts, InternalVolumes
  <2>6. m = UserMount(v)
    BY <2>1, <2>2
  <2>7. m \notin Range(CommonMounts(cs))
    BY <2>6, CommonProper, MountsDiffer
  <2>8. QED BY <2>4, <2>5, <2>6, <2>7, MountsDiffer DEF Extra
<1>9. PICK arr : arr = b.arr
  OBVIOUS
<1>10. PICK a : a = AppendToCommon(cs, arr, ms)
  OBVIOUS
<1>11. PICK d : d = AddDomainSocketMount(a)
  OBVIOUS
<1>12. /\ Follows(cs, arr, a.arr) /\ SliceOK(cs, a.s, a.arr)
       /\ Range(Slice(a.s, a.arr)) = Range(CommonMounts(cs)) \cup Range(ms)
  BY <1>7, <1>8, <1>9, <1>10, AppendProper DEF Sturdy
<1>13. ArrayOK(cs, a.arr)
  BY <1>9, <1>12, ArrayFollows DEF Sturdy
<1>14. Follows(cs, arr, d.arr) /\ SliceOK(cs, d.s, d.arr)
  <2>1. CASE SocketDirs = {}
    BY <1>11, <1>12, <2>1 DEF AddDomainSocketMount
  <2>2. CASE SocketDirs # {}
    <3>1. PICK y : y = CHOOSE z \in SocketDirs : TRUE
      OBVIOUS
    <3>2. y \in SocketDirs
      BY <2>2, <3>1
    <3>3. PICK m : m = SocketMount(y)
      OBVIOUS
    <3>4. d = AppendMount(a.arr, a.s, m)
      BY <1>11, <2>2, <3>1, <3>3 DEF AddDomainSocketMount
    <3>5. y # "-" /\ "domain-socket" \in FinalVolumes(cs)
      BY <2>2, <3>2, SocketVolume
    <3>6. m \notin Range(CommonMounts(cs))
      BY <3>3, <3>5, CommonProper, MountsDiffer
    <3>7. Extra(cs, m)
      BY <3>3, <3>5, <3>6, MountsDiffer DEF Extra
    <3>8. m \notin Range(Slice(a.s, a.arr))
      BY <1>8, <1>12, <3>3, <3>6
    <3>9. Follows(cs, a.arr, d.arr) /\ SliceOK(cs, d.s, d.arr)
      BY <1>12, <1>13, <3>4, <3>7, <3>8, SocketProper
    <3>10. QED BY <1>12, <3>9, FollowsOn
  <2>3. QED BY <2>1, <2>2
<1>15. PICK p : p = b.pod
  OBVIOUS
<1>16. PICK k : k = Container(c.name, <<>>, d.s)
  OBVIOUS
<1>17. addContainer(cs, c, b).pod = PutContainer(p, k) /\ addContainer(cs, c, b).arr = d.arr
  BY <1>6, <1>9, <1>10, <1>11, <1>15, <1>16 DEF addContainer, ContainerMounts, UserMounts, Build
<1>18. k.name = c.name /\ k.mounts = d.s
  BY <1>16 DEF Container
<1>19. Box(k)
  <2>1. cs \in Seq(Range(PVCOrder)) /\ Len(ms) \in Nat
    BY <1>7, ListedOwn DEF Ready, Distinct
  <2>2. d.s = [seq |-> d.s.seq, common |-> d.s.common] /\ d.s.common \in Nat
    BY <1>10, <1>11, <2>1, SliceShape
  <2>3. QED BY <1>16, <2>2 DEF Box, Container
<1>20. PICK q : q = PutContainer(p, k)
  OBVIOUS
<1>21. WellFormed(p) /\ UniqueNames(p)
  BY <1>15 DEF Sturdy
<1>22. WellFormed(q) /\ UniqueNames(q) /\ q.volumes = p.volumes /\ q.labels = p.labels
  BY <1>19, <1>20, <1>21, ContainerPut, NamesPut, FieldsKept
<1>23. ArrayOK(cs, d.arr)
  BY <1>9, <1>14, ArrayFollows DEF Sturdy
<1>24. k.name # "mm" /\ k.name = rt.containers[i].name
  BY <1>1, <1>3, <1>18 DEF ValidateContainer, CheckName, InternalContainers
<1>25. ASSUME NEW z \in ContainersOf(q)
       PROVE  /\ SliceOK(cs, z.mounts, d.arr)
              /\ z.name = "mm" \/ \E j \in DOMAIN rt.containers : z.name = rt.containers[j].name
              /\ z.name = "mm" => z.mounts.common = 0 /\ Mount("tc-config") \notin Range(z.mounts.seq)
  <2>1. z \in ContainersOf(p) \/ z = k
    BY <1>19, <1>20, <1>21, PutContainers
  <2>2. CASE z = k
    BY <1>14, <1>18, <1>24, <2>2
  <2>3. CASE z \in ContainersOf(p)
    <3>1. /\ SliceOK(cs, z.mounts, arr)
          /\ z.name = "mm" \/ \E j \in DOMAIN rt.containers : z.name = rt.containers[j].name
          /\ z.name = "mm" => z.mounts.common = 0 /\ Mount("tc-config") \notin Range(z.mounts.seq)
      BY <1>9, <1>15, <2>3 DEF Sturdy
    <3>2. SliceOK(cs, z.mounts, d.arr)
      BY <1>14, <3>1, SliceFollows DEF Ready
    <3>3. QED BY <3>1, <3>2
  <2>4. QED BY <2>1, <2>2, <2>3
<1>26. p.volumes = VolumeList(cs) /\ p.labels = TemplatePod.labels
  BY <1>15 DEF Sturdy
<1>27. QED BY <1>1, <1>17, <1>20, <1>22, <1>23, <1>25, <1>26 DEF Sturdy

\* Whatever number of containers has been added.
LEMMA BuiltSturdy ==
    ASSUME NEW cs, Ready(cs), NEW b, BuiltAll(cs, b)
    PROVE  Sturdy(cs, b)
<1>1. PICK l \in Nat : l = Len(rt.containers) /\ DOMAIN rt.containers = 1..l
  <2>1. rt \in RuntimeSet
    BY DEF Ready, InputsInv
  <2>2. QED BY <2>1 DEF RuntimeSet
<1>2. PICK n \in Nat \ {0} : n = l + 1
  BY <1>1
<1>3. PICK t : Traced(cs, n, t) /\ t[n] = b
  BY <1>1, <1>2 DEF BuiltAll, Built
<1> DEFINE D == {k \in 1..n : ~ Sturdy(cs, t[k])}
<1>4. D = {}
  <2>1. SUFFICES ASSUME D # {} PROVE FALSE
    OBVIOUS
  <2>2. D \in SUBSET Nat
    OBVIOUS
  <2>3. PICK k \in D : \A i \in D : k <= i
    <3> HIDE DEF D
    <3> QED BY <2>1, <2>2, SmallestNumber
  <2>4. k \in 1..n /\ ~ Sturdy(cs, t[k])
    OBVIOUS
  <2>5. k # 1
    BY <1>3, <2>4, StartSturdy DEF Traced
  <2>6. PICK i \in 1..(n - 1) : i + 1 = k /\ i \in 1..n /\ i \in DOMAIN rt.containers
    <3> HIDE DEF D
    <3>1. PICK i \in Int : i = k - 1
      BY <2>4
    <3>2. i \in 1..(n - 1) /\ i + 1 = k /\ i \in 1..n /\ i \in 1..l
      BY <1>2, <2>4, <2>5, <3>1
    <3>3. QED BY <1>1, <3>2
  <2>7. Sturdy(cs, t[i])
    BY <2>3, <2>6
  <2>8. t[k] = addContainer(cs, rt.containers[i], t[i])
    BY <1>3, <2>6 DEF Traced
  <2>9. QED BY <2>4, <2>6, <2>7, <2>8, ContainerSturdy
<1>5. QED BY <1>2, <1>3, <1>4

\* A pod whose containers have proper mounts and names other than N, and in which model-mesh does
\* not mount T yet.
Firm(cs, p, arr, T, N) ==
    /\ WellFormed(p) /\ UniqueNames(p)
    /\ \A c \in ContainersOf(p) :
         /\ Proper(Mounts(c, arr), FinalVolumes(cs))
         /\ c.name \notin N
         /\ c.name \in {"mm", "rest-proxy"} => c.mounts.common = 0
         /\ c.name = "mm" => Range(c.mounts.seq) \cap T = {}

\* The adapter, or none.
LEMMA AdaptedFirm ==
    ASSUME NEW cs, Ready(cs), NEW b, Sturdy(cs, b)
    PROVE  LET x == Adapted(cs, b)
           IN  /\ Firm(cs, x.pod, x.arr, {Mount("tc-config")}, {"rest-proxy", "puller"})
               /\ x.pod.volumes = VolumeList(cs) /\ x.pod.labels = TemplatePod.labels
<1>1. PICK p, arr : p = b.pod /\ arr = b.arr
  OBVIOUS
<1>2. WellFormed(p) /\ UniqueNames(p) /\ p.volumes = VolumeList(cs) /\ p.labels = TemplatePod.labels /\ ArrayOK(cs, arr)
  BY <1>1 DEF Sturdy
<1>3. \A i \in DOMAIN rt.containers : rt.containers[i].name \notin {"rest-proxy", "puller"}
  BY DEF Ready, ValidateContainer, CheckName, InternalContainers
<1>4. ASSUME NEW c \in ContainersOf(p)
      PROVE  /\ SliceOK(cs, c.mounts, arr) /\ c.name \notin {"rest-proxy", "puller"}
             /\ rt.adapter # "" => c.name # "adapter"
             /\ c.name = "mm" => c.mounts.common = 0 /\ Range(c.mounts.seq) \cap {Mount("tc-config")} = {}
  <2>1. /\ SliceOK(cs, c.mounts, arr)
        /\ c.name = "mm" \/ \E j \in DOMAIN rt.containers : c.name = rt.containers[j].name
        /\ c.name = "mm" => c.mounts.common = 0 /\ Mount("tc-config") \notin Range(c.mounts.seq)
    BY <1>1, <1>4 DEF Sturdy
  <2>2. rt.adapter # "" => \A i \in DOMAIN rt.containers : rt.containers[i].name # "adapter"
    BY DEF Ready
  <2>3. QED BY <1>3, <2>1, <2>2
<1>5. \A c, brr : Mounts(c, brr) = Slice(c.mounts, brr)
  BY DEF Mounts, Slice
<1>6. CASE rt.adapter = ""
  <2>1. Adapted(cs, b) = b
    BY <1>6 DEF Adapted
  <2>2. \A c \in ContainersOf(p) : Proper(Mounts(c, arr), FinalVolumes(cs))
    BY <1>2, <1>4, <1>5, SliceProper
  <2>3. Firm(cs, p, arr, {Mount("tc-config")}, {"rest-proxy", "puller"})
    BY <1>2, <1>4, <2>2 DEF Firm
  <2>4. QED BY <1>1, <1>2, <2>1, <2>3
<1>7. CASE rt.adapter # ""
  <2>1. PICK ms : ms = <<Mount("storage-config")>>
    OBVIOUS
  <2>2. PICK m : m = AppendToCommon(cs, arr, ms)
    OBVIOUS
  <2>3. PICK d : d = AddDomainSocketMount(m)
    OBVIOUS
  <2>4. PICK a : a = IF Given(rt.data) THEN d ELSE m
    OBVIOUS
  <2>5. PICK x : x = Container("adapter", AdapterEnv, a.s)
    OBVIOUS
  <2>6. PICK q : q = [p EXCEPT !.containers = Append(@, x)]
    OBVIOUS
  <2>7. addAdapter(cs, b).pod = q /\ addAdapter(cs, b).arr = a.arr
    BY <1>1, <2>1, <2>2, <2>3, <2>4, <2>5, <2>6 DEF addAdapter, Build
  <2>8. Distinct(ms) /\ Range(ms) = {Mount("storage-config")} /\ Len(ms) \in Nat
    BY <2>1, DistinctOne
  <2>9. Extra(cs, Mount("storage-config"))
    <3>1. "storage-config" \in FinalVolumes(cs)
      BY <1>7, VolumesDistinct DEF FinalVolumes
    <3>2. "storage-config" \notin Range(cs)
      BY DEF Ready, InternalVolumes
    <3>3. Mount("storage-config") \notin Range(CommonMounts(cs))
      BY <3>2, CommonProper, MountsDiffer
    <3>4. QED BY <3>1, <3>3, MountsDiffer DEF Extra
  <2>10. /\ Follows(cs, arr, m.arr) /\ SliceOK(cs, m.s, m.arr)
         /\ Range(Slice(m.s, m.arr)) = Range(CommonMounts(cs)) \cup {Mount("storage-config")}
    BY <1>2, <2>2, <2>8, <2>9, AppendProper
  <2>11. ArrayOK(cs, m.arr)
    BY <1>2, <2>10, ArrayFollows
  <2>12. Follows(cs, arr, d.arr) /\ SliceOK(cs, d.s, d.arr)
    <3>1. CASE SocketDirs = {}
      BY <2>3, <2>10, <3>1 DEF AddDomainSocketMount
    <3>2. CASE SocketDirs # {}
      <4>1. PICK y : y = CHOOSE z \in SocketDirs : TRUE
        OBVIOUS
      <4>2. y \in SocketDirs
        BY <3>2, <4>1
      <4>3. PICK s : s = SocketMount(y)
        OBVIOUS
      <4>4. d = AppendMount(m.arr, m.s, s)
        BY <2>3, <3>2, <4>1, <4>3 DEF AddDomainSocketMount
      <4>5. y # "-" /\ "domain-socket" \in FinalVolumes(cs)
        BY <3>2, <4>2, SocketVolume
      <4>6. s \notin Range(CommonMounts(cs)) /\ s # Mount("storage-config")
        BY <4>3, <4>5, CommonProper, MountsDiffer
      <4>7. Extra(cs, s)
        BY <4>3, <4>5, <4>6, MountsDiffer DEF Extra
      <4>8. s \notin Range(Slice(m.s, m.arr))
        BY <2>10, <4>6
      <4>9. Follows(cs, m.arr, d.arr) /\ SliceOK(cs, d.s, d.arr)
        BY <2>10, <2>11, <4>4, <4>7, <4>8, SocketProper
      <4>10. QED BY <2>10, <4>9, FollowsOn
    <3>3. QED BY <3>1, <3>2
  <2>13. Follows(cs, arr, a.arr) /\ SliceOK(cs, a.s, a.arr) /\ ArrayOK(cs, a.arr)
    <3>1. Follows(cs, arr, a.arr) /\ SliceOK(cs, a.s, a.arr)
      BY <2>4, <2>10, <2>12
    <3>2. QED BY <1>2, <3>1, ArrayFollows
  <2>14. Box(x) /\ x.name = "adapter" /\ x.mounts = a.s
    <3>1. cs \in Seq(Range(PVCOrder))
      BY DEF Ready
    <3>2. /\ m.s = [seq |-> m.s.seq, common |-> m.s.common] /\ m.s.common \in Nat
          /\ d.s = [seq |-> d.s.seq, common |-> d.s.common] /\ d.s.common \in Nat
      BY <2>2, <2>3, <2>8, <3>1, SliceShape
    <3>3. a.s = [seq |-> a.s.seq, common |-> a.s.common] /\ a.s.common \in Nat
      BY <2>4, <3>2
    <3>4. QED BY <2>5, <3>3 DEF Box, Container
  <2>15. WellFormed(q) /\ q.volumes = p.volumes /\ q.labels = p.labels
    BY <1>2, <2>6, <2>14, ContainerAppended, FieldsKept
  <2>16. UniqueNames(q)
    BY <1>2, <1>4, <1>7, <2>6, <2>14, NamesAppended
  <2>17. ASSUME NEW z \in ContainersOf(q)
         PROVE  /\ Proper(Mounts(z, a.arr), FinalVolumes(cs)) /\ z.name \notin {"rest-proxy", "puller"}
                /\ z.name \in {"mm", "rest-proxy"} => z.mounts.common = 0
                /\ z.name = "mm" => Range(z.mounts.seq) \cap {Mount("tc-config")} = {}
    <3>1. z \in ContainersOf(p) \/ z = x
      BY <1>2, <2>6, <2>14, AppendedContainers
    <3>2. SliceOK(cs, z.mounts, a.arr)
      <4>1. z \in ContainersOf(p) => SliceOK(cs, z.mounts, arr)
        BY <1>4
      <4>2. cs \in Seq(Range(PVCOrder))
        BY DEF Ready
      <4>3. QED BY <2>13, <2>14, <3>1, <4>1, <4>2, SliceFollows
    <3>3. Proper(Mounts(z, a.arr), FinalVolumes(cs))
      BY <1>5, <2>13, <3>2, SliceProper
    <3>4. QED BY <1>4, <2>14, <3>1, <3>3
  <2>18. Firm(cs, q, a.arr, {Mount("tc-config")}, {"rest-proxy", "puller"})
    BY <2>15, <2>16, <2>17 DEF Firm
  <2>19. QED BY <1>2, <1>7, <2>7, <2>15, <2>18 DEF Adapted
<1>8. QED BY <1>6, <1>7

\* Model-mesh gets other variables and other mounts.
LEMMA MMFirm ==
    ASSUME NEW cs, NEW p, NEW arr, NEW T, NEW N, Firm(cs, p, arr, T, N), NEW U,
           NEW c, MM(p) \in ContainersOf(p) /\ MM(p).name = "mm" /\ Box(MM(p)) =>
                    /\ Box(c) /\ c.name = "mm" /\ c.mounts.common = 0
                    /\ Proper(c.mounts.seq, FinalVolumes(cs)) /\ Range(c.mounts.seq) \cap U = {},
           U \subseteq T
    PROVE  Firm(cs, WithMM(p, c), arr, U, N)
<1>1. WellFormed(p) /\ UniqueNames(p)
  BY DEF Firm
<1>2. FindContainer(p, "mm") # 0 => Box(c) /\ c.name = "mm"
  BY <1>1, FirstContainer DEF MM, ContainersOf, WellFormed
<1>3. PICK q : q = WithMM(p, c)
  OBVIOUS
<1>4. WellFormed(q) /\ UniqueNames(q)
  BY <1>1, <1>2, <1>3, WithMMKeeps, NamesMM
<1>5. ASSUME NEW x \in ContainersOf(q)
      PROVE  /\ Proper(Mounts(x, arr), FinalVolumes(cs)) /\ x.name \notin N
             /\ x.name \in {"mm", "rest-proxy"} => x.mounts.common = 0
             /\ x.name = "mm" => Range(x.mounts.seq) \cap U = {}
  <2>1. \/ x \in ContainersOf(p)
        \/ x = c /\ MM(p) \in ContainersOf(p) /\ MM(p).name = "mm" /\ Box(MM(p))
    BY <1>1, <1>3, WithMMContainers
  <2>2. CASE x \in ContainersOf(p)
    BY <2>2 DEF Firm
  <2>3. CASE x = c /\ MM(p) \in ContainersOf(p) /\ MM(p).name = "mm" /\ Box(MM(p))
    <3>1. x.mounts.common = 0 /\ Proper(x.mounts.seq, FinalVolumes(cs)) /\ Range(x.mounts.seq) \cap U = {} /\ x.name = "mm"
      BY <2>3
    <3>2. Mounts(x, arr) = x.mounts.seq
      BY <3>1 DEF Mounts
    <3>3. "mm" \notin N
      BY <2>3 DEF Firm
    <3>4. QED BY <3>1, <3>2, <3>3
  <2>4. QED BY <2>1, <2>2, <2>3
<1>6. QED BY <1>3, <1>4, <1>5 DEF Firm

LEMMA EnvFirm ==
    ASSUME NEW cs, NEW p, NEW arr, NEW T, NEW N, Firm(cs, p, arr, T, N), NEW e, NEW q,
           q = WithMM(p, [MM(p) EXCEPT !.env = e])
    PROVE  Firm(cs, q, arr, T, N) /\ q.volumes = p.volumes /\ q.labels = p.labels
<1>1. PICK m, c : m = MM(p) /\ c = [m EXCEPT !.env = e]
  OBVIOUS
<1>2. WellFormed(p)
  BY DEF Firm
<1>3. ASSUME m \in ContainersOf(p), m.name = "mm", Box(m)
      PROVE  /\ Box(c) /\ c.name = "mm" /\ c.mounts.common = 0
             /\ Proper(c.mounts.seq, FinalVolumes(cs)) /\ Range(c.mounts.seq) \cap T = {}
  <2>1. Proper(Mounts(m, arr), FinalVolumes(cs)) /\ m.mounts.common = 0 /\ Range(m.mounts.seq) \cap T = {}
    BY <1>3 DEF Firm
  <2>2. c.mounts = m.mounts /\ c.name = m.name
    <3>1. c = Container(m.name, e, m.mounts)
      BY <1>1, <1>3, BoxFields
    <3>2. QED BY <3>1 DEF Container
  <2>3. Box(c)
    BY <1>1, <1>3, BoxSet
  <2>4. QED BY <1>3, <2>1, <2>2, <2>3 DEF Mounts
<1>4. q = WithMM(p, c)
  BY <1>1
<1>5. Firm(cs, q, arr, T, N)
  BY <1>1, <1>3, <1>4, MMFirm
<1>6. QED BY <1>2, <1>4, <1>5, FieldsKept

\* Model-mesh mounts the type constraints, and the settings of etcd.
LEMMA MountFirm ==
    ASSUME NEW cs, NEW p, NEW arr, NEW T, NEW N, Firm(cs, p, arr, T, N), NEW e, NEW v \in FinalVolumes(cs),
           NEW s, NEW c, Box(MM(p)) => c = Container(MM(p).name, e, [seq |-> s, common |-> MM(p).mounts.common]),
           NEW q, q = WithMM(p, c),
           Distinct(MM(p).mounts.seq) /\ Range(MM(p).mounts.seq) \cap T = {} =>
             Distinct(s) /\ Range(s) = Range(MM(p).mounts.seq) \cup {Mount(v)}
    PROVE  Firm(cs, q, arr, {}, N) /\ q.volumes = p.volumes /\ q.labels = p.labels
<1>1. PICK m : m = MM(p)
  OBVIOUS
<1>2. WellFormed(p)
  BY DEF Firm
<1>o. PICK U : U = {}
  OBVIOUS
<1>u. U = {} /\ U \subseteq T
  BY <1>o
<1>3. ASSUME m \in ContainersOf(p), m.name = "mm", Box(m)
      PROVE  /\ Box(c) /\ c.name = "mm" /\ c.mounts.common = 0
             /\ Proper(c.mounts.seq, FinalVolumes(cs)) /\ Range(c.mounts.seq) \cap U = {}
  <2>1. Proper(Mounts(m, arr), FinalVolumes(cs)) /\ m.mounts.common = 0 /\ Range(m.mounts.seq) \cap T = {}
    BY <1>3 DEF Firm
  <2>2. PICK t : t = m.mounts.seq
    OBVIOUS
  <2>3. Proper(t, FinalVolumes(cs)) /\ Range(t) \cap T = {}
    BY <2>1, <2>2 DEF Mounts
  <2>4. c = Container(m.name, e, [seq |-> s, common |-> m.mounts.common])
    BY <1>1, <1>3
  <2>5. c.name = "mm" /\ c.mounts.seq = s /\ c.mounts.common = 0
    BY <1>3, <2>1, <2>4, FieldsOf
  <2>6. Box(c)
    BY <1>3, <2>4 DEF Box, Container
  <2>7. Distinct(s) /\ Range(s) = Range(t) \cup {Mount(v)}
    BY <1>1, <2>2, <2>3 DEF Proper
  <2>8. Proper(s, FinalVolumes(cs))
    BY <2>3, <2>7, MountsDiffer DEF Proper
  <2>9. QED BY <1>u, <2>5, <2>6, <2>8
<1>5. Firm(cs, q, arr, U, N)
  BY <1>u, <1>1, <1>3, MMFirm
<1>6. QED BY <1>u, <1>2, <1>5, FieldsKept

LEMMA SameFirm ==
    ASSUME NEW cs, NEW p, NEW arr, NEW T, NEW N, Firm(cs, p, arr, T, N), NEW x, NEW q,
           q = [p EXCEPT !.volumes = x] \/ q = [p EXCEPT !.labels = x]
    PROVE  Firm(cs, q, arr, T, N)
<1>1. WellFormed(p)
  BY DEF Firm
<1>2. WellFormed(q) /\ q.containers = p.containers
  <2>1. CASE q = [p EXCEPT !.volumes = x]
    BY <1>1, <2>1, OtherFields
  <2>2. CASE q = [p EXCEPT !.labels = x]
    BY <1>1, <2>2, OtherFields
  <2>3. QED BY <2>1, <2>2
<1>3. QED BY <1>2 DEF Firm, UniqueNames, ContainersOf

LEMMA ConstraintsFirm ==
    ASSUME NEW cs, NEW p, NEW arr, NEW N, Firm(cs, p, arr, {Mount("tc-config")}, N)
    PROVE  LET q == addModelTypeConstraints(p)
           IN  Firm(cs, q, arr, {}, N) /\ q.volumes = Append(p.volumes, "tc-config") /\ q.labels = p.labels
<1>1. PICK e, s, c, q : /\ s = Append(MM(p).mounts.seq, Mount("tc-config"))
                     /\ c = [MM(p) EXCEPT !.env = e, !.mounts.seq = s]
                     /\ q = WithMM(p, c)
                     /\ addModelTypeConstraints(p) = [q EXCEPT !.volumes = Append(q.volumes, "tc-config")]
  BY DEF addModelTypeConstraints
<1>2. "tc-config" \in FinalVolumes(cs)
  BY DEF FinalVolumes
<1>3. Firm(cs, q, arr, {}, N) /\ q.volumes = p.volumes /\ q.labels = p.labels
  <2>1. PICK v, T : v = "tc-config" /\ T = {Mount("tc-config")}
    OBVIOUS
  <2>2. v \in FinalVolumes(cs) /\ Firm(cs, p, arr, T, N)
    BY <1>2, <2>1
  <2>3. Distinct(MM(p).mounts.seq) /\ Range(MM(p).mounts.seq) \cap T = {} =>
          Distinct(s) /\ Range(s) = Range(MM(p).mounts.seq) \cup {Mount(v)}
    <3>1. s = Append(MM(p).mounts.seq, Mount(v)) /\ Mount(v) \in T
      BY <1>1, <2>1
    <3>2. QED BY <3>1, DistinctAppend, ListedAppend DEF Distinct
  <2>4. Box(MM(p)) => c = Container(MM(p).name, e, [seq |-> s, common |-> MM(p).mounts.common])
    <3>1. PICK m : m = MM(p)
      OBVIOUS
    <3>2. c = [m EXCEPT !.env = e, !.mounts.seq = s]
      BY <1>1, <3>1
    <3>3. Box(m) => c = Container(m.name, e, [seq |-> s, common |-> m.mounts.common])
      BY <3>2, BoxBoth
    <3>4. QED BY <3>1, <3>3
  <2>5. q = WithMM(p, c)
    BY <1>1
  <2>6. QED BY <2>2, <2>3, <2>4, <2>5, MountFirm
<1>4. PICK r : r = [q EXCEPT !.volumes = Append(q.volumes, "tc-config")]
  OBVIOUS
<1>5. Firm(cs, r, arr, {}, N)
  BY <1>3, <1>4, SameFirm
<1>6. r.volumes = Append(q.volumes, "tc-config") /\ r.labels = q.labels
  BY <1>3, <1>4, FieldsKept DEF Firm
<1>7. QED BY <1>1, <1>3, <1>4, <1>5, <1>6

LEMMA EtcdFirm ==
    ASSUME NEW cs, NEW p, NEW arr, NEW N, Firm(cs, p, arr, {}, N)
    PROVE  LET q == configureEtcdSecret(p)
           IN  Firm(cs, q, arr, {}, N) /\ q.volumes = WithItem(p.volumes, "etcd-config") /\ q.labels = p.labels
<1>1. PICK e, s, c, q : /\ s = WithItem(MM(p).mounts.seq, Mount("etcd-config"))
                     /\ c = [MM(p) EXCEPT !.env = e, !.mounts.seq = s]
                     /\ q = WithMM(p, c)
                     /\ configureEtcdSecret(p) = [q EXCEPT !.volumes = WithItem(q.volumes, "etcd-config")]
  BY DEF configureEtcdSecret
<1>2. "etcd-config" \in FinalVolumes(cs)
  BY DEF FinalVolumes
<1>3. Firm(cs, q, arr, {}, N) /\ q.volumes = p.volumes /\ q.labels = p.labels
  <2>1. PICK v, T : v = "etcd-config" /\ T = {}
    OBVIOUS
  <2>2. v \in FinalVolumes(cs) /\ Firm(cs, p, arr, T, N)
    BY <1>2, <2>1
  <2>3. Distinct(MM(p).mounts.seq) => Distinct(s) /\ Range(s) = Range(MM(p).mounts.seq) \cup {Mount(v)}
    BY <1>1, <2>1, DistinctItem
  <2>4. Box(MM(p)) => c = Container(MM(p).name, e, [seq |-> s, common |-> MM(p).mounts.common])
    <3>1. PICK m : m = MM(p)
      OBVIOUS
    <3>2. c = [m EXCEPT !.env = e, !.mounts.seq = s]
      BY <1>1, <3>1
    <3>3. Box(m) => c = Container(m.name, e, [seq |-> s, common |-> m.mounts.common])
      BY <3>2, BoxBoth
    <3>4. QED BY <3>1, <3>3
  <2>5. q = WithMM(p, c)
    BY <1>1
  <2>6. QED BY <2>2, <2>3, <2>4, <2>5, MountFirm
<1>4. PICK r : r = [q EXCEPT !.volumes = WithItem(q.volumes, "etcd-config")]
  OBVIOUS
<1>5. Firm(cs, r, arr, {}, N)
  BY <1>3, <1>4, SameFirm
<1>6. r.volumes = WithItem(q.volumes, "etcd-config") /\ r.labels = q.labels
  BY <1>3, <1>4, FieldsKept DEF Firm
<1>7. QED BY <1>1, <1>3, <1>4, <1>5, <1>6

\* Another container at the end, with mounts of its own.
LEMMA AddedFirm ==
    ASSUME NEW cs, NEW p, NEW arr, NEW N, Firm(cs, p, arr, {}, N), NEW n \in N, n # "mm", NEW e, NEW s,
           Proper(s, FinalVolumes(cs)), NEW c, c = Container(n, e, Own(s)),
           NEW q, q = [p EXCEPT !.containers = Append(p.containers, c)]
    PROVE  Firm(cs, q, arr, {}, N \ {n}) /\ q.volumes = p.volumes /\ q.labels = p.labels
<1>1. c = Container(n, e, Own(s))
  OBVIOUS
<1>2. Box(c) /\ c.name = n /\ c.mounts.common = 0
  BY <1>1, BoxOwn
<1>3. Mounts(c, arr) = s
  BY <1>1, FieldsOf DEF Mounts, Own
<1>4. WellFormed(p) /\ UniqueNames(p) /\ \A x \in ContainersOf(p) : x.name # c.name
  BY <1>2 DEF Firm
<1>5. q = [p EXCEPT !.containers = Append(@, c)]
  BY <1>1
<1>6. WellFormed(q) /\ UniqueNames(q)
  BY <1>2, <1>4, <1>5, ContainerAppended, NamesAppended
<1>7. \A x \in ContainersOf(q) : x \in ContainersOf(p) \/ x = c
  BY <1>2, <1>4, <1>5, AppendedContainers
<1>8. Firm(cs, q, arr, {}, N \ {n})
  BY <1>2, <1>3, <1>6, <1>7 DEF Firm
<1>9. QED BY <1>4, <1>5, <1>8, FieldsKept

LEMMA ProxyFirm ==
    ASSUME NEW cs, NEW p, NEW arr, Firm(cs, p, arr, {}, {"rest-proxy", "puller"})
    PROVE  LET q == addRESTProxy(p)
           IN  Firm(cs, q, arr, {}, {"puller"}) /\ q.volumes = p.volumes /\ q.labels = p.labels
<1>1. CASE ~ cfg.proxy
  BY <1>1 DEF addRESTProxy, Firm
<1>2. CASE cfg.proxy
  <2>1. PICK N, n, e, s : N = {"rest-proxy", "puller"} /\ n = "rest-proxy" /\ e = <<Env("REST_PROXY_USE_TLS", "set")>> /\ s = <<>>
    OBVIOUS
  <2>2. PICK q : q = addRESTProxy(p)
    OBVIOUS
  <2>3. PICK c : c = Container(n, e, Own(s)) /\ q = [p EXCEPT !.containers = Append(p.containers, c)]
    BY <1>2, <2>1, <2>2 DEF addRESTProxy
  <2>4. Proper(s, FinalVolumes(cs))
    BY <2>1, DistinctNone DEF Proper
  <2>5. n \in N /\ n # "mm" /\ Firm(cs, p, arr, {}, N)
    BY <2>1
  <2>6. Firm(cs, q, arr, {}, N \ {n}) /\ q.volumes = p.volumes /\ q.labels = p.labels
    BY <2>3, <2>4, <2>5, AddedFirm
  <2>7. N \ {n} = {"puller"}
    BY <2>1
  <2>8. QED BY <2>2, <2>6, <2>7
<1>3. QED BY <1>1, <1>2

\* The certificates.
LEMMA TLSFirm ==
    ASSUME NEW cs, NEW p, NEW arr, NEW N, Firm(cs, p, arr, {}, N)
    PROVE  LET q == configureTLSSecret(p)
           IN  /\ Firm(cs, q, arr, {}, N) /\ q.labels = p.labels
               /\ q.volumes = IF cfg.tls = "off" THEN p.volumes ELSE WithItem(p.volumes, "tls-certs")
<1>1. CASE cfg.tls = "off"
  BY <1>1 DEF configureTLSSecret
<1>2. CASE cfg.tls # "off"
  <2>1. PICK q : q = configureTLSSecret(p)
    OBVIOUS
  <2>2. WellFormed(p) /\ UniqueNames(p)
    BY DEF Firm
  <2>3. WellFormed(q)
    BY <2>1, <2>2, TLSHarmless DEF Harmless
  <2>4. ASSUME NEW c, Box(c)
        PROVE  /\ WithTLS(c) = Container(c.name, c.env \o TLSEnv, [seq |-> WithItem(c.mounts.seq, Mount("tls-certs")),
                                                                   common |-> c.mounts.common])
               /\ WithTLS(c).name = c.name
    <3>1. PICK e, s, d : /\ e = c.env \o TLSEnv /\ s = WithItem(c.mounts.seq, Mount("tls-certs"))
                         /\ d = [c EXCEPT !.env = e, !.mounts.seq = s]
      OBVIOUS
    <3>2. WithTLS(c) = d
      BY <3>1 DEF WithTLS
    <3>3. d = Container(c.name, e, [seq |-> s, common |-> c.mounts.common])
      BY <2>4, <3>1, BoxBoth
    <3>4. QED BY <3>1, <3>2, <3>3, FieldsOf
  <2>5. PICK f, v : /\ v = WithItem(p.volumes, "tls-certs")
                    /\ f = [i \in DOMAIN p.containers |-> IF p.containers[i].name \in TLSContainers
                                                            THEN WithTLS(p.containers[i]) ELSE p.containers[i]]
    OBVIOUS
  <2>6. q = [p EXCEPT !.containers = f, !.volumes = v]
    BY <1>2, <2>1, <2>5 DEF configureTLSSecret
  <2>7. q.containers = f /\ q.volumes = v /\ q.labels = p.labels
    BY <2>2, <2>6 DEF WellFormed
  <2>8. UniqueNames(q)
    <3>1. DOMAIN q.containers = DOMAIN p.containers
      BY <2>5, <2>7
    <3>2. ASSUME NEW i \in DOMAIN p.containers PROVE q.containers[i].name = p.containers[i].name
      <4>1. PICK c : c = p.containers[i]
        OBVIOUS
      <4>2. Box(c)
        BY <2>2, <4>1 DEF WellFormed
      <4>3. q.containers[i] = WithTLS(c) \/ q.containers[i] = c
        BY <2>5, <2>7, <4>1
      <4>4. WithTLS(c).name = c.name
        BY <2>4, <4>2
      <4>5. QED BY <4>1, <4>3, <4>4
    <3>3. QED BY <2>2, <3>1, <3>2, NamesCarried
  <2>9. "tls-certs" \in FinalVolumes(cs)
    BY <1>2 DEF FinalVolumes
  <2>10. ASSUME NEW x \in ContainersOf(q)
         PROVE  /\ Proper(Mounts(x, arr), FinalVolumes(cs)) /\ x.name \notin N
                /\ x.name \in {"mm", "rest-proxy"} => x.mounts.common = 0
    <3>1. \/ x \in ContainersOf(p)
          \/ \E c \in ContainersOf(p) : Box(c) /\ c.name \in TLSContainers /\ x = WithTLS(c)
      BY <2>1, <2>2, TLSContainersOf
    <3>2. CASE x \in ContainersOf(p)
      BY <3>2 DEF Firm
    <3>3. CASE \E c \in ContainersOf(p) : Box(c) /\ c.name \in TLSContainers /\ x = WithTLS(c)
      <4>1. PICK c \in ContainersOf(p) : Box(c) /\ c.name \in TLSContainers /\ x = WithTLS(c)
        BY <3>3
      <4>2. c.name \in {"mm", "rest-proxy"}
        BY <4>1 DEF TLSContainers
      <4>3. Proper(Mounts(c, arr), FinalVolumes(cs)) /\ c.mounts.common = 0 /\ c.name \notin N
        BY <4>1, <4>2 DEF Firm
      <4>4. PICK t, s : t = c.mounts.seq /\ s = WithItem(t, Mount("tls-certs"))
        OBVIOUS
      <4>5. Proper(t, FinalVolumes(cs))
        BY <4>3, <4>4 DEF Mounts
      <4>6. Proper(s, FinalVolumes(cs))
        <5>1. Distinct(s) /\ Range(s) = Range(t) \cup {Mount("tls-certs")}
          BY <4>4, <4>5, DistinctItem DEF Proper
        <5>2. QED BY <2>9, <4>5, <5>1, MountsDiffer DEF Proper
      <4>7. x.name = c.name /\ x.mounts.seq = s /\ x.mounts.common = 0
        <5>1. PICK e, m : e = c.env \o TLSEnv /\ m = [seq |-> s, common |-> c.mounts.common]
          OBVIOUS
        <5>2. x = Container(c.name, e, m)
          BY <2>4, <4>1, <4>4, <5>1
        <5>3. x.name = c.name /\ x.mounts = m
          BY <5>2 DEF Container
        <5>4. m.seq = s /\ m.common = 0
          BY <4>3, <5>1
        <5>5. QED BY <5>3, <5>4
      <4>8. QED BY <4>3, <4>6, <4>7 DEF Mounts
    <3>4. QED BY <3>1, <3>2, <3>3
  <2>11. Firm(cs, q, arr, {}, N)
    BY <2>3, <2>8, <2>10 DEF Firm
  <2>12. QED BY <1>2, <2>1, <2>5, <2>7, <2>11
<1>3. QED BY <1>1, <1>2

LEMMA LastFirm ==
    ASSUME NEW cs, NEW p, NEW arr, NEW N, Firm(cs, p, arr, {}, N)
    PROVE  LET q == ensureMMContainerIsLast(p)
           IN  Firm(cs, q, arr, {}, N) /\ q.volumes = p.volumes /\ q.labels = p.labels
<1>1. PICK q : q = ensureMMContainerIsLast(p)
  OBVIOUS
<1>2. WellFormed(p) /\ UniqueNames(p)
  BY DEF Firm
<1>3. WellFormed(q)
  BY <1>1, <1>2, LastHarmless DEF Harmless
<1>4. \A x \in ContainersOf(q) : x \in ContainersOf(p)
  BY <1>1, <1>2, LastContainers
<1>5. UniqueNames(q) /\ q.volumes = p.volumes /\ q.labels = p.labels
  <2>1. PICK i : i = FindContainer(p, "mm")
    OBVIOUS
  <2>2. CASE i = 0
    BY <1>1, <1>2, <2>1, <2>2 DEF ensureMMContainerIsLast
  <2>3. CASE i # 0
    <3>1. PICK f : f = p.containers
      OBVIOUS
    <3>2. PICK n \in Nat : n = Len(f) /\ DOMAIN f = 1..n
      BY <1>2, <3>1 DEF WellFormed
    <3>3. i \in 1..n /\ n \in 1..n
      BY <1>2, <2>1, <2>3, <3>1, <3>2, FirstContainer
    <3>4. PICK g : g = [f EXCEPT ![n] = f[i], ![i] = f[n]]
      OBVIOUS
    <3>5. q = [p EXCEPT !.containers = g]
      BY <1>1, <2>1, <2>3, <3>1, <3>2, <3>4 DEF ensureMMContainerIsLast
    <3>6. q.containers = g /\ q.volumes = p.volumes /\ q.labels = p.labels
      BY <1>2, <3>5 DEF WellFormed
    <3>7. /\ DOMAIN g = 1..n /\ g[n] = f[i] /\ g[i] = f[n]
          /\ \A k \in 1..n : k # n /\ k # i => g[k] = f[k]
      BY <3>2, <3>3, <3>4
    <3>8. \A j, k \in 1..n : f[j].name = f[k].name => j = k
      BY <1>2, <3>1, <3>2 DEF UniqueNames
    <3>9. \A j, k \in 1..n : g[j].name = g[k].name => j = k
      BY <3>3, <3>7, <3>8
    <3>10. QED BY <3>6, <3>7, <3>9 DEF UniqueNames
  <2>4. QED BY <2>2, <2>3
<1>6. Firm(cs, q, arr, {}, N)
  BY <1>3, <1>4, <1>5 DEF Firm
<1>7. QED BY <1>1, <1>5, <1>6

\* Nothing is shared any more.
LEMMA SecretsFirm ==
    ASSUME NEW cs, NEW p, NEW arr, NEW N, Firm(cs, p, arr, {}, N)
    PROVE  LET q == configureImagePullSecrets(p, arr)
           IN  Firm(cs, q, <<>>, {}, N) /\ q.volumes = p.volumes /\ q.labels = p.labels
<1>1. PICK q : q = configureImagePullSecrets(p, arr)
  OBVIOUS
<1>2. WellFormed(p) /\ UniqueNames(p)
  BY DEF Firm
<1>3. /\ WellFormed(q) /\ DOMAIN q.containers = DOMAIN p.containers
      /\ \A i \in DOMAIN p.containers : q.containers[i].name = p.containers[i].name
  BY <1>1, <1>2, SecretsResolve
<1>4. UniqueNames(q)
  BY <1>2, <1>3, NamesCarried
<1>5. ASSUME NEW x \in ContainersOf(q)
      PROVE  Proper(Mounts(x, <<>>), FinalVolumes(cs)) /\ x.name \notin N /\ x.mounts.common = 0
  <2>1. PICK c \in ContainersOf(p) : Box(c) /\ x = Container(c.name, c.env, Own(Mounts(c, arr)))
    BY <1>1, <1>2, ResolvedContainers
  <2>2. x.name = c.name /\ x.mounts.seq = Mounts(c, arr) /\ x.mounts.common = 0
    BY <2>1, FieldsOf DEF Own
  <2>3. Mounts(x, <<>>) = Mounts(c, arr)
    BY <2>2 DEF Mounts
  <2>4. QED BY <2>1, <2>2, <2>3 DEF Firm
<1>6. Firm(cs, q, <<>>, {}, N)
  BY <1>3, <1>4, <1>5 DEF Firm
<1>7. PICK x, f : q = [p EXCEPT !.secrets = x, !.containers = f]
  BY <1>1 DEF configureImagePullSecrets
<1>8. q.volumes = p.volumes /\ q.labels = p.labels
  BY <1>2, <1>7 DEF WellFormed
<1>9. QED BY <1>1, <1>6, <1>8

\* The puller, with the models, the secret, the socket it is told of and the claims.
LEMMA PullerFirm ==
    ASSUME NEW cs, Ready(cs), NEW p, Firm(cs, p, <<>>, {}, {"puller"})
    PROVE  LET q == addPuller(p, cs)
           IN  Firm(cs, q, <<>>, {}, {}) /\ q.volumes = p.volumes /\ q.labels = p.labels
<1>1. CASE ~ UseStorageHelper
  BY <1>1 DEF addPuller, Firm
<1>2. CASE UseStorageHelper
  <2>1. PICK x, z : x = <<Mount("models-dir"), Mount("storage-config")>> /\ z = [i \in DOMAIN cs |-> Mount(cs[i])]
    OBVIOUS
  <2>2. PICK y : y = IF rt.mgmt.kind = "unix" THEN <<SocketMount(rt.mgmt.dir)>> ELSE <<>>
    OBVIOUS
  <2>3. PullerMounts(cs) = (x \o y) \o z
    BY <2>1, <2>2 DEF PullerMounts
  <2>4. Distinct(x) /\ Range(x) = {Mount("models-dir"), Mount("storage-config")}
    <3>1. Listed(x) /\ Range(x) = {Mount("models-dir"), Mount("storage-config")}
      BY <2>1, ListedTwo
    <3>2. Mount("models-dir") # Mount("storage-config")
      BY MountsDiffer
    <3>3. DOMAIN x = {1, 2} /\ x[1] = Mount("models-dir") /\ x[2] = Mount("storage-config")
      BY <2>1
    <3>4. QED BY <3>1, <3>2, <3>3 DEF Distinct, IsInjective
  <2>5. /\ Distinct(y) /\ Range(y) = (IF rt.mgmt.kind = "unix" THEN {SocketMount(rt.mgmt.dir)} ELSE {})
        /\ rt.mgmt.kind = "unix" => rt.mgmt.dir # "-" /\ "domain-socket" \in FinalVolumes(cs)
    <3>1. Distinct(y) /\ Range(y) = IF rt.mgmt.kind = "unix" THEN {SocketMount(rt.mgmt.dir)} ELSE {}
      BY <2>2, DistinctOne, DistinctNone
    <3>2. rt.mgmt.kind = "unix" => UnixDomainSockets
      BY DEF UnixDomainSockets, Endpoints
    <3>3. rt.mgmt.kind = "unix" => rt.mgmt.dir # "-"
      <4>1. rt \in RuntimeSet
        BY DEF Ready, InputsInv
      <4>2. rt.mgmt \in EndpointSet
        BY <4>1 DEF RuntimeSet
      <4>3. QED BY <4>2 DEF EndpointSet
    <3>4. QED BY <3>1, <3>2, <3>3, SocketVolume
  <2>6. Distinct(z) /\ Range(z) = {Mount(v) : v \in Range(cs)}
    <3>1. PICK S, F : cs \in Seq(S) /\ IsInjective(cs) /\ F = DOMAIN cs
      BY DEF Ready
    <3>2. z = [i \in F |-> z[i]] /\ \A i \in F : z[i] = Mount(cs[i])
      BY <2>1, <3>1
    <3>3. \A i, j \in F : z[i] = z[j] => cs[i] = cs[j]
      BY <3>2, MountsDiffer
    <3>4. Distinct(z) /\ Range(z) = {z[i] : i \in F}
      BY <3>1, <3>2, <3>3, DistinctMap
    <3>5. QED BY <3>1, <3>2, <3>4 DEF Range
  <2>7. Distinct(x \o y) /\ Range(x \o y) = Range(x) \cup Range(y)
    <3>1. Range(x) \cap Range(y) = {}
      BY <2>4, <2>5, MountsDiffer
    <3>2. QED BY <2>4, <2>5, <3>1, DistinctConcat, ListedConcat DEF Distinct
  <2>8. PICK s : s = PullerMounts(cs)
    OBVIOUS
  <2>9. Distinct(s) /\ Range(s) = Range(x) \cup Range(y) \cup Range(z)
    <3>1. "models-dir" \notin Range(cs) /\ "storage-config" \notin Range(cs)
      BY DEF Ready, InternalVolumes
    <3>2. PICK w : w = x \o y
      OBVIOUS
    <3>3. Distinct(w) /\ Range(w) = Range(x) \cup Range(y) /\ s = w \o z
      BY <2>3, <2>7, <2>8, <3>2
    <3>4. Range(w) \cap Range(z) = {}
      BY <2>4, <2>5, <2>6, <3>1, <3>3, MountsDiffer
    <3>5. QED BY <2>6, <3>3, <3>4, DistinctConcat, ListedConcat DEF Distinct
  <2>10. {"models-dir", "storage-config"} \cup Range(cs) \subseteq FinalVolumes(cs)
    BY <1>2, VolumesDistinct DEF FinalVolumes
  <2>11. ASSUME NEW m \in Range(s) PROVE m.vol \in FinalVolumes(cs)
    BY <2>4, <2>5, <2>6, <2>9, <2>10, MountsDiffer
  <2>12. Proper(s, FinalVolumes(cs))
    BY <2>9, <2>11 DEF Proper
  <2>13. PICK N, n, e : /\ N = {"puller"} /\ n = "puller"
                        /\ e = <<EnvPath("MODEL_SERVER_ENDPOINT", ParseEndpoint(rt.mgmt).dir)>>
    OBVIOUS
  <2>14. PICK q : q = addPuller(p, cs)
    OBVIOUS
  <2>15. PICK c : c = Container(n, e, Own(s)) /\ q = [p EXCEPT !.containers = Append(p.containers, c)]
    BY <1>2, <2>8, <2>13, <2>14 DEF addPuller, Puller
  <2>a. PICK arr : arr = <<>>
    OBVIOUS
  <2>16. n \in N /\ n # "mm" /\ Firm(cs, p, arr, {}, N) /\ N \ {n} = {}
    BY <2>13, <2>a
  <2>17. Firm(cs, q, arr, {}, N \ {n}) /\ q.volumes = p.volumes /\ q.labels = p.labels
    BY <2>12, <2>15, <2>16, AddedFirm
  <2>18. QED BY <2>a, <2>14, <2>16, <2>17
<1>3. QED BY <1>1, <1>2

\* The volumes at the end: those of the start, and the ones that the later steps add.
LEMMA VolumesAdded ==
    ASSUME NEW cs, Ready(cs), NEW t, t = Append(VolumeList(cs), "tc-config"), NEW u, u = WithItem(t, "etcd-config"),
           NEW v, v = IF cfg.tls = "off" THEN u ELSE WithItem(u, "tls-certs")
    PROVE  Distinct(v) /\ Range(v) = FinalVolumes(cs)
<1>1. PICK s : s = VolumeList(cs)
  OBVIOUS
<1>2. Distinct(s) /\ "tc-config" \notin Range(s)
  <2>1. "tc-config" \notin Range(rt.volumes)
    BY DEF Ready, ValidateVolumes, CheckName, InternalVolumes, Range
  <2>2. "tc-config" \notin Range(cs)
    BY DEF Ready, InternalVolumes
  <2>3. PICK X, Y : /\ X = (IF UnixDomainSockets THEN {"domain-socket"} ELSE {})
                    /\ Y = IF rt.adapter # "" \/ UseStorageHelper THEN {"storage-config"} ELSE {}
    OBVIOUS
  <2>4. "tc-config" \notin X /\ "tc-config" \notin Y
    BY <2>3
  <2>5. Range(s) = Range(rt.volumes) \cup {"models-dir"} \cup Range(cs) \cup X \cup Y /\ Distinct(s)
    BY <1>1, <2>3, VolumesDistinct
  <2>6. QED BY <2>1, <2>2, <2>4, <2>5
<1>3. Distinct(t) /\ Range(t) = Range(s) \cup {"tc-config"}
  <2>1. t = Append(s, "tc-config")
    BY <1>1
  <2>2. Listed(s)
    BY <1>2 DEF Distinct
  <2>3. Range(t) = Range(s) \cup {"tc-config"}
    BY <2>1, <2>2, ListedAppend
  <2>4. Distinct(t)
    BY <1>2, <2>1, DistinctAppend
  <2>5. QED BY <2>3, <2>4
<1>4. Distinct(u) /\ Range(u) = Range(t) \cup {"etcd-config"}
  BY <1>3, DistinctItem
<1>5. Distinct(v) /\ Range(v) = Range(u) \cup (IF cfg.tls = "off" THEN {} ELSE {"tls-certs"})
  <2>1. CASE cfg.tls = "off"
    BY <1>4, <2>1
  <2>2. CASE cfg.tls # "off"
    <3>1. v = WithItem(u, "tls-certs")
      BY <2>2
    <3>2. Distinct(v) /\ Range(v) = Range(u) \cup {"tls-certs"}
      BY <1>4, <3>1, DistinctItem
    <3>3. QED BY <2>2, <3>2
  <2>3. QED BY <2>1, <2>2
<1>6. Range(v) = FinalVolumes(cs)
  BY <1>1, <1>3, <1>4, <1>5 DEF FinalVolumes
<1>7. QED BY <1>5, <1>6

\* A pod that is firm at the end, with those volumes and the template's labels, is accepted.
LEMMA FirmAccepted ==
    ASSUME NEW cs, NEW p, Firm(cs, p, <<>>, {}, {}), Resolved(p), Distinct(p.volumes), Range(p.volumes) = FinalVolumes(cs),
           \A l \in {"name", "modelmesh-service"} : p.labels[l] = "template"
    PROVE  Accepts(p)
<1>1. \A i, j \in DOMAIN p.containers : p.containers[i].name = p.containers[j].name => i = j
  BY DEF Firm, UniqueNames
<1>2. \A i, j \in DOMAIN p.volumes : p.volumes[i] = p.volumes[j] => i = j
  BY DEF Distinct, IsInjective
<1>3. ASSUME NEW i \in DOMAIN p.containers, NEW ms, ms = p.containers[i].mounts.seq
      PROVE  /\ \A j, k \in DOMAIN ms : ms[j] = ms[k] => j = k
             /\ \A j \in DOMAIN ms : ms[j].vol \in Range(p.volumes)
  <2>1. PICK c : c = p.containers[i]
    OBVIOUS
  <2>2. c \in ContainersOf(p) /\ c.mounts.common = 0 /\ ms = c.mounts.seq
    BY <1>3, <2>1 DEF ContainersOf, Resolved
  <2>3. Proper(Mounts(c, <<>>), FinalVolumes(cs))
    BY <2>2 DEF Firm
  <2>4. Proper(ms, FinalVolumes(cs))
    BY <2>2, <2>3 DEF Mounts
  <2>5. \A j, k \in DOMAIN ms : ms[j] = ms[k] => j = k
    BY <2>4 DEF Proper, Distinct, IsInjective
  <2>6. \A j \in DOMAIN ms : ms[j].vol \in Range(p.volumes)
    BY <2>4 DEF Proper, Range
  <2>7. QED BY <2>5, <2>6
<1>4. QED BY <1>1, <1>2, <1>3 DEF Accepts

\* A runtime that is consistent and valid makes a pod that the API server accepts.
LEMMA Accepted ==
    ASSUME NEW cs, Ready(cs), NEW b, BuiltAll(cs, b)
    PROVE  Accepts(ToApply(cs, Adapted(cs, b)))
<1>1. PICK x, arr, L, T, N : /\ x = Adapted(cs, b) /\ arr = x.arr /\ L = TemplatePod.labels
                             /\ T = {Mount("tc-config")} /\ N = {"rest-proxy", "puller"}
  OBVIOUS
<1>2. PICK p0, p1, p2, p3, p4, p5, p6, p7, p8, p9, p10 :
        /\ p0 = x.pod /\ p1 = ToEnv(x) /\ p2 = ToConstraints(x) /\ p3 = ToEtcd(x) /\ p4 = ToProxy(x)
        /\ p5 = ToTLS(x) /\ p6 = ToMetadata(x) /\ p7 = ToLast(x) /\ p8 = ToSecrets(x) /\ p9 = ToPuller(x)
        /\ p10 = ToApply(cs, x)
  OBVIOUS
<1>3. PICK V : V = VolumeList(cs)
  OBVIOUS
<1>4. Firm(cs, p0, arr, T, N) /\ p0.volumes = V /\ p0.labels = L
  <2>1. Sturdy(cs, b)
    BY BuiltSturdy
  <2>2. QED BY <1>1, <1>2, <1>3, <2>1, AdaptedFirm
<1>5. Firm(cs, p1, arr, T, N) /\ p1.volumes = V /\ p1.labels = L
  <2>1. PICK e : e = SetEnvironmentVar(MM(p0).env, Env("SHUTDOWN_TIMEOUT_MS", "set"))
    OBVIOUS
  <2>2. p1 = WithMM(p0, [MM(p0) EXCEPT !.env = e])
    BY <1>2, <2>1 DEF ToEnv, syncGracePeriod
  <2>3. QED BY <1>4, <2>2, EnvFirm
<1>6. Firm(cs, p2, arr, T, N) /\ p2.volumes = V /\ p2.labels = L
  <2>1. PICK e : e = SetAll(MM(p1).env, ExtraEnv \o DataEnv \o ManagementEnv \o FixedEnv)
    OBVIOUS
  <2>2. p2 = WithMM(p1, [MM(p1) EXCEPT !.env = e])
    BY <1>2, <2>1 DEF ToConstraints, addMMEnvVars
  <2>3. QED BY <1>5, <2>2, EnvFirm
<1>7. PICK t : t = Append(V, "tc-config")
  OBVIOUS
<1>8. Firm(cs, p3, arr, {}, N) /\ p3.volumes = t /\ p3.labels = L
  <2>1. p3 = addModelTypeConstraints(p2)
    BY <1>2 DEF ToEtcd
  <2>2. QED BY <1>1, <1>6, <1>7, <2>1, ConstraintsFirm
<1>9. PICK u : u = WithItem(t, "etcd-config")
  OBVIOUS
<1>10. Firm(cs, p4, arr, {}, N) /\ p4.volumes = u /\ p4.labels = L
  <2>1. p4 = configureEtcdSecret(p3)
    BY <1>2 DEF ToProxy
  <2>2. QED BY <1>8, <1>9, <2>1, EtcdFirm
<1>11. Firm(cs, p5, arr, {}, {"puller"}) /\ p5.volumes = u /\ p5.labels = L
  <2>1. p5 = addRESTProxy(p4)
    BY <1>2 DEF ToTLS
  <2>2. QED BY <1>1, <1>10, <2>1, ProxyFirm
<1>12. PICK v, M : v = (IF cfg.tls = "off" THEN u ELSE WithItem(u, "tls-certs")) /\ M = {"puller"}
  OBVIOUS
<1>13. Firm(cs, p6, arr, {}, M) /\ p6.volumes = v /\ p6.labels = L
  <2>1. p6 = configureTLSSecret(p5) /\ Firm(cs, p5, arr, {}, M)
    BY <1>2, <1>11, <1>12 DEF ToMetadata
  <2>2. QED BY <1>11, <1>12, <2>1, TLSFirm
<1>14. PICK K : K = [l \in DOMAIN L \cup cfg.labels \cup rt.labels |->
                       IF l \in rt.labels THEN "runtime" ELSE IF l \in cfg.labels THEN "config" ELSE L[l]]
  OBVIOUS
<1>15. Firm(cs, p7, arr, {}, M) /\ p7.volumes = v /\ p7.labels = K
  <2>1. p7 = [p6 EXCEPT !.labels = K]
    BY <1>2, <1>13, <1>14 DEF ToLast, configureMetadata
  <2>2. Firm(cs, p7, arr, {}, M)
    BY <1>13, <2>1, SameFirm
  <2>3. p7.volumes = p6.volumes /\ p7.labels = K
    BY <1>13, <2>1 DEF Firm, WellFormed
  <2>4. QED BY <1>13, <2>2, <2>3
<1>16. Firm(cs, p8, arr, {}, M) /\ p8.volumes = v /\ p8.labels = K
  <2>1. p8 = ensureMMContainerIsLast(p7)
    BY <1>2 DEF ToSecrets
  <2>2. QED BY <1>15, <2>1, LastFirm
<1>17. Firm(cs, p9, <<>>, {}, M) /\ p9.volumes = v /\ p9.labels = K /\ Resolved(p9)
  <2>1. p9 = configureImagePullSecrets(p8, arr)
    BY <1>1, <1>2 DEF ToPuller
  <2>2. Resolved(p9)
    BY <1>16, <2>1, SecretsResolved DEF Firm
  <2>3. QED BY <1>16, <2>1, <2>2, SecretsFirm
<1>18. Firm(cs, p10, <<>>, {}, {}) /\ p10.volumes = v /\ p10.labels = K /\ Resolved(p10)
  <2>1. p10 = addPuller(p9, cs) /\ Firm(cs, p9, <<>>, {}, {"puller"})
    BY <1>2, <1>12, <1>17 DEF ToApply
  <2>2. Resolved(p10)
    BY <1>17, <2>1, PullerResolved DEF Firm
  <2>3. QED BY <1>17, <2>1, <2>2, PullerFirm
<1>19. Distinct(v) /\ Range(v) = FinalVolumes(cs)
  BY <1>3, <1>7, <1>9, <1>12, VolumesAdded
<1>20. \A l \in {"name", "modelmesh-service"} : K[l] = "template"
  <2>1. DOMAIN L = {"name", "modelmesh-service"} /\ \A l \in DOMAIN L : L[l] = "template"
    BY <1>1 DEF TemplatePod
  <2>2. (rt.labels \cup cfg.labels) \cap {"name", "modelmesh-service"} = {}
    BY DEF Ready
  <2>3. QED BY <1>14, <2>1, <2>2
<1>21. Accepts(p10)
  BY <1>18, <1>19, <1>20, FirmAccepted
<1>22. QED BY <1>1, <1>2, <1>21

\* What is built of a runtime has passed the validator, and no claim is found twice.
Validated == ValidateVolumes /\ \A i \in DOMAIN rt.containers : ValidateContainer(rt.containers[i])

ValidInv == IsInjective(pvcs) /\ (phase \notin {"admit", "validate", "ended"} => Validated)

LEMMA OrderedInjective ==
    ASSUME NEW S \in SUBSET Range(PVCOrder), NEW q \in Ordered(S)
    PROVE  IsInjective(q)
<1>1. PICK n \in Nat : n = Cardinality(S)
  BY ClaimsFinite
<1>2. q \in [1..n -> S] /\ \A i, j \in 1..n : i # j => q[i] # q[j]
  BY <1>1 DEF Ordered, SetToSeqs
<1>3. QED BY <1>2 DEF IsInjective

LEMMA NextValid ==
    InputsInv /\ ClaimsInv /\ ValidInv /\ [DeploymentNext]_deploymentVars => ValidInv'
<1> SUFFICES ASSUME InputsInv, ClaimsInv, ValidInv, [DeploymentNext]_deploymentVars PROVE ValidInv'
  OBVIOUS
<1>a. UNCHANGED <<rt, cfg>>
  BY InputsKept DEF inputs
<1>b. Validated' = Validated
  BY <1>a DEF Validated, ValidateVolumes, ValidateContainer
<1>c. IsInjective(pvcs)'
  <2>1. CASE Validate
    <3>1. pvcs' = pvcs \/ pvcs' = <<>>
      BY <2>1 DEF Validate, Fail, found
    <3>2. CASE pvcs' = pvcs
      BY <3>2 DEF ValidInv
    <3>3. CASE pvcs' = <<>>
      BY <3>3 DEF IsInjective
    <3>4. QED BY <3>1, <3>2, <3>3
  <2>2. CASE GetPVCs
    <3>1. claims \cup PredictorClaims \in SUBSET Range(PVCOrder)
      BY DEF ClaimsInv, PredictorClaims, InputsInv, ClusterSet
    <3>2. QED BY <2>2, <3>1, OrderedInjective DEF GetPVCs
  <2>3. CASE pvcs' = pvcs
    BY <2>3 DEF ValidInv
  <2>4. BuildNext => pvcs' = pvcs
    BY BuildIsStep DEF BuildStep, found
  <2>5. Handle \/ DeleteDeployment \/ Scale \/ (\E e \in entries : ReadStorageEntry(e)) \/ ApplyManifest
        \/ ReconcileAgain \/ UNCHANGED deploymentVars => pvcs' = pvcs
    BY DEF Handle, DeleteDeployment, Scale, ReadStorageEntry, ApplyManifest, ReconcileAgain, Fail, found, deploymentVars
  <2>6. QED BY <2>1, <2>2, <2>3, <2>4, <2>5, StepKinds
<1>d. SUFFICES (phase \notin {"admit", "validate", "ended"} => Validated)'
  BY <1>c DEF ValidInv
<1>e. phase \notin {"admit", "validate", "ended"} => Validated
  BY DEF ValidInv
<1> USE DEF Proceed, Fail, AtStep
<1>1. CASE Handle
  BY <1>1 DEF Handle
<1>2. CASE Validate
  <2>1. phase' = "ended" \/ Validated
    BY <1>2 DEF Validate, Validated
  <2>2. QED BY <1>b, <2>1
<1>3. CASE phase \notin {"admit", "validate", "ended"}
  BY <1>3, <1>b, <1>e
<1>4. CASE ApplyManifest \/ ReconcileAgain
  BY <1>4 DEF ApplyManifest, ReconcileAgain
<1>5. CASE UNCHANGED deploymentVars
  BY <1>5, <1>b, <1>e DEF deploymentVars
<1>6. QED
  <2>1. BuildNext => phase \notin {"admit", "validate", "ended"}
    BY BuildIsStep DEF BuildStep, BuildSteps
  <2>2. GetPVCs \/ DeleteDeployment \/ Scale \/ (\E e \in entries : ReadStorageEntry(e))
        => phase \notin {"admit", "validate", "ended"}
    BY DEF GetPVCs, DeleteDeployment, Scale, ReadStorageEntry
  <2>3. QED BY <1>1, <1>2, <1>3, <1>4, <1>5, <2>1, <2>2, StepKinds

LEMMA ExcusedSame == ASSUME UNCHANGED <<rt, cfg, pvcs>> PROVE Excused' <=> Excused
<1>1. Consistent' <=> Consistent
  BY DEF Consistent
<1>2. Endpoints' = Endpoints /\ Given(rt.mgmt)' = Given(rt.mgmt)
  BY DEF Endpoints
<1>3. ManySocketDirs' = ManySocketDirs
  BY SameVocabulary DEF ManySocketDirs
<1>4. Spare(Len(CommonMounts(pvcs)))' = Spare(Len(CommonMounts(pvcs)))
  OBVIOUS
<1>5. QED BY <1>1, <1>2, <1>3, <1>4 DEF Excused

\* Nothing to excuse: the runtime is ready.
LEMMA NotExcused ==
    ASSUME InputsInv, ClaimsInv, ValidInv, Validated, ~ Excused
    PROVE  Ready(pvcs)
<1>1. Spare(Len(CommonMounts(pvcs))) \in {0, 1}
  <2>1. PICK n : n = Len(CommonMounts(pvcs))
    OBVIOUS
  <2>2. n \in Nat \ {0}
    <3>1. PICK cs \in Seq(Range(PVCOrder)) : cs = pvcs
      BY DEF ClaimsInv
    <3>2. QED BY <2>1, <3>1, CommonType
  <2>3. Spare(n) \in Nat
    BY <2>2, SpareNat
  <2>4. ~ (Spare(n) > 1)
    BY <2>1 DEF Excused
  <2>5. QED BY <2>1, <2>3, <2>4
<1>2. Consistent
  BY DEF Excused
<1>3. \A e \in Endpoints : Given(e) => ValidEndpoint(e)
  BY DEF Excused
<1>4. Range(pvcs) \cap (Range(rt.volumes) \cup InternalVolumes) = {}
  BY DEF Excused
<1>5. pvcs \in Seq(Range(PVCOrder)) /\ IsInjective(pvcs)
  BY DEF ClaimsInv, ValidInv
<1>6. \A i \in DOMAIN rt.containers :
        LET c == rt.containers[i]
        IN  /\ ValidateContainer(c) /\ IsInjective(c.mounts)
            /\ Range(c.mounts) \subseteq Range(rt.volumes) \cup Range(pvcs) \cup {"models-dir"}
  BY <1>2 DEF Validated, Consistent
<1>7. QED BY <1>1, <1>2, <1>3, <1>4, <1>5, <1>6 DEF Ready, Validated, Consistent

Bad == {"error", "panic", "rejected"}

\* A step of the reconcile fails for a reason that is excused.
LEMMA FailExcused ==
    ASSUME InputsInv, BuildNext, outcome \notin Bad, outcome' \in Bad
    PROVE  Excused
<1>a. rt.mgmt \in Endpoints /\ rt.mgmt \in EndpointSet
  BY DEF Endpoints, InputsInv, RuntimeSet
<1>b. (\E e \in Endpoints : Given(e) /\ ~ ValidEndpoint(e)) \/ ~ Given(rt.mgmt) \/ ManySocketDirs => Excused
  BY DEF Excused
<1> USE DEF AtStep, Change, Proceed, Fail, found, Bad
<1>1. CASE LoadManifest
  BY <1>1 DEF LoadManifest, Rendered, SetConfigMap, Excused
<1>2. CASE AddContainer
  <2>1. ManySocketDirs
    BY <1>2 DEF AddContainer
  <2>2. QED BY <1>b, <2>1
<1>3. CASE AddAdapter
  <2>1. rt.adapter # "" /\ Given(rt.mgmt) /\ rt.mgmt.kind # "port"
    BY <1>3 DEF AddAdapter
  <2>2. CASE rt.mgmt.kind = "unix"
    BY <2>1, <2>2 DEF Excused
  <2>3. CASE rt.mgmt.kind # "unix"
    <3>1. ~ ValidEndpoint(rt.mgmt)
      BY <2>1, <2>3 DEF ValidEndpoint
    <3>2. QED BY <1>a, <1>b, <2>1, <3>1
  <2>4. QED BY <2>2, <2>3
<1>4. CASE AddMMEnvVars
  <2>1. ~ Given(rt.mgmt)
    BY <1>4 DEF AddMMEnvVars
  <2>2. QED BY <1>b, <2>1
<1>5. CASE ConfigureTLSSecret
  BY <1>5 DEF ConfigureTLSSecret, Excused
<1>6. CASE AddPuller
  <2>1. ~ Given(rt.mgmt) \/ ~ ValidEndpoint(rt.mgmt)
    BY <1>6 DEF AddPuller
  <2>2. QED BY <1>a, <1>b, <2>1
<1>7. ~ (\/ AddVolumes \/ AddMMDomainSocketMount \/ AddPassThroughPodFields \/ NoAdapter \/ SyncGracePeriod
         \/ AddModelTypeConstraints \/ ConfigureEtcdSecret \/ AddRESTProxy \/ ConfigureMetadata
         \/ EnsureMMContainerIsLast \/ ConfigureImagePullSecrets)
  BY DEF AddVolumes, AddMMDomainSocketMount, AddPassThroughPodFields, NoAdapter, SyncGracePeriod,
         AddModelTypeConstraints, ConfigureEtcdSecret, AddRESTProxy, ConfigureMetadata,
         EnsureMMContainerIsLast, ConfigureImagePullSecrets
<1>8. QED BY <1>1, <1>2, <1>3, <1>4, <1>5, <1>6, <1>7 DEF BuildNext

LEMMA NextDeployable ==
    /\ InputsInv /\ ClaimsInv /\ BuildInv /\ ValidInv /\ OutcomeInv /\ Deployable
    /\ [DeploymentNext]_deploymentVars
    => Deployable'
<1> SUFFICES ASSUME InputsInv, ClaimsInv, BuildInv, ValidInv, OutcomeInv, Deployable, [DeploymentNext]_deploymentVars
             PROVE  Deployable'
  OBVIOUS
<1>a. UNCHANGED <<rt, cfg>>
  BY InputsKept DEF inputs
<1>1. ASSUME pvcs' = pvcs, Excused PROVE Deployable'
  <2>1. Excused'
    BY <1>1, <1>a, ExcusedSame
  <2>2. QED BY <2>1 DEF Deployable
<1>2. CASE outcome \in Bad
  <2>1. phase = "ended" /\ outcome # "applied"
    BY <1>2 DEF OutcomeInv, Bad
  <2>2. ~ BuildNext
    BY <2>1, BuildIsStep DEF BuildStep, BuildSteps
  <2>3. UNCHANGED deploymentVars
    BY <2>1, <2>2, StepKinds
       DEF AtStep, Handle, Validate, GetPVCs, DeleteDeployment, Scale, ReadStorageEntry, ApplyManifest, ReconcileAgain
  <2>4. pvcs' = pvcs
    BY <2>3 DEF deploymentVars, found
  <2>5. Excused
    BY <1>2 DEF Deployable, Bad
  <2>6. QED BY <1>1, <2>4, <2>5
<1>3. CASE outcome' \notin Bad
  BY <1>3 DEF Deployable, Bad
<1>4. CASE outcome \notin Bad /\ outcome' \in Bad
  <2>1. BuildNext \/ ApplyManifest
    BY <1>4, StepKinds
       DEF Handle, Validate, GetPVCs, DeleteDeployment, Scale, ReadStorageEntry, ReconcileAgain, Proceed, Fail, Bad,
           deploymentVars
  <2>2. CASE BuildNext
    <3>1. pvcs' = pvcs
      BY <2>2, BuildIsStep DEF BuildStep, found
    <3>2. Excused
      BY <1>4, <2>2, FailExcused
    <3>3. QED BY <1>1, <3>1, <3>2
  <2>3. CASE ApplyManifest
    <3>1. phase = "apply" /\ ~ Accepts(pod) /\ pvcs' = pvcs
      BY <1>4, <2>3 DEF ApplyManifest, AtStep, Bad, found
    <3>2. PICK cs : cs = pvcs
      OBVIOUS
    <3>3. PICK b : BuiltAll(cs, b) /\ PodIs(cs, Adapted(cs, b))
      BY <3>1, <3>2 DEF BuildInv, LaterSteps
    <3>4. pod = ToApply(cs, Adapted(cs, b))
      BY <3>1, <3>3 DEF PodIs
    <3>5. Validated
      BY <3>1 DEF ValidInv
    <3>6. ~ Excused => Ready(cs)
      BY <3>2, <3>5, NotExcused
    <3>7. Excused
      BY <3>1, <3>3, <3>4, <3>6, Accepted
    <3>8. QED BY <1>1, <3>1, <3>7
  <2>4. QED BY <2>1, <2>2, <2>3
<1>5. QED BY <1>2, <1>3, <1>4

\* Deployable, for any runtime, any cluster and any number of containers, mounts, volumes and claims:
\* no step of Apply fails and the API server takes the deployment, unless for a reason that Excused
\* lists.  Container and volume names stay unique and every mount is of a volume that is there,
\* although containers share the array of the common mounts: with room for one mount they may
\* overwrite each other's, and none gets a mount twice (addRuntimeToDeployment, runtime.go).
THEOREM RuntimesDeployable == DeploymentSpec => []Deployable
<1> DEFINE Inv == InputsInv /\ OutcomeInv /\ ScaleInv /\ ClaimsInv /\ BuildInv /\ ValidInv /\ Deployable
<1>1. DeploymentInit => Inv
  <2> SUFFICES ASSUME DeploymentInit PROVE Inv
    OBVIOUS
  <2>1. pvcs = <<>> /\ phase = "admit" /\ outcome = "none" /\ scaler = NoHPA
    BY DEF DeploymentInit
  <2>2. ClaimsInv
    BY <2>1, EmptySeq DEF DeploymentInit, ClaimsInv, BuildSteps
  <2>3. BuildInv
    BY <2>1 DEF BuildInv, LaterSteps
  <2>4. OutcomeInv /\ ScaleInv /\ Deployable
    BY <2>1 DEF OutcomeInv, ScaleInv, Deployable
  <2>5. ValidInv
    BY <2>1 DEF ValidInv, IsInjective
  <2>6. QED BY <2>2, <2>3, <2>4, <2>5, InitInputs
<1>2. Inv /\ [DeploymentNext]_deploymentVars => Inv'
  <2> SUFFICES ASSUME Inv, [DeploymentNext]_deploymentVars PROVE Inv'
    OBVIOUS
  <2>1. InputsInv' /\ OutcomeInv' /\ ScaleInv' BY NextScale
  <2>2. ClaimsInv' BY NextClaims
  <2>3. BuildInv' BY NextBuild
  <2>4. ValidInv' BY NextValid
  <2>5. Deployable' BY NextDeployable
  <2>6. QED BY <2>1, <2>2, <2>3, <2>4, <2>5
<1>3. QED
  BY <1>1, <1>2, PTL DEF DeploymentSpec

-----------------------------------------------------------------------------
(* RuntimeScaling *)

USE ScalingAssumption

Phases == {"idle", "secret", "lookup", "hpa", "apply"}

-----------------------------------------------------------------------------
(* Types *)

\* A runtime's fields.
LEMMA RuntimeFields ==
    /\ NoRuntime.mode = "absent" /\ NoRuntime.class = "none" /\ NoRuntime.max \in Nat
    /\ \A r \in Runtimes \cup {NoRuntime} :
         /\ r.mode \in {"on", "off", "invalid", "absent"} /\ r.max \in Nat
         /\ r.class \in {"none", "hpa"}
         /\ r.mode = "absent" <=> r = NoRuntime
<1>1. NoRuntime.mode = "absent" /\ NoRuntime.class = "none" /\ NoRuntime.max = 0
  BY DEF NoRuntime
<1>2. QED BY <1>1

\* The fields of a reconcile in progress.
LEMMA WorkFields ==
    /\ Idle \in Works /\ Idle.phase = "idle" /\ Idle.requeue = {}
    /\ \A w \in Works : /\ w.phase \in Phases /\ w.ns \in BOOLEAN
                        /\ w.rt \in Runtimes \cup {NoRuntime}
                        /\ w.replicas \in Nat /\ w.requeue \in SUBSET (0..Grace)
BY DEF Idle, Works, Phases

\* A reconcile goes on to its next phase.
LEMMA GotoFields ==
    ASSUME NEW w \in Works, NEW p \in Phases
    PROVE  LET v == [w EXCEPT !.phase = p] IN
           /\ v \in Works /\ v.phase = p /\ v.ns = w.ns /\ v.rt = w.rt
           /\ v.replicas = w.replicas /\ v.requeue = w.requeue
BY DEF Works, Phases

\* The fields of an entry of runtimeInfoMap.
LEMMA InfoFields ==
    /\ NoInfo \in Infos /\ NoInfo.entry = "none"
    /\ \A i \in Infos : i.entry \in {"none", "busy", "idle"} /\ i.age \in 0..Grace
BY DEF NoInfo, Infos

\* What a reconcile makes of the entry (servingruntime_controller.go:496-522).
LEMMA InfoAfterFields ==
    ASSUME info \in Infos, NEW has \in BOOLEAN
    PROVE  /\ InfoAfter(has) \in Infos
           /\ has => InfoAfter(has).entry = "busy"
           /\ ~ has => InfoAfter(has).entry = "idle"
           /\ ~ has /\ info.entry = "none" => InfoAfter(has).age = Grace
           /\ ~ has /\ info.entry = "busy" => InfoAfter(has).age = 0
           /\ ~ has /\ info.entry = "idle" => InfoAfter(has) = info
<1>1. info.entry \in {"none", "busy", "idle"}
  BY InfoFields
<1>2. /\ [entry |-> "busy", age |-> 0] \in Infos /\ [entry |-> "idle", age |-> Grace] \in Infos
      /\ [entry |-> "idle", age |-> 0] \in Infos
  BY DEF Infos
<1>3. CASE has
  BY <1>2, <1>3 DEF InfoAfter
<1>4. CASE ~ has /\ info.entry = "none"
  BY <1>2, <1>4 DEF InfoAfter
<1>5. CASE ~ has /\ info.entry = "busy"
  BY <1>2, <1>5 DEF InfoAfter
<1>6. CASE ~ has /\ info.entry = "idle"
  BY <1>6 DEF InfoAfter
<1>7. QED BY <1>1, <1>3, <1>4, <1>5, <1>6

\* What determineReplicasAndRequeueDuration finds
\* (servingruntime_controller.go:456-528).
LEMMA Determined ==
    ASSUME TypeOK, DetermineReplicas
    PROVE  LET has == predCache # {}
               waits == ScaleToZero /\ ~ has
               after == InfoAfter(has) IN
           /\ work' \in Works
           /\ work'.phase = "hpa" /\ work'.ns /\ work'.rt = rtCache
           /\ work'.replicas = IF waits /\ after.age = Grace THEN 0 ELSE ScaledUp
           /\ work'.requeue = IF waits /\ after.age < Grace THEN {Grace - after.age} ELSE {}
           /\ after \in Infos /\ after.age \in 0..Grace
<1> DEFINE has == predCache # {}
           after == InfoAfter(has)
           waits == ScaleToZero /\ ~ has
           replicas == IF waits /\ after.age = Grace THEN 0 ELSE ScaledUp
           requeue == IF waits /\ after.age < Grace THEN {Grace - after.age} ELSE {}
<1>1. has \in BOOLEAN
  OBVIOUS
<1>2. after \in Infos /\ after.age \in 0..Grace
  BY <1>1, InfoAfterFields, InfoFields DEF TypeOK
<1> HIDE DEF after, has
<1>3. replicas \in Nat /\ requeue \in SUBSET (0..Grace)
  BY <1>2
<1>4. work' = [phase |-> "hpa", ns |-> TRUE, rt |-> rtCache, replicas |-> replicas, requeue |-> requeue]
  BY DEF DetermineReplicas, RequeueAfter, has, after
<1> HIDE DEF replicas, requeue
<1>5. work' \in Works /\ work'.phase = "hpa" /\ work'.ns /\ work'.rt = rtCache
      /\ work'.replicas = replicas /\ work'.requeue = requeue
  BY <1>3, <1>4 DEF TypeOK, Works
<1>6. QED BY <1>2, <1>5 DEF replicas, requeue, after, has

\* What ReconcileAutoscaler leaves: the reconcile ends, or goes on with replicas
\* that the HPA has decided on (servingruntime_controller.go:336-360).
LEMMA AutoscalerWork ==
    ASSUME TypeOK, ReconcileAutoscaler
    PROVE  /\ work' \in Works
           /\ \/ work' = Idle /\ queue' = TRUE /\ hpa' = hpa
              \/ /\ work'.phase = "apply" /\ work'.rt = work.rt /\ work'.ns = work.ns
                 /\ work'.requeue = work.requeue /\ work'.replicas > 0
                 /\ queue' = queue /\ hpa' \in Nat \cup {Absent}
<1>1. CASE depCache = Absent
  <2>1. work' = Idle /\ queue' = (queue \/ TRUE) /\ hpa' = hpa
    BY <1>1 DEF ReconcileAutoscaler, Return
  <2>2. QED BY <2>1, WorkFields
<1>2. CASE depCache # Absent
  <2> DEFINE replicas == IF depCache = 0 THEN MinReplicas ELSE depCache
  <2>1. replicas \in Nat /\ replicas > 0
    BY <1>2 DEF TypeOK, Absent
  <2>2. work' = [work EXCEPT !.phase = "apply", !.replicas = replicas] /\ UNCHANGED queue
    BY <1>2 DEF ReconcileAutoscaler
  <2> HIDE DEF replicas
  <2>3. /\ work' \in Works /\ work'.phase = "apply" /\ work'.rt = work.rt /\ work'.ns = work.ns
        /\ work'.requeue = work.requeue /\ work'.replicas = replicas
    BY <2>1, <2>2 DEF TypeOK, Works
  <2>4. hpa' \in Nat \cup {Absent}
    <3>1. MaxReplicas(work.rt) \in Nat
      BY RuntimeFields, WorkFields DEF MaxReplicas, TypeOK
    <3>2. hpa' = AutoscalerReconcile(FALSE)
      BY <1>2 DEF ReconcileAutoscaler
    <3>3. QED BY <3>1, <3>2 DEF AutoscalerReconcile, HPAReconcile, TypeOK
  <2>5. QED BY <2>1, <2>2, <2>3, <2>4
<1>3. QED BY <1>1, <1>2

\* The earlier of two delays, where there is one, is a delay.
LEMMA SoonerFields ==
    ASSUME NEW s, NEW t, OneDelay(s), OneDelay(t)
    PROVE  /\ OneDelay(Sooner(s, t)) /\ Sooner(s, t) \subseteq 0..Grace
           /\ s # {} \/ t # {} => Sooner(s, t) # {}
<1>1. PICK k \in 0..Grace : s \subseteq {k}
  BY DEF OneDelay
<1>2. PICK m \in 0..Grace : t \subseteq {m}
  BY DEF OneDelay
<1>3. CASE k <= m
  <2>1. s # {} => Sooner(s, t) = {k}
    BY <1>1, <1>2, <1>3 DEF Sooner
  <2>2. s = {} => Sooner(s, t) = t
    BY <1>1, <1>2 DEF Sooner
  <2>3. QED BY <1>2, <2>1, <2>2 DEF OneDelay
<1>4. CASE ~ (k <= m)
  <2>1. t # {} => Sooner(s, t) = {m}
    BY <1>1, <1>2, <1>4 DEF Sooner
  <2>2. t = {} => Sooner(s, t) = s
    BY <1>1, <1>2 DEF Sooner
  <2>3. QED BY <1>1, <2>1, <2>2 DEF OneDelay
<1>5. QED BY <1>3, <1>4

\* Every step keeps the types.
LEMMA NextType == TypeOK /\ TimeInv /\ [Next]_vars => TypeOK'
<1> SUFFICES ASSUME TypeOK, TimeInv, [Next]_vars PROVE TypeOK'
  OBVIOUS
<1> USE DEF apiVars, outVars, cacheVars, loopVars
<1>a. ASSUME NEW replicas \in Nat \cup {Absent}, SetDeployment(replicas)
      PROVE  /\ deployment' \in Nat \cup {Absent}
             /\ stale' \subseteq {"runtime", "namespace", "deployment"} \cup Predictors
  BY <1>a DEF SetDeployment, TypeOK
<1>b. Absent \in Int /\ Absent \notin Nat
  BY DEF Absent
<1>c. \A b \in BOOLEAN : Return(b) => work' \in Works /\ queue' \in BOOLEAN
  BY WorkFields DEF Return, TypeOK
<1>1. CASE Begin
  <2>1. work' = [Idle EXCEPT !.phase = "secret", !.ns = nsCache]
    BY <1>1 DEF Begin
  <2>2. work' \in Works
    BY <2>1 DEF Idle, Works, TypeOK
  <2>3. constraints' \in {"none", "default", "listed"}
    BY <1>1 DEF Begin, ConstraintData
  <2>4. QED BY <1>1, <2>2, <2>3 DEF Begin, Step, TypeOK
<1>2. CASE ReconcileSecret
  <2>1. work' \in Works
    BY <1>2, GotoFields DEF ReconcileSecret, Goto, Phases, TypeOK
  <2>2. secret' \in BOOLEAN
    BY <1>2 DEF ReconcileSecret
  <2>3. QED BY <1>2, <2>1, <2>2 DEF ReconcileSecret, Step, TypeOK
<1>3. CASE RuntimeNotFound
  <2>1. work' \in Works /\ queue' \in BOOLEAN
    BY <1>3, <1>c DEF RuntimeNotFound, RemoveRuntimeFromInfoMap
  <2>2. info' \in Infos /\ lastSeen' \in 0..Grace
    BY <1>3, InfoFields DEF RuntimeNotFound, RemoveRuntimeFromInfoMap
  <2>3. QED BY <1>3, <2>1, <2>2 DEF RuntimeNotFound, Step, TypeOK
<1>4. CASE RuntimeInvalid
  <2>1. work' \in Works /\ queue' \in BOOLEAN
    BY <1>4, <1>c DEF RuntimeInvalid
  <2>2. QED BY <1>4, <2>1 DEF RuntimeInvalid, Step, TypeOK
<1>5. CASE RuntimeOff
  <2>1. work' \in Works /\ queue' \in BOOLEAN
    BY <1>5, <1>c DEF RuntimeOff
  <2>2. /\ deployment' \in Nat \cup {Absent}
        /\ stale' \subseteq {"runtime", "namespace", "deployment"} \cup Predictors
    BY <1>5, <1>a DEF RuntimeOff
  <2>3. QED BY <1>5, <2>1, <2>2 DEF RuntimeOff, Step, TypeOK
<1>6. CASE DetermineReplicas
  <2>1. work' \in Works /\ InfoAfter(predCache # {}) \in Infos
    BY <1>6, Determined
  <2>2. info' \in Infos /\ lastSeen' \in 0..Grace
    BY <1>6, <2>1 DEF DetermineReplicas, TypeOK
  <2>3. QED BY <1>6, <2>1, <2>2 DEF DetermineReplicas, Step, TypeOK
<1>7. CASE ReconcileNoAutoscaler
  <2>1. work' \in Works
    BY <1>7, GotoFields DEF ReconcileNoAutoscaler, Goto, Phases, TypeOK
  <2>2. MaxReplicas(work.rt) \in Nat
    BY RuntimeFields, WorkFields DEF MaxReplicas, TypeOK
  <2>3. hpa' \in Nat \cup {Absent}
    BY <1>7, <2>2 DEF ReconcileNoAutoscaler, AutoscalerReconcile, HPAReconcile, TypeOK
  <2>4. QED BY <1>7, <2>1, <2>3 DEF ReconcileNoAutoscaler, Step, TypeOK
<1>8. CASE ReconcileAutoscaler
  <2>1. work' \in Works /\ queue' \in BOOLEAN /\ hpa' \in Nat \cup {Absent}
    BY <1>8, AutoscalerWork DEF TypeOK
  <2>2. QED BY <1>8, <2>1 DEF ReconcileAutoscaler, Step, TypeOK
<1>9. CASE Apply
  <2>1. work' \in Works /\ queue' \in BOOLEAN
    BY <1>9, <1>c DEF Apply
  <2>2. work.replicas \in Nat
    BY WorkFields DEF TypeOK
  <2>3. /\ deployment' \in Nat \cup {Absent}
        /\ stale' \subseteq {"runtime", "namespace", "deployment"} \cup Predictors
    BY <1>9, <1>a, <2>2 DEF Apply, TypeOK
  <2>4. timer' \subseteq 0..Grace
    BY <1>9, SoonerFields DEF Apply, TimeInv, TypeOK
  <2>5. QED BY <1>9, <2>1, <2>3, <2>4 DEF Apply, Step, TypeOK
<1>10. CASE CallFails
  <2>1. work' \in Works /\ queue' \in BOOLEAN
    BY <1>10, <1>c DEF CallFails
  <2>2. QED BY <1>10, <2>1 DEF CallFails, TypeOK
<1>11. CASE Restart
  <2>1. work' \in Works /\ info' \in Infos /\ queue' \in BOOLEAN
    BY <1>11, WorkFields, InfoFields DEF Restart
  <2>2. QED BY <1>11, <2>1 DEF Restart, TypeOK
<1>12. CASE TimerFires
  BY <1>12 DEF TimerFires, TypeOK
<1>13. CASE Tick
  <2>1. \A a \in 0..Grace : Older(a) \in 0..Grace
    BY DEF Older
  <2>2. info' \in Infos
    <3>1. [info EXCEPT !.age = Older(info.age)] \in Infos
      BY <2>1 DEF TypeOK, Infos
    <3>2. QED BY <1>13, <3>1 DEF Tick, TypeOK
  <2>3. lastSeen' \in 0..Grace
    BY <1>13, <2>1 DEF Tick, TypeOK
  <2>4. timer' \subseteq 0..Grace
    <3>1. timer' = {IF t > 0 THEN t - 1 ELSE 0 : t \in timer} /\ timer \subseteq 0..Grace
      BY <1>13 DEF Tick, TypeOK
    <3>2. \A t \in 0..Grace : (IF t > 0 THEN t - 1 ELSE 0) \in 0..Grace
      OBVIOUS
    <3>3. QED BY <3>1, <3>2
  <2>5. QED BY <1>13, <2>2, <2>3, <2>4 DEF Tick, TypeOK
<1>14. CASE RuntimeEvent
  BY <1>14 DEF RuntimeEvent, TypeOK
<1>15. CASE DeploymentEvent
  BY <1>15 DEF DeploymentEvent, TypeOK
<1>16. CASE NamespaceEvent
  <2>1. queue' \in BOOLEAN
    BY <1>16 DEF NamespaceEvent
  <2>2. QED BY <1>16, <2>1 DEF NamespaceEvent, TypeOK
<1>17. CASE PredictorEvent
  <2>1. PICK p \in Predictors :
          /\ stale' = stale \ {p}
          /\ predCache' = IF p \in predictors THEN predCache \cup {p} ELSE predCache \ {p}
          /\ queue' \in BOOLEAN
          /\ UNCHANGED <<apiVars, outVars, rtCache, nsCache, depCache, loopVars, work, writes, faults>>
    BY <1>17 DEF PredictorEvent
  <2>2. QED BY <2>1 DEF TypeOK
<1>18. CASE LabelNamespace
  <2>1. enabled' \in BOOLEAN /\ writes' \in 0..MaxWrites
    BY <1>18 DEF LabelNamespace, Write, TypeOK
  <2>2. QED BY <1>18, <2>1 DEF LabelNamespace, TypeOK
<1>19. CASE HPAScales
  <2>1. deployment' \in Nat
    BY <1>19 DEF HPAScales, TypeOK
  <2>2. QED BY <1>19, <2>1 DEF HPAScales, TypeOK
<1>20. CASE GarbageCollect
  BY <1>20 DEF GarbageCollect, CollectOwned, TypeOK
<1>21. ASSUME NEW p \in Predictors, AddPredictor(p) \/ RemovePredictor(p) PROVE TypeOK'
  BY <1>21 DEF AddPredictor, RemovePredictor, Write, TypeOK
<1>22. ASSUME NEW r \in Runtimes \cup {NoRuntime}, SetRuntime(r) PROVE TypeOK'
  <2>1. /\ deployment' \in Nat \cup {Absent} /\ hpa' \in Nat \cup {Absent}
        /\ stale' \subseteq {"runtime", "namespace", "deployment"} \cup Predictors
    BY <1>22 DEF SetRuntime, CollectOwned, TypeOK
  <2>2. QED BY <1>22, <2>1 DEF SetRuntime, Write, TypeOK
<1>23. CASE UNCHANGED vars
  BY <1>23 DEF vars, TypeOK
<1>24. QED
  BY <1>1, <1>2, <1>3, <1>4, <1>5, <1>6, <1>7, <1>8, <1>9, <1>10, <1>11, <1>12, <1>13, <1>14,
     <1>15, <1>16, <1>17, <1>18, <1>19, <1>20, <1>21, <1>22, <1>23 DEF Next, Reconcile

-----------------------------------------------------------------------------
(* The informers' copies *)

\* Every write of a watched object leaves an event to come.
LEMMA NextCaches == TypeOK /\ CachesInv /\ [Next]_vars => CachesInv'
<1> SUFFICES ASSUME TypeOK, CachesInv, [Next]_vars PROVE CachesInv'
  OBVIOUS
<1> USE DEF apiVars, outVars, cacheVars, loopVars
\* Steps that touch no watched object but the deployment.
<1>a. ASSUME UNCHANGED <<apiVars, cacheVars>>, stale \subseteq stale',
             deployment' = deployment \/ "deployment" \in stale'
      PROVE  CachesInv'
  BY <1>a DEF CachesInv
<1>1. CASE Reconcile
  <2>1. UNCHANGED <<apiVars, cacheVars>>
    BY <1>1 DEF Reconcile, Begin, ReconcileSecret, RuntimeNotFound, RuntimeInvalid, RuntimeOff,
          DetermineReplicas, ReconcileNoAutoscaler, ReconcileAutoscaler, Apply, Step
  <2>2. stale \subseteq stale' /\ (deployment' = deployment \/ "deployment" \in stale')
    BY <1>1 DEF Reconcile, Begin, ReconcileSecret, RuntimeNotFound, RuntimeInvalid, RuntimeOff,
          DetermineReplicas, ReconcileNoAutoscaler, ReconcileAutoscaler, Apply, SetDeployment
  <2>3. QED BY <1>a, <2>1, <2>2
<1>2. CASE CallFails \/ TimerFires \/ Tick
  BY <1>2, <1>a DEF CallFails, TimerFires, Tick
<1>3. CASE Restart
  BY <1>3 DEF Restart, CachesInv
<1>4. CASE RuntimeEvent
  BY <1>4 DEF RuntimeEvent, CachesInv
<1>5. CASE DeploymentEvent
  BY <1>5 DEF DeploymentEvent, CachesInv
<1>6. CASE NamespaceEvent
  BY <1>6 DEF NamespaceEvent, CachesInv
<1>7. CASE PredictorEvent
  BY <1>7 DEF PredictorEvent, CachesInv
<1>8. CASE LabelNamespace
  BY <1>8 DEF LabelNamespace, CachesInv
<1>9. CASE HPAScales \/ GarbageCollect
  BY <1>9, <1>a DEF HPAScales, GarbageCollect
<1>10. ASSUME NEW p \in Predictors, AddPredictor(p) \/ RemovePredictor(p) PROVE CachesInv'
  BY <1>10 DEF AddPredictor, RemovePredictor, CachesInv
<1>11. ASSUME NEW r \in Runtimes \cup {NoRuntime}, SetRuntime(r) PROVE CachesInv'
  BY <1>11 DEF SetRuntime, CachesInv
<1>12. CASE UNCHANGED vars
  BY <1>12, <1>a DEF vars
<1>13. QED
  BY <1>1, <1>2, <1>3, <1>4, <1>5, <1>6, <1>7, <1>8, <1>9, <1>10, <1>11, <1>12 DEF Next

-----------------------------------------------------------------------------
(* The grace period *)

\* Every step keeps TimeInv: the entry and the last sight of a Predictor age
\* together, and a reconcile that finds Predictors makes the entry busy.
LEMMA NextTime == TypeOK /\ TimeInv /\ [Next]_vars => TimeInv'
<1> SUFFICES ASSUME TypeOK, TimeInv, [Next]_vars PROVE TimeInv'
  OBVIOUS
<1> USE DEF apiVars, outVars, cacheVars, loopVars
<1>0. OneDelay({})
  BY DEF OneDelay
\* Steps that end a reconcile, or leave it as it is.
<1>a. ASSUME UNCHANGED <<info, lastSeen>>, work' = work \/ work' = Idle, OneDelay(timer')
      PROVE  TimeInv'
  BY <1>a, <1>0, WorkFields DEF TimeInv, At
<1>b. ASSUME info' = NoInfo, lastSeen' = Grace, work' = Idle, OneDelay(timer')
      PROVE  TimeInv'
  BY <1>b, <1>0, WorkFields, InfoFields DEF TimeInv, At
<1>1. CASE Begin
  <2>1. work' = [Idle EXCEPT !.phase = "secret", !.ns = nsCache]
    BY <1>1 DEF Begin
  <2>2. work'.phase = "secret" /\ work'.requeue = {}
    BY <2>1 DEF Idle
  <2>3. QED BY <1>0, <1>1, <2>2 DEF Begin, TimeInv, At
<1>2. CASE ReconcileSecret
  <2>1. work'.phase = "lookup" /\ work'.requeue = work.requeue
    BY <1>2, GotoFields DEF ReconcileSecret, Goto, Phases, TypeOK
  <2>2. QED BY <1>2, <2>1 DEF ReconcileSecret, TimeInv, At
<1>3. CASE RuntimeNotFound
  BY <1>3, <1>b DEF RuntimeNotFound, RemoveRuntimeFromInfoMap, Return, TimeInv
<1>4. CASE RuntimeInvalid \/ RuntimeOff
  BY <1>4, <1>a DEF RuntimeInvalid, RuntimeOff, Return, TimeInv
<1>5. CASE DetermineReplicas
  <2> DEFINE has == predCache # {}
             waits == ScaleToZero /\ ~ has
             after == InfoAfter(has)
  <2>1. /\ work'.phase = "hpa"
        /\ work'.replicas = IF waits /\ after.age = Grace THEN 0 ELSE ScaledUp
        /\ work'.requeue = IF waits /\ after.age < Grace THEN {Grace - after.age} ELSE {}
        /\ after \in Infos /\ after.age \in 0..Grace
    BY <1>5, Determined
  <2>2. /\ info' = IF ScaleToZero THEN after ELSE info
        /\ lastSeen' = IF has THEN 0 ELSE lastSeen
        /\ UNCHANGED timer
    BY <1>5 DEF DetermineReplicas
  <2>3. /\ has => after.entry = "busy"
        /\ ~ has => after.entry = "idle"
        /\ ~ has /\ info.entry = "none" => after.age = Grace
        /\ ~ has /\ info.entry = "busy" => after.age = 0
        /\ ~ has /\ info.entry = "idle" => after = info
    <3>1. has \in BOOLEAN
      OBVIOUS
    <3>2. QED BY <3>1, InfoAfterFields DEF TypeOK
  <2>4. info.entry \in {"none", "busy", "idle"} /\ info.age \in 0..Grace /\ lastSeen \in 0..Grace
    BY InfoFields DEF TypeOK
  <2> HIDE DEF after, has
  <2>5. ScaleToZero /\ ~ has => after.age <= lastSeen
    BY <2>3, <2>4 DEF TimeInv
  <2>6. IF ScaleToZero THEN info'.entry = "none" => lastSeen' = Grace ELSE info'.entry = "none"
    BY <2>2, <2>3 DEF TimeInv
  <2>7. info'.entry = "idle" => info'.age <= lastSeen'
    <3>1. CASE ScaleToZero
      BY <2>2, <2>3, <2>5, <3>1
    <3>2. CASE ~ ScaleToZero
      BY <2>2, <3>2 DEF TimeInv
    <3>3. QED BY <3>1, <3>2
  <2>8. work'.replicas = 0 => lastSeen' = Grace
    BY <2>1, <2>2, <2>4, <2>5
  <2>9. OneDelay(work'.requeue)
    <3>1. CASE waits /\ after.age < Grace
      <4>1. Grace - after.age \in 0..Grace /\ work'.requeue = {Grace - after.age}
        BY <2>1, <3>1
      <4>2. QED BY <4>1 DEF OneDelay
    <3>2. CASE ~ (waits /\ after.age < Grace)
      BY <1>0, <2>1, <3>2
    <3>3. QED BY <3>1, <3>2
  <2>10. OneDelay(timer')
    BY <2>2 DEF TimeInv
  <2>11. QED BY <2>6, <2>7, <2>8, <2>9, <2>10 DEF TimeInv
<1>6. CASE ReconcileNoAutoscaler
  <2>1. work'.phase = "apply" /\ work'.requeue = work.requeue /\ work'.replicas = work.replicas
    BY <1>6, GotoFields DEF ReconcileNoAutoscaler, Goto, Phases, TypeOK
  <2>2. QED BY <1>6, <2>1 DEF ReconcileNoAutoscaler, Step, TimeInv, At
<1>7. CASE ReconcileAutoscaler
  <2>1. UNCHANGED <<info, lastSeen, timer>>
    BY <1>7 DEF ReconcileAutoscaler
  <2>2. CASE work' = Idle
    BY <1>a, <2>1, <2>2 DEF TimeInv
  <2>3. CASE work'.requeue = work.requeue /\ work'.replicas > 0
    BY <2>1, <2>3 DEF TimeInv
  <2>4. QED BY <1>7, <2>2, <2>3, AutoscalerWork
<1>8. CASE Apply
  <2>1. OneDelay(timer')
    BY <1>8, SoonerFields DEF Apply, TimeInv
  <2>2. QED BY <1>8, <1>a, <2>1 DEF Apply, Return
<1>9. CASE CallFails
  BY <1>9, <1>a DEF CallFails, Return, TimeInv
<1>10. CASE Restart
  BY <1>10, <1>0, <1>b DEF Restart
<1>11. CASE TimerFires
  BY <1>11, <1>0, <1>a DEF TimerFires
<1>12. CASE Tick
  <2>1. OneDelay(timer')
    <3>1. PICK k \in 0..Grace : timer \subseteq {k}
      BY DEF TimeInv, OneDelay
    <3>2. timer' = {IF t > 0 THEN t - 1 ELSE 0 : t \in timer}
      BY <1>12 DEF Tick
    <3>3. (IF k > 0 THEN k - 1 ELSE 0) \in 0..Grace
      BY <3>1
    <3>4. timer' \subseteq {IF k > 0 THEN k - 1 ELSE 0}
      BY <3>1, <3>2
    <3>5. QED BY <3>3, <3>4 DEF OneDelay
  <2>2. info.age \in 0..Grace /\ lastSeen \in 0..Grace
    BY InfoFields DEF TypeOK
  <2>3. /\ lastSeen' = Older(lastSeen)
        /\ info'.entry = info.entry
        /\ info.entry = "idle" => info'.age = Older(info.age)
    <3>1. CASE info.entry = "idle"
      <4>1. info' = [info EXCEPT !.age = Older(info.age)]
        BY <1>12, <3>1 DEF Tick
      <4>2. QED BY <1>12, <4>1 DEF Tick, TypeOK, Infos
    <3>2. CASE info.entry # "idle"
      BY <1>12, <3>2 DEF Tick
    <3>3. QED BY <3>1, <3>2
  <2>4. /\ IF ScaleToZero THEN info'.entry = "none" => lastSeen' = Grace ELSE info'.entry = "none"
        /\ info'.entry = "idle" => info'.age <= lastSeen'
    BY <2>2, <2>3 DEF TimeInv, Older
  <2>5. UNCHANGED work
    BY <1>12 DEF Tick
  <2>6. (At("hpa") \/ At("apply"))' /\ work'.replicas = 0 => lastSeen' = Grace
    BY <2>2, <2>3, <2>5 DEF TimeInv, Older, At
  <2>7. QED BY <2>1, <2>4, <2>5, <2>6 DEF TimeInv
<1>13. CASE UNCHANGED <<info, lastSeen, timer, work>>
  BY <1>13, <1>a DEF TimeInv
<1>14. QED
  BY <1>1, <1>2, <1>3, <1>4, <1>5, <1>6, <1>7, <1>8, <1>9, <1>10, <1>11, <1>12, <1>13
     DEF Next, Reconcile, RuntimeEvent, DeploymentEvent, NamespaceEvent, PredictorEvent,
         LabelNamespace, HPAScales, GarbageCollect, AddPredictor, RemovePredictor, SetRuntime, vars

-----------------------------------------------------------------------------
(* What a reconcile has read and what it leaves *)

\* A step that puts the runtime into the queue, or that changes nothing that the
\* reconcile has read and written, keeps both invariants.
LEMMA Undisturbed ==
    ASSUME IdleInv, WorkInv, faults \in Nat, faults' \in Nat, faults <= faults',
           ~ queue' => /\ ~ queue
                       /\ UNCHANGED <<rtCache, nsCache, predCache, constraints, secret, work>>
                       /\ timer # {} => timer' # {}
                       /\ deployment' = deployment \/ "deployment" \in stale'
                       /\ "deployment" \in stale => "deployment" \in stale'
    PROVE  IdleInv' /\ WorkInv'
<1>1. CASE queue'
  BY <1>1 DEF IdleInv, WorkInv
<1>2. CASE ~ queue'
  <2>1. /\ ConstraintData' = ConstraintData /\ ConfigFits' = ConfigFits
        /\ \A p : At(p)' = At(p)
    BY <1>2 DEF ConstraintData, ConfigFits, At
  <2>2. WorkInv'
    BY <1>2, <2>1 DEF WorkInv, ScaleFits
  <2>3. IdleInv'
    BY <1>2, <2>1 DEF IdleInv, ScaleFits
  <2>4. QED BY <2>2, <2>3
<1>3. QED BY <1>1, <1>2

\* Users, other controllers, events and time.
LEMMA EnvironmentWork ==
    TypeOK /\ IdleInv /\ WorkInv /\ TimeInv /\ [Next]_vars /\ ~ Reconcile => IdleInv' /\ WorkInv'
<1> SUFFICES ASSUME TypeOK, IdleInv, WorkInv, TimeInv, [Next]_vars, ~ Reconcile
             PROVE  IdleInv' /\ WorkInv'
  OBVIOUS
<1> USE DEF apiVars, outVars, cacheVars, loopVars
<1>0. faults \in Nat /\ queue \in BOOLEAN
  BY DEF TypeOK
<1>1. CASE CallFails
  <2>1. queue' /\ faults' = faults + 1
    BY <1>1, <1>0 DEF CallFails, Return
  <2>2. QED BY <1>0, <2>1, Undisturbed
<1>2. CASE Restart
  <2>1. faults' > 0 /\ rtCache' = runtime /\ work' = Idle /\ queue' = (runtime # NoRuntime)
    BY <1>0, <1>2 DEF Restart
  <2>2. CASE queue'
    BY <2>2 DEF IdleInv, WorkInv
  <2>3. CASE ~ queue'
    <3>1. rtCache' = NoRuntime /\ rtCache'.mode = "absent"
      BY <2>1, <2>3, RuntimeFields
    <3>2. At("idle")' /\ ~ At("secret")' /\ ~ At("lookup")' /\ ~ At("hpa")' /\ ~ At("apply")'
      BY <2>1, WorkFields DEF At
    <3>3. QED BY <2>1, <3>1, <3>2 DEF IdleInv, WorkInv
  <2>4. QED BY <2>2, <2>3
<1>3. CASE TimerFires \/ RuntimeEvent \/ DeploymentEvent
  BY <1>0, <1>3, Undisturbed DEF TimerFires, RuntimeEvent, DeploymentEvent
<1>4. CASE Tick
  <2>1. timer # {} => timer' # {}
    BY <1>4 DEF Tick
  <2>2. QED BY <1>0, <1>4, <2>1, Undisturbed DEF Tick
<1>5. CASE NamespaceEvent
  <2>1. CASE queue'
    BY <2>1 DEF IdleInv, WorkInv
  <2>2. CASE ~ queue'
    <3>1. /\ ~ queue /\ rtCache = NoRuntime
          /\ UNCHANGED <<rtCache, predCache, constraints, secret, work, timer, deployment, faults>>
      BY <1>5, <2>2 DEF NamespaceEvent, RequestsForRuntimes
    <3>2. /\ ConstraintData' = ConstraintData /\ ConfigFits' = ConfigFits /\ rtCache.mode = "absent"
          /\ \A p : At(p)' = At(p)
      BY <3>1, RuntimeFields DEF ConstraintData, ConfigFits, At
    <3>3. IdleInv'
      BY <3>1, <3>2 DEF IdleInv
    <3>4. WorkInv'
      BY <3>1, <3>2 DEF WorkInv
    <3>5. QED BY <3>3, <3>4
  <2>3. QED BY <2>1, <2>2
<1>6. CASE PredictorEvent
  <2>1. CASE queue'
    BY <2>1 DEF IdleInv, WorkInv
  <2>2. CASE ~ queue'
    <3>1. /\ ~ queue
          /\ rtCache = NoRuntime \/ (PluginPredictors # {} /\ predCache' \subseteq predCache)
          /\ UNCHANGED <<rtCache, nsCache, constraints, secret, work, timer, deployment, faults>>
          /\ "deployment" \in stale <=> "deployment" \in stale'
      BY <1>6, <2>2 DEF PredictorEvent, RuntimeRequestsForPredictor
    <3>2. /\ ConstraintData' = ConstraintData /\ ConfigFits' = ConfigFits /\ NoRuntime.mode = "absent"
          /\ \A p : At(p)' = At(p)
      BY <3>1, RuntimeFields DEF ConstraintData, ConfigFits, At
    <3>3. IdleInv'
      BY <3>1, <3>2 DEF IdleInv, ScaleFits
    <3>4. WorkInv'
      BY <3>1, <3>2 DEF WorkInv, ScaleFits
    <3>5. QED BY <3>3, <3>4
  <2>3. QED BY <2>1, <2>2
<1>7. CASE LabelNamespace \/ HPAScales \/ GarbageCollect
  BY <1>0, <1>7, Undisturbed DEF LabelNamespace, HPAScales, GarbageCollect
<1>8. ASSUME NEW p \in Predictors, AddPredictor(p) \/ RemovePredictor(p)
      PROVE  IdleInv' /\ WorkInv'
  BY <1>0, <1>8, Undisturbed DEF AddPredictor, RemovePredictor
<1>9. ASSUME NEW r \in Runtimes \cup {NoRuntime}, SetRuntime(r)
      PROVE  IdleInv' /\ WorkInv'
  <2>1. /\ UNCHANGED <<rtCache, nsCache, predCache, constraints, secret, work, timer, queue, faults>>
        /\ deployment' = deployment \/ "deployment" \in stale'
        /\ stale \subseteq stale'
    BY <1>9 DEF SetRuntime
  <2>2. QED BY <1>0, <2>1, Undisturbed
<1>10. CASE UNCHANGED vars
  BY <1>0, <1>10, Undisturbed DEF vars
<1>11. QED
  BY <1>1, <1>2, <1>3, <1>4, <1>5, <1>6, <1>7, <1>8, <1>9, <1>10 DEF Next

\* The reconcile itself: what it writes fits what it has read, and at its end it
\* has written all of it (servingruntime_controller.go:90-335).
LEMMA ReconcileWork ==
    TypeOK /\ CachesInv /\ IdleInv /\ WorkInv /\ TimeInv /\ Reconcile => IdleInv' /\ WorkInv'
<1> SUFFICES ASSUME TypeOK, CachesInv, IdleInv, WorkInv, TimeInv, Reconcile
             PROVE  IdleInv' /\ WorkInv'
  OBVIOUS
<1> USE DEF apiVars, outVars, cacheVars, loopVars
<1>z. UNCHANGED <<rtCache, nsCache, predCache, faults>>
  BY DEF Reconcile, Begin, ReconcileSecret, RuntimeNotFound, RuntimeInvalid, RuntimeOff,
         DetermineReplicas, ReconcileNoAutoscaler, ReconcileAutoscaler, Apply, Step
<1>0. UNCHANGED <<predCache, nsCache, rtCache, faults>> /\ ConstraintData' = ConstraintData
  BY <1>z DEF ConstraintData
<1>a. ASSUME queue' PROVE IdleInv' /\ WorkInv'
  BY <1>a DEF IdleInv, WorkInv
<1>b. rtCache \in Runtimes \cup {NoRuntime} /\ queue \in BOOLEAN
  BY DEF TypeOK
\* The end of a reconcile.
<1>c. ASSUME ~ queue', work' = Idle, ConfigFits, UNCHANGED <<constraints, secret>>,
             "deployment" \notin stale' =>
               /\ rtCache.mode = "on" /\ nsCache => ScaleFits(deployment', timer')
               /\ rtCache.mode = "off" \/ (rtCache.mode = "on" /\ ~ nsCache) => deployment' = Absent
      PROVE  IdleInv' /\ WorkInv'
  <2>1. At("idle")' /\ ~ At("secret")' /\ ~ At("lookup")' /\ ~ At("hpa")' /\ ~ At("apply")'
    BY <1>c, WorkFields DEF At
  <2>2. ConfigFits'
    BY <1>0, <1>c DEF ConfigFits
  <2>3. WorkInv'
    BY <2>1 DEF WorkInv
  <2>4. IdleInv'
    BY <1>0, <1>c, <2>1, <2>2 DEF IdleInv, ScaleFits
  <2>5. QED BY <2>3, <2>4
<1>1. CASE Begin
  <2>1. /\ ~ queue' /\ constraints' = ConstraintData
        /\ work' = [Idle EXCEPT !.phase = "secret", !.ns = nsCache]
    BY <1>1 DEF Begin
  <2>2. work'.phase = "secret" /\ work'.ns = nsCache
    BY <2>1 DEF Idle
  <2>3. At("secret")' /\ ~ At("idle")' /\ ~ At("lookup")' /\ ~ At("hpa")' /\ ~ At("apply")'
    BY <2>2 DEF At
  <2>4. QED BY <1>0, <2>1, <2>2, <2>3 DEF IdleInv, WorkInv
<1>2. CASE ReconcileSecret
  <2>1. work'.phase = "lookup" /\ work'.ns = work.ns
    BY <1>2, GotoFields DEF ReconcileSecret, Goto, Phases, TypeOK
  <2>2. At("lookup")' /\ ~ At("idle")' /\ ~ At("secret")' /\ ~ At("hpa")' /\ ~ At("apply")'
    BY <2>1 DEF At
  <2>3. At("secret") /\ UNCHANGED <<queue, constraints>> /\ secret' = (constraints # "none")
    BY <1>2 DEF ReconcileSecret, Step
  <2>4. ASSUME ~ queue' PROVE ConfigFits' /\ (rtCache = NoRuntime \/ work'.ns = nsCache)
    BY <1>0, <2>1, <2>3, <2>4 DEF WorkInv, ConfigFits
  <2>5. QED BY <1>0, <2>2, <2>3, <2>4 DEF IdleInv, WorkInv
<1>3. CASE RuntimeNotFound
  <2>1. /\ At("lookup") /\ rtCache = NoRuntime /\ work' = Idle /\ UNCHANGED <<stale, constraints, secret>>
        /\ queue' = queue
    BY <1>3, <1>b DEF RuntimeNotFound, RemoveRuntimeFromInfoMap, Return, Step
  <2>2. rtCache.mode = "absent"
    BY <2>1, RuntimeFields
  <2>3. ASSUME ~ queue' PROVE ConfigFits
    BY <2>1, <2>3 DEF WorkInv
  <2>4. QED BY <1>a, <1>c, <2>1, <2>2, <2>3
<1>4. CASE RuntimeInvalid
  BY <1>4, <1>a DEF RuntimeInvalid, Return
<1>5. CASE RuntimeOff
  <2>1. /\ At("lookup") /\ work' = Idle /\ UNCHANGED <<constraints, secret>>
        /\ queue' = queue /\ deployment' = Absent
        /\ rtCache.mode = "off" \/ (rtCache.mode = "on" /\ ~ work.ns)
    BY <1>5, <1>b DEF RuntimeOff, Return, Step, SetDeployment
  <2>2. rtCache # NoRuntime
    BY <2>1, RuntimeFields
  <2>3. ASSUME ~ queue' PROVE ConfigFits /\ work.ns = nsCache
    BY <2>1, <2>2, <2>3 DEF WorkInv
  <2>4. QED BY <1>a, <1>c, <2>1, <2>3
<1>6. CASE DetermineReplicas
  <2>1. /\ At("lookup") /\ rtCache.mode = "on" /\ work.ns /\ UNCHANGED <<queue, constraints, secret>>
    BY <1>6 DEF DetermineReplicas, Step
  <2> DEFINE after == InfoAfter(predCache # {})
             waits == ScaleToZero /\ predCache = {}
  <2>2. /\ work'.phase = "hpa" /\ work'.rt = rtCache
        /\ work'.replicas = IF waits /\ after.age = Grace THEN 0 ELSE ScaledUp
        /\ work'.requeue = IF waits /\ after.age < Grace THEN {Grace - after.age} ELSE {}
        /\ after.age \in 0..Grace
    BY <1>6, Determined
  <2> HIDE DEF after
  <2>3. ScaleFits(work'.replicas, work'.requeue)
    BY <2>2 DEF ScaleFits
  <2>4. At("hpa")' /\ ~ At("idle")' /\ ~ At("lookup")' /\ ~ At("secret")' /\ ~ At("apply")'
    BY <2>2 DEF At
  <2>5. rtCache # NoRuntime
    BY <2>1, RuntimeFields
  <2>6. ASSUME ~ queue' PROVE ConfigFits' /\ nsCache
    BY <1>0, <2>1, <2>5, <2>6 DEF WorkInv, ConfigFits
  <2>7. QED BY <1>0, <2>1, <2>2, <2>3, <2>4, <2>6 DEF IdleInv, WorkInv, ScaleFits
<1>7. CASE ReconcileNoAutoscaler
  <2>1. /\ work'.phase = "apply" /\ work'.rt = work.rt /\ work'.replicas = work.replicas
        /\ work'.requeue = work.requeue
    BY <1>7, GotoFields DEF ReconcileNoAutoscaler, Goto, Phases, TypeOK
  <2>2. At("hpa") /\ UNCHANGED <<queue, constraints, secret>>
    BY <1>7 DEF ReconcileNoAutoscaler, Step
  <2>3. At("apply")' /\ ~ At("idle")' /\ ~ At("lookup")' /\ ~ At("secret")' /\ ~ At("hpa")'
    BY <2>1 DEF At
  <2>4. QED BY <1>0, <2>1, <2>2, <2>3 DEF IdleInv, WorkInv, ScaleFits, ConfigFits
<1>8. CASE ReconcileAutoscaler
  <2>1. At("hpa") /\ Autoscaled /\ UNCHANGED <<constraints, secret>>
    BY <1>8 DEF ReconcileAutoscaler, Step
  <2>2. CASE queue'
    BY <1>a, <2>2
  <2>3. CASE /\ work'.phase = "apply" /\ work'.rt = work.rt
             /\ work'.requeue = work.requeue /\ work'.replicas > 0 /\ queue' = queue
    <3>1. At("apply")' /\ ~ At("idle")' /\ ~ At("lookup")' /\ ~ At("secret")' /\ ~ At("hpa")'
      BY <2>3 DEF At
    <3>2. ASSUME ~ queue' PROVE ScaleFits(work'.replicas, work'.requeue) /\ ConfigFits'
      BY <1>0, <2>1, <2>3, <3>2 DEF WorkInv, ScaleFits, Autoscaled, ConfigFits
    <3>3. QED BY <1>0, <2>1, <2>3, <3>1, <3>2 DEF IdleInv, WorkInv, ScaleFits
  <2>4. QED BY <1>8, <2>2, <2>3, AutoscalerWork
<1>9. CASE Apply
  <2>1. At("apply") /\ work' = Idle /\ UNCHANGED <<constraints, secret>>
    BY <1>9 DEF Apply, Step, Return
  <2>2. CASE "deployment" \in stale
    BY <1>9, <1>a, <2>2 DEF Apply, Return
  <2>3. CASE "deployment" \notin stale /\ ~ queue'
    <3>1. /\ queue' = queue /\ deployment' = work.replicas
          /\ timer' = Sooner(timer, work.requeue)
      BY <1>9, <1>b, <2>3 DEF Apply, Return, SetDeployment
    <3>2. work.requeue # {} => timer' # {}
      BY <3>1, SoonerFields DEF TimeInv
    <3>3. /\ ConfigFits /\ rtCache.mode = "on" /\ nsCache /\ ScaleFits(work.replicas, work.requeue)
      BY <2>1, <2>3, <3>1 DEF WorkInv
    <3>4. ScaleFits(deployment', timer')
      BY <3>1, <3>2, <3>3 DEF ScaleFits
    <3>5. QED BY <1>c, <2>1, <2>3, <3>3, <3>4
  <2>4. QED BY <1>a, <2>2, <2>3
<1>10. QED
  BY <1>1, <1>2, <1>3, <1>4, <1>5, <1>6, <1>7, <1>8, <1>9 DEF Reconcile

-----------------------------------------------------------------------------
(* The theorems *)

\* A controller that starts has nothing to do until it hears of the runtime.
LEMMA InitScaling == Init => TypeOK /\ ScalingInv
<1> SUFFICES ASSUME Init PROVE TypeOK /\ ScalingInv
  OBVIOUS
<1>1. /\ rtCache = NoRuntime /\ nsCache = TRUE /\ enabled = TRUE /\ predCache = {}
      /\ deployment = Absent /\ depCache = Absent /\ timer = {} /\ work = Idle /\ queue = FALSE
      /\ constraints = "none" /\ secret = FALSE /\ info = NoInfo /\ lastSeen = Grace
      /\ stale = predictors \cup (IF runtime = NoRuntime THEN {} ELSE {"runtime"})
      /\ predictors \subseteq Predictors
  BY DEF Init
<1>2. TypeOK
  <2>1. /\ runtime \in Runtimes \cup {NoRuntime} /\ hpa = Absent /\ writes = 0 /\ faults = 0
    BY DEF Init
  <2>2. work \in Works /\ info \in Infos
    BY <1>1, WorkFields, InfoFields
  <2>3. /\ stale \subseteq {"runtime", "namespace", "deployment"} \cup Predictors
        /\ timer \subseteq 0..Grace /\ lastSeen \in 0..Grace /\ writes \in 0..MaxWrites
        /\ faults \in 0..MaxFaults
    BY <1>1, <2>1
  <2>4. rtCache \in Runtimes \cup {NoRuntime} /\ predCache \subseteq Predictors
    BY <1>1
  <2>5. enabled \in BOOLEAN /\ nsCache \in BOOLEAN /\ secret \in BOOLEAN /\ queue \in BOOLEAN
    BY <1>1
  <2>6. QED BY <1>1, <2>1, <2>2, <2>3, <2>4, <2>5 DEF TypeOK
<1>3. CachesInv
  BY <1>1 DEF CachesInv
<1>4. /\ At("idle") /\ ~ At("secret") /\ ~ At("lookup") /\ ~ At("hpa") /\ ~ At("apply")
  BY <1>1, WorkFields DEF At
<1>5. ConfigFits
  BY <1>1 DEF ConfigFits, ConstraintData
<1>6. IdleInv /\ WorkInv
  BY <1>1, <1>4, <1>5, RuntimeFields DEF IdleInv, WorkInv
<1>7. OneDelay(timer) /\ OneDelay(work.requeue)
  BY <1>1, WorkFields DEF OneDelay
<1>8. info.entry = "none"
  BY <1>1, InfoFields
<1>9. TimeInv
  BY <1>1, <1>4, <1>7, <1>8 DEF TimeInv
<1>10. QED BY <1>2, <1>3, <1>6, <1>9 DEF ScalingInv

LEMMA NextScaling == TypeOK /\ ScalingInv /\ [Next]_vars => TypeOK' /\ ScalingInv'
<1> SUFFICES ASSUME TypeOK, ScalingInv, [Next]_vars PROVE TypeOK' /\ ScalingInv'
  OBVIOUS
<1>1. CachesInv /\ IdleInv /\ WorkInv /\ TimeInv
  BY DEF ScalingInv
<1>2. TypeOK' /\ CachesInv' /\ TimeInv'
  BY <1>1, NextType, NextCaches, NextTime
<1>3. CASE Reconcile
  BY <1>1, <1>2, <1>3, ReconcileWork DEF ScalingInv
<1>4. CASE ~ Reconcile
  BY <1>1, <1>2, <1>4, EnvironmentWork DEF ScalingInv
<1>5. QED BY <1>3, <1>4

\* What the controller has written fits what its caches hold, or there is a
\* request, an event or a delayed request that will have it look again
\* (servingruntime_controller.go:90-335).
THEOREM ScalingInvariant == Spec => [](TypeOK /\ ScalingInv)
<1>1. QED BY InitScaling, NextScaling, PTL DEF Spec

\* SettledScale, where no Predictor comes from a plug-in source: whatever a
\* reconcile reads before the Predictors, the runtime or the deployment change
\* again, a controller with nothing left to do has given the runtime pods if it has
\* Predictors, none or a delayed request if not, and no deployment if it is off
\* (servingruntime_controller.go:264-334, 456-528, 660-705).
THEOREM ScaleSettles == Spec => [](PluginPredictors = {} => SettledScale)
<1>1. ASSUME TypeOK, ScalingInv PROVE PluginPredictors = {} => SettledScale
  <2> SUFFICES ASSUME PluginPredictors = {}, Settled
               PROVE  /\ Active /\ predictors # {} => deployment > 0
                      /\ Active /\ predictors = {} /\ ScaleToZero => deployment = 0 \/ timer # {}
                      /\ ~ Active /\ runtime.mode # "invalid" => deployment = Absent
    BY DEF SettledScale
  <2>1. /\ At("idle") /\ ~ queue /\ stale = {} /\ ~ Orphaned
    BY DEF Settled
  <2>2. rtCache = runtime /\ nsCache = enabled /\ predCache = predictors
    BY <1>1, <2>1 DEF ScalingInv, CachesInv, TypeOK
  <2>3. /\ rtCache.mode = "on" /\ nsCache => ScaleFits(deployment, timer)
        /\ rtCache.mode = "off" \/ (rtCache.mode = "on" /\ ~ nsCache) => deployment = Absent
    BY <1>1, <2>1 DEF ScalingInv, IdleInv
  <2>4. Active => ScaleFits(deployment, timer)
    BY <2>2, <2>3 DEF Active
  <2>5. ASSUME ~ Active, runtime.mode # "invalid" PROVE deployment = Absent
    <3>1. runtime.mode \in {"on", "off", "invalid", "absent"} /\ (runtime.mode = "absent" <=> runtime = NoRuntime)
      BY <1>1, RuntimeFields DEF TypeOK
    <3>2. CASE runtime = NoRuntime
      BY <2>1, <3>2 DEF Orphaned
    <3>3. CASE runtime.mode = "off" \/ (runtime.mode = "on" /\ ~ enabled)
      BY <2>2, <2>3, <3>3
    <3>4. QED BY <2>5, <3>1, <3>2, <3>3 DEF Active
  <2>6. QED BY <1>1, <2>2, <2>4, <2>5 DEF ScaleFits
<1>2. QED BY <1>1, ScalingInvariant, PTL

\* SettledConfig: type constraints and etcd secret of a namespace are there if and
\* only if it is enabled and has a runtime, once the controller has nothing left to
\* do; a runtime deleted while the controller is down excepted
\* (servingruntime_controller.go:112-182).
THEOREM ConfigSettles == Spec => []SettledConfig
<1>1. ASSUME TypeOK, ScalingInv PROVE SettledConfig
  <2> SUFFICES ASSUME Settled, runtime = NoRuntime => faults = 0
               PROVE  /\ secret = (enabled /\ runtime # NoRuntime)
                      /\ (constraints = "none") = ~ secret
                      /\ Active => constraints = "listed"
    BY DEF SettledConfig
  <2>1. /\ At("idle") /\ ~ queue /\ stale = {}
    BY DEF Settled
  <2>2. rtCache = runtime /\ nsCache = enabled
    BY <1>1, <2>1 DEF ScalingInv, CachesInv
  <2>3. faults \in Nat /\ enabled \in BOOLEAN /\ secret \in BOOLEAN
    BY <1>1 DEF TypeOK
  <2>4. ConfigFits
    BY <1>1, <2>1, <2>2, <2>3 DEF ScalingInv, IdleInv
  <2>5. secret = (constraints # "none")
    BY <2>4 DEF ConfigFits
  <2>6. constraints = IF ~ enabled \/ runtime = NoRuntime THEN "none"
                      ELSE IF runtime.mode = "off" THEN "default" ELSE "listed"
    BY <2>2, <2>4 DEF ConfigFits, ConstraintData
  <2>7. runtime = NoRuntime => runtime.mode = "absent"
    BY RuntimeFields
  <2>8. (constraints # "none") = (enabled /\ runtime # NoRuntime)
    BY <2>3, <2>6
  <2>9. Active => constraints = "listed"
    BY <2>6, <2>7 DEF Active
  <2>10. QED BY <2>3, <2>5, <2>8, <2>9
<1>2. QED BY <1>1, ScalingInvariant, PTL

\* GraceKept: pods are taken away only when no reconcile has found Predictors for
\* the grace period, whatever the autoscaler and delayed requests do meanwhile
\* (servingruntime_controller.go:496-522).
THEOREM GraceIsKept == Spec => GraceKept
<1>1. ASSUME TypeOK, ScalingInv, [Next]_vars PROVE [deployment > 0 /\ deployment' = 0 => lastSeen = Grace]_vars
  <2> SUFFICES ASSUME deployment > 0, deployment' = 0, Next PROVE lastSeen = Grace
    BY <1>1
  <2>0. deployment # deployment'
    BY <1>1 DEF TypeOK, Absent
  <2> USE DEF apiVars, outVars, cacheVars, loopVars
  <2>1. CASE Apply
    <3>1. At("apply") /\ work.replicas = 0
      BY <2>0, <2>1 DEF Apply, Step, SetDeployment
    <3>2. QED BY <1>1, <3>1 DEF ScalingInv, TimeInv
  <2>2. CASE HPAScales
    BY <1>1, <2>2 DEF HPAScales, TypeOK, Absent
  <2>3. CASE RuntimeOff
    BY <2>3 DEF RuntimeOff, SetDeployment, Absent
  <2>4. ASSUME NEW r \in Runtimes \cup {NoRuntime}, SetRuntime(r) PROVE lastSeen = Grace
    BY <2>4 DEF SetRuntime, CollectOwned, Absent
  <2>5. CASE GarbageCollect
    BY <2>5 DEF GarbageCollect, CollectOwned, Absent
  <2>6. CASE \/ Begin \/ ReconcileSecret \/ RuntimeNotFound \/ RuntimeInvalid
             \/ DetermineReplicas \/ ReconcileNoAutoscaler \/ ReconcileAutoscaler
    BY <2>0, <2>6 DEF Begin, ReconcileSecret, RuntimeNotFound, RuntimeInvalid,
                DetermineReplicas, ReconcileNoAutoscaler, ReconcileAutoscaler
  <2>7. CASE \/ CallFails \/ Restart \/ TimerFires \/ Tick \/ RuntimeEvent \/ DeploymentEvent
             \/ NamespaceEvent \/ PredictorEvent \/ LabelNamespace
             \/ \E p \in Predictors : AddPredictor(p) \/ RemovePredictor(p)
    BY <2>0, <2>7 DEF CallFails, Restart, TimerFires, Tick, RuntimeEvent, DeploymentEvent,
                NamespaceEvent, PredictorEvent, LabelNamespace, AddPredictor, RemovePredictor
  <2>8. QED BY <2>1, <2>2, <2>3, <2>4, <2>5, <2>6, <2>7 DEF Next, Reconcile
<1>2. QED BY <1>1, ScalingInvariant, PTL DEF Spec, GraceKept
=============================================================================
