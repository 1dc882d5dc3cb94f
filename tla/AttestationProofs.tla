------------------------- MODULE AttestationProofs -------------------------
(***************************************************************************)
(* Proofs about DriverAttestations, for every set of users, vehicles and   *)
(* deliveries and every bound on versions and times.  The journeys under   *)
(* the attestations take the steps of JourneyVehicles only, so what        *)
(* JourneyProofs shows of a step holds here too.                           *)
(***************************************************************************)
EXTENDS DriverAttestations, JourneyProofs, FiniteSetTheorems

(* Every step is a step of the journeys below, or leaves them alone.       *)
LEMMA JourneyBelow ==
  ASSUME [AttestationNext]_allVars
  PROVE  [JourneyNext]_vars
  BY DEF AttestationNext, allVars, SignAttestation, DeliverAttestation, ReplayHit,
         ReplayMiss, ResolveACL, CheckFallback, RecordDriverAttestation,
         RecordCollides, FetchWinner, AnswerAttestation, DropDelivery,
         ReadCurrentDriver, AnswerCurrentDriver

(* JourneyInv survives every step.                                         *)
LEMMA NextJourneyInv ==
  ASSUME JourneyInv, [AttestationNext]_allVars
  PROVE  JourneyInv'
  BY JourneyBelow, JourneyInvInductive

(* A delivery under way is not an idle slot, and has these fields.         *)
LEMMA DeliveryFields ==
  ASSUME NEW q \in Delivery
  PROVE  /\ q # Idle
         /\ q.vehicle \in Vehicles /\ q.driver \in Users /\ q.effective \in Times
         /\ q.inForce \in 0..MaxACL /\ q.prior \in Priors \cup {NoPrior}
         /\ q.trust \in Trusts \cup {"none"}
         /\ q.stage \in Stages
  BY DEF Delivery, Idle

(* A delivery that waits at a stage is a delivery.                         *)
LEMMA StageType ==
  ASSUME AttestationTypeOK, NEW d \in Deliveries, NEW stage, InStage(d, stage)
  PROVE  deliveries[d] \in Delivery /\ deliveries[d].stage = stage
  BY DEF AttestationTypeOK, InStage

(* Moving a delivery to another stage leaves the rest of it.               *)
LEMMA StageChange ==
  ASSUME NEW q \in Delivery, NEW stage \in Stages
  PROVE  LET p == [q EXCEPT !.stage = stage] IN
         /\ p \in Delivery
         /\ p.stage = stage /\ p.vehicle = q.vehicle /\ p.driver = q.driver
         /\ p.effective = q.effective /\ p.inForce = q.inForce
         /\ p.prior = q.prior /\ p.trust = q.trust
  BY DEF Delivery

(* The same when the trust flag is set with it.                            *)
LEMMA ClassifyChange ==
  ASSUME NEW q \in Delivery, NEW trust \in Trusts
  PROVE  LET p == [q EXCEPT !.stage = "classified", !.trust = trust] IN
         /\ p \in Delivery
         /\ p.stage = "classified" /\ p.vehicle = q.vehicle /\ p.driver = q.driver
         /\ p.effective = q.effective /\ p.inForce = q.inForce /\ p.trust = trust
  BY DEF Delivery, Stages

(* An answer is the stored row.                                            *)
LEMMA AnswerIsRow ==
  ASSUME NEW q \in Delivery, NEW a \in Attestation, ReplayKey(a) = ReplayKey(q)
  PROVE  /\ AnswerWith(q, a) \in Delivery
         /\ AnswerWith(q, a).stage = "recorded"
         /\ AnswerWith(q, a).vehicle = q.vehicle
         /\ Row(AnswerWith(q, a)) = a
  <1>1. a.driver = q.driver /\ a.effective = q.effective
    BY DEF ReplayKey
  <1>2. /\ AnswerWith(q, a) \in Delivery
        /\ AnswerWith(q, a).stage = "recorded"
        /\ AnswerWith(q, a).vehicle = q.vehicle
    BY DEF AnswerWith, Delivery, Attestation, Stages
  <1>3. /\ AnswerWith(q, a).driver = a.driver
        /\ AnswerWith(q, a).effective = a.effective
        /\ AnswerWith(q, a).inForce = a.inForce
        /\ AnswerWith(q, a).prior = a.prior
        /\ AnswerWith(q, a).trust = a.trust
    BY <1>1 DEF AnswerWith, Delivery, Attestation
  <1>4. a = [driver |-> a.driver, effective |-> a.effective,
             inForce |-> a.inForce, prior |-> a.prior, trust |-> a.trust]
    BY DEF Attestation
  <1> QED
    BY <1>2, <1>3, <1>4 DEF Row

(* What is inserted of a classified delivery is a row with its key.        *)
LEMMA RowType ==
  ASSUME NEW q \in Delivery, q.trust \in Trusts
  PROVE  Row(q) \in Attestation /\ ReplayKey(Row(q)) = ReplayKey(q)
         /\ Row(q).prior = q.prior /\ Row(q).trust = q.trust
         /\ Row(q).driver = q.driver /\ Row(q).effective = q.effective
         /\ Row(q).inForce = q.inForce
  BY DEF Row, ReplayKey, Attestation, Delivery

-----------------------------------------------------------------------------
(* Where a step takes a delivery.                                          *)

(* What a step has established of a delivery p that it moves on: the       *)
(* journey and the key lookups are those before the step, the row that an  *)
(* answer rests on may be inserted by it.                                  *)
Rested(p) ==
  /\ p \in Delivery
  /\ vehicles[p.vehicle] # NoVehicle
  /\ \/ p.stage \in {"signed", "loaded", "new"} /\ SignedUnderACL(p)
     \/ /\ p.stage = "fallback"
        /\ \E acl \in acls[p.vehicle] :
             /\ acl.version >= p.inForce
             /\ acl.effective <= p.effective
             /\ acl.emergency
             /\ ~IsAuthorized(p, acl)
     \/ /\ p.stage = "classified"
        /\ p.trust \in Trusts
        /\ \E acl \in acls[p.vehicle] : JustifiedBy(p.vehicle, p, acl)
     \/ p.stage = "collided" /\ Existing(p) # {}
     \/ p.stage = "recorded" /\ Row(p) \in attestations'[p.vehicle]

(* An ACL on file is of a stored vehicle.                                  *)
LEMMA ACLHasVehicle ==
  ASSUME JourneyInv, NEW v \in Vehicles, NEW t, NEW acl \in ACLAt(v, t)
  PROVE  /\ vehicles[v] # NoVehicle
         /\ acl \in acls[v] /\ acl \in ACL
         /\ acl.effective <= t
  BY DEF JourneyInv, OnlyOwnerPublishes, ACLAt, TypeOK, JourneyTypeOK

(* The ACL that classify reads is at least as new as the one that was in   *)
(* force when the driver signed.                                           *)
LEMMA NewerThanSigned ==
  ASSUME JourneyInv, NEW q \in Delivery, SignedUnderACL(q),
         NEW acl \in ACLAt(q.vehicle, q.effective)
  PROVE  acl.version >= q.inForce
  <1>1. q.vehicle \in Vehicles /\ q.inForce \in 0..MaxACL
    BY DeliveryFields
  <1>2. acl \in ACL /\ acl.version \in Nat
    BY <1>1, ACLHasVehicle DEF ACL
  <1>3. CASE q.inForce = 0
    BY <1>2, <1>3
  <1>4. CASE q.inForce # 0
    BY <1>4 DEF SignedUnderACL, ACLAt
  <1> QED
    BY <1>3, <1>4

(* The parts of the invariant that say what a delivery rests on.           *)
DeliveryInv == JourneyInv /\ AttestationTypeOK /\ DeliveriesRest

(* Each handler step moves one delivery, and establishes what the next     *)
(* stage rests on (driver_attestations.go, handleRecordDriverAttestation;  *)
(* driver_attestation_trust.go, classify).                                 *)
LEMMA DeliveryMoves ==
  ASSUME DeliveryInv, [AttestationNext]_allVars
  PROVE  \/ UNCHANGED deliveries
         \/ \E d \in Deliveries : \E p : MoveOn(d, p) /\ (p = Idle \/ Rested(p))
  <1> DEFINE Moves == \E d \in Deliveries : \E p : MoveOn(d, p) /\ (p = Idle \/ Rested(p))
  <1>0. JourneyInv /\ AttestationTypeOK
    BY DEF DeliveryInv
  <1>r. ASSUME NEW d \in Deliveries, NEW stage, InStage(d, stage)
        PROVE  /\ deliveries[d] \in Delivery /\ deliveries[d].stage = stage
               /\ deliveries[d].vehicle \in Vehicles
               /\ vehicles[deliveries[d].vehicle] # NoVehicle
               /\ DeliveryRests(deliveries[d])
    <2>1. deliveries[d] \in Delivery /\ deliveries[d].stage = stage
      BY <1>0, <1>r, StageType
    <2>2. DeliveryRests(deliveries[d])
      BY <1>r DEF DeliveryInv, DeliveriesRest, InStage
    <2> QED
      BY <2>1, <2>2, DeliveryFields DEF DeliveryRests
  <1>1. ASSUME NEW d \in Deliveries, NEW u \in Users, NEW v \in Vehicles,
               NEW t \in HandoffTimes, NEW p \in Priors \cup {NoPrior},
               SignAttestation(d, u, v, t, p)
        PROVE  Moves
    <2>1. PICK n \in 0..MaxACL :
            /\ InForce(v, t, n)
            /\ MoveOn(d, [stage |-> "signed", vehicle |-> v, driver |-> u,
                          effective |-> t, inForce |-> n, prior |-> p,
                          trust |-> "none"])
      BY <1>1 DEF SignAttestation
    <2> DEFINE q == [stage |-> "signed", vehicle |-> v, driver |-> u,
                     effective |-> t, inForce |-> n, prior |-> p, trust |-> "none"]
    <2>2. vehicles[v] # NoVehicle
      BY <1>1 DEF SignAttestation
    <2>3. t \in Times
      BY AttestationAssumptions
    <2>4. q \in Delivery
      BY <2>3 DEF Delivery, Stages
    <2>5. SignedUnderACL(q)
      BY <2>1 DEF SignedUnderACL, InForce
    <2> QED
      BY <2>1, <2>2, <2>4, <2>5 DEF Rested
  <1>2. ASSUME NEW d \in Deliveries, DeliverAttestation(d)
        PROVE  Moves
    <2> DEFINE p == [deliveries[d] EXCEPT !.stage = "loaded"]
    <2>1. /\ deliveries[d] \in Delivery /\ vehicles[deliveries[d].vehicle] # NoVehicle
          /\ SignedUnderACL(deliveries[d])
      BY <1>2, <1>r DEF DeliverAttestation, DeliveryRests
    <2>2. "loaded" \in Stages
      BY DEF Stages
    <2>3. /\ p \in Delivery /\ p.stage = "loaded" /\ p.vehicle = deliveries[d].vehicle
          /\ p.effective = deliveries[d].effective /\ p.inForce = deliveries[d].inForce
      BY <2>1, <2>2, StageChange
    <2>4. MoveOn(d, p)
      BY <1>2 DEF DeliverAttestation
    <2> HIDE DEF p
    <2>5. Rested(p)
      BY <2>1, <2>3 DEF Rested, SignedUnderACL
    <2> QED
      BY <2>4, <2>5
  <1>a. ASSUME NEW d \in Deliveries, deliveries[d] \in Delivery,
               vehicles[deliveries[d].vehicle] # NoVehicle,
               attestations' = attestations,
               \E a \in Existing(deliveries[d]) : MoveOn(d, AnswerWith(deliveries[d], a))
        PROVE  Moves
    <2>1. PICK a \in Existing(deliveries[d]) : MoveOn(d, AnswerWith(deliveries[d], a))
      BY <1>a
    <2>2. a \in attestations[deliveries[d].vehicle] /\ a \in Attestation
          /\ ReplayKey(a) = ReplayKey(deliveries[d])
      BY <1>0, <1>a, DeliveryFields DEF Existing, AttestationTypeOK
    <2>3. Rested(AnswerWith(deliveries[d], a))
      BY <1>a, <2>2, AnswerIsRow DEF Rested
    <2> QED
      BY <2>1, <2>3
  <1>3. ASSUME NEW d \in Deliveries, ReplayHit(d)
        PROVE  Moves
    BY <1>3, <1>r, <1>a DEF ReplayHit
  <1>4. ASSUME NEW d \in Deliveries, ReplayMiss(d)
        PROVE  Moves
    <2> DEFINE p == [deliveries[d] EXCEPT !.stage = "new"]
    <2>1. /\ deliveries[d] \in Delivery /\ vehicles[deliveries[d].vehicle] # NoVehicle
          /\ SignedUnderACL(deliveries[d])
      BY <1>4, <1>r DEF ReplayMiss, DeliveryRests
    <2>2. "new" \in Stages
      BY DEF Stages
    <2>3. /\ p \in Delivery /\ p.stage = "new" /\ p.vehicle = deliveries[d].vehicle
          /\ p.effective = deliveries[d].effective /\ p.inForce = deliveries[d].inForce
      BY <2>1, <2>2, StageChange
    <2>4. MoveOn(d, p)
      BY <1>4 DEF ReplayMiss
    <2> HIDE DEF p
    <2>5. Rested(p)
      BY <2>1, <2>3 DEF Rested, SignedUnderACL
    <2> QED
      BY <2>4, <2>5
  <1>5. ASSUME NEW d \in Deliveries, ResolveACL(d)
        PROVE  Moves
    <2> DEFINE q == deliveries[d]
    <2>1. /\ q \in Delivery /\ q.vehicle \in Vehicles /\ vehicles[q.vehicle] # NoVehicle
          /\ SignedUnderACL(q)
      BY <1>5, <1>r DEF ResolveACL, DeliveryRests
    <2>2. PICK acl \in ACLAt(q.vehicle, q.effective) :
            MoveOn(d,
              IF IsAuthorized(q, acl)
                THEN [q EXCEPT !.stage = "classified", !.trust = "authorized"]
              ELSE IF acl.emergency
                THEN [q EXCEPT !.stage = "fallback"]
              ELSE [q EXCEPT !.stage = "classified", !.trust = "acl_violation"])
      BY <1>5 DEF ResolveACL
    <2>3. /\ acl \in acls[q.vehicle] /\ acl.effective <= q.effective
          /\ acl.version >= q.inForce
      BY <1>0, <2>1, ACLHasVehicle, NewerThanSigned
    <2>4. "authorized" \in Trusts /\ "acl_violation" \in Trusts /\ "fallback" \in Stages
      BY DEF Trusts, Stages
    <2>5. CASE IsAuthorized(q, acl)
      <3> DEFINE p == [q EXCEPT !.stage = "classified", !.trust = "authorized"]
      <3>1. /\ p \in Delivery /\ p.stage = "classified" /\ p.vehicle = q.vehicle
            /\ p.driver = q.driver /\ p.effective = q.effective
            /\ p.inForce = q.inForce /\ p.trust = "authorized"
        BY <2>1, <2>4, ClassifyChange
      <3> HIDE DEF p
      <3>2. JustifiedBy(p.vehicle, p, acl)
        BY <2>3, <2>5, <3>1 DEF JustifiedBy, IsAuthorized
      <3>3. Rested(p)
        BY <2>1, <2>3, <2>4, <3>1, <3>2 DEF Rested
      <3> QED
        BY <2>2, <2>5, <3>3 DEF p
    <2>6. CASE ~IsAuthorized(q, acl) /\ acl.emergency
      <3> DEFINE p == [q EXCEPT !.stage = "fallback"]
      <3>1. /\ p \in Delivery /\ p.stage = "fallback" /\ p.vehicle = q.vehicle
            /\ p.driver = q.driver /\ p.effective = q.effective
            /\ p.inForce = q.inForce
        BY <2>1, <2>4, StageChange
      <3> HIDE DEF p
      <3>2. ~IsAuthorized(p, acl)
        BY <2>6, <3>1 DEF IsAuthorized
      <3>3. Rested(p)
        BY <2>1, <2>3, <2>6, <3>1, <3>2 DEF Rested
      <3> QED
        BY <2>2, <2>6, <3>3 DEF p
    <2>7. CASE ~IsAuthorized(q, acl) /\ ~acl.emergency
      <3> DEFINE p == [q EXCEPT !.stage = "classified", !.trust = "acl_violation"]
      <3>1. /\ p \in Delivery /\ p.stage = "classified" /\ p.vehicle = q.vehicle
            /\ p.driver = q.driver /\ p.effective = q.effective
            /\ p.inForce = q.inForce /\ p.trust = "acl_violation"
        BY <2>1, <2>4, ClassifyChange
      <3> HIDE DEF p
      <3>2. JustifiedBy(p.vehicle, p, acl)
        BY <2>3, <2>7, <3>1 DEF JustifiedBy, IsAuthorized
      <3>3. Rested(p)
        BY <2>1, <2>3, <2>4, <3>1, <3>2 DEF Rested
      <3> QED
        BY <2>2, <2>7, <3>3 DEF p
    <2> QED
      BY <2>5, <2>6, <2>7
  <1>6. ASSUME NEW d \in Deliveries, CheckFallback(d)
        PROVE  Moves
    <2> DEFINE q == deliveries[d]
               p == [q EXCEPT !.stage = "classified", !.trust = FallbackTrust(q)]
    <2>1. q \in Delivery /\ q.stage = "fallback" /\ vehicles[q.vehicle] # NoVehicle
          /\ DeliveryRests(q)
      BY <1>6, <1>r DEF CheckFallback
    <2>2. PICK acl \in acls[q.vehicle] :
            /\ acl.version >= q.inForce /\ acl.effective <= q.effective
            /\ acl.emergency /\ ~IsAuthorized(q, acl)
      BY <2>1 DEF DeliveryRests
    <2>3. FallbackTrust(q) \in Trusts /\ FallbackTrust(q) # "authorized"
      BY DEF FallbackTrust, Trusts
    <2>4. /\ p \in Delivery /\ p.stage = "classified" /\ p.vehicle = q.vehicle
          /\ p.driver = q.driver /\ p.effective = q.effective
          /\ p.inForce = q.inForce /\ p.trust = FallbackTrust(q)
      BY <2>1, <2>3, ClassifyChange
    <2>5. MoveOn(d, p)
      BY <1>6 DEF CheckFallback
    <2> HIDE DEF p
    <2>6. JustifiedBy(p.vehicle, p, acl)
      BY <2>2, <2>3, <2>4 DEF JustifiedBy, IsAuthorized
    <2>7. Rested(p)
      BY <2>1, <2>2, <2>3, <2>4, <2>6 DEF Rested
    <2> QED
      BY <2>5, <2>7
  <1>7. ASSUME NEW d \in Deliveries, RecordDriverAttestation(d)
        PROVE  Moves
    <2> DEFINE q == deliveries[d]
               p == [q EXCEPT !.stage = "recorded"]
    <2>1. q \in Delivery /\ q.vehicle \in Vehicles /\ vehicles[q.vehicle] # NoVehicle
      BY <1>7, <1>r DEF RecordDriverAttestation
    <2>2. /\ p \in Delivery /\ p.stage = "recorded" /\ p.vehicle = q.vehicle
          /\ p.driver = q.driver /\ p.effective = q.effective
          /\ p.inForce = q.inForce /\ p.prior = q.prior /\ p.trust = q.trust
      BY <2>1, StageChange DEF Stages
    <2>3. MoveOn(d, p) /\ Row(q) \in attestations'[q.vehicle]
      BY <1>0, <1>7, <2>1 DEF RecordDriverAttestation, AttestationTypeOK
    <2> HIDE DEF p
    <2>4. Row(p) = Row(q)
      BY <2>2 DEF Row
    <2>5. Rested(p)
      BY <2>1, <2>2, <2>3, <2>4 DEF Rested
    <2> QED
      BY <2>3, <2>5
  <1>8. ASSUME NEW d \in Deliveries, RecordCollides(d)
        PROVE  Moves
    <2> DEFINE q == deliveries[d]
               p == [q EXCEPT !.stage = "collided"]
    <2>1. q \in Delivery /\ vehicles[q.vehicle] # NoVehicle
      BY <1>8, <1>r DEF RecordCollides
    <2>2. /\ p \in Delivery /\ p.stage = "collided" /\ p.vehicle = q.vehicle
          /\ p.driver = q.driver /\ p.effective = q.effective
      BY <2>1, StageChange DEF Stages
    <2>3. MoveOn(d, p) /\ Existing(q) # {}
      BY <1>8 DEF RecordCollides
    <2> HIDE DEF p
    <2>4. Existing(p) = Existing(q)
      BY <2>2 DEF Existing, ReplayKey
    <2>5. Rested(p)
      BY <2>1, <2>2, <2>3, <2>4 DEF Rested
    <2> QED
      BY <2>3, <2>5
  <1>9. ASSUME NEW d \in Deliveries, FetchWinner(d)
        PROVE  Moves
    BY <1>9, <1>r, <1>a DEF FetchWinner
  <1>10. ASSUME NEW d \in Deliveries, MoveOn(d, Idle)
         PROVE  Moves
    BY <1>10
  <1> HIDE DEF Moves
  <1>11. UNCHANGED deliveries \/ Moves
    BY <1>1, <1>2, <1>3, <1>4, <1>5, <1>6, <1>7, <1>8, <1>9, <1>10
    DEF AttestationNext, allVars, attestationVars, AnswerAttestation, DropDelivery,
        ReadCurrentDriver, AnswerCurrentDriver
  <1> QED
    BY <1>11 DEF Moves
-----------------------------------------------------------------------------
(* Rows.                                                                   *)

(* Rows are only inserted, by a classified delivery whose key is free.     *)
LEMMA RowSteps ==
  ASSUME DeliveryInv, [AttestationNext]_allVars
  PROVE  \/ attestations' = attestations
         \/ \E q \in Delivery :
              /\ q.trust \in Trusts
              /\ \E acl \in acls[q.vehicle] : JustifiedBy(q.vehicle, q, acl)
              /\ Existing(q) = {}
              /\ attestations' = [attestations EXCEPT ![q.vehicle] = @ \cup {Row(q)}]
              /\ UNCHANGED <<vars, readers, reported>>
  <1>1. ASSUME NEW d \in Deliveries, RecordDriverAttestation(d)
        PROVE  LET q == deliveries[d] IN
               /\ q \in Delivery /\ q.trust \in Trusts
               /\ \E acl \in acls[q.vehicle] : JustifiedBy(q.vehicle, q, acl)
               /\ Existing(q) = {}
               /\ attestations' = [attestations EXCEPT ![q.vehicle] = @ \cup {Row(q)}]
               /\ UNCHANGED <<vars, readers, reported>>
    <2>1. deliveries[d] \in Delivery /\ deliveries[d].stage = "classified"
      BY <1>1, StageType DEF RecordDriverAttestation, DeliveryInv
    <2>2. DeliveryRests(deliveries[d])
      BY <1>1 DEF DeliveryInv, DeliveriesRest, RecordDriverAttestation, InStage
    <2>3. /\ deliveries[d].trust \in Trusts
          /\ \E acl \in acls[deliveries[d].vehicle] :
               JustifiedBy(deliveries[d].vehicle, deliveries[d], acl)
      BY <2>1, <2>2 DEF DeliveryRests
    <2> QED
      BY <1>1, <2>1, <2>3 DEF RecordDriverAttestation
  <1>2. \/ attestations' = attestations
        \/ \E d \in Deliveries : RecordDriverAttestation(d)
    BY DEF AttestationNext, allVars, attestationVars, SignAttestation,
           DeliverAttestation, ReplayHit, ReplayMiss, ResolveACL, CheckFallback,
           RecordCollides, FetchWinner, AnswerAttestation, DropDelivery,
           ReadCurrentDriver, AnswerCurrentDriver
  <1> QED
    BY <1>1, <1>2

(* What RowSteps leaves of one vehicle: the row set grows by at most the   *)
(* row of a delivery whose key was free.                                   *)
LEMMA RowsGrow ==
  ASSUME DeliveryInv, [AttestationNext]_allVars, NEW v \in Vehicles
  PROVE  /\ attestations[v] \subseteq attestations'[v]
         /\ \A a \in attestations'[v] \ attestations[v] :
              /\ a \in Attestation
              /\ \A b \in attestations'[v] : ReplayKey(b) = ReplayKey(a) => b = a
              /\ \E acl \in acls[v] : JustifiedBy(v, a, acl)
              /\ UNCHANGED <<vars, readers, reported>>
  <1>1. CASE attestations' = attestations
    BY <1>1
  <1>2. ASSUME NEW q \in Delivery,
               q.trust \in Trusts,
               \E acl \in acls[q.vehicle] : JustifiedBy(q.vehicle, q, acl),
               Existing(q) = {},
               attestations' = [attestations EXCEPT ![q.vehicle] = @ \cup {Row(q)}],
               UNCHANGED <<vars, readers, reported>>
        PROVE  /\ attestations[v] \subseteq attestations'[v]
               /\ \A a \in attestations'[v] \ attestations[v] :
                    /\ a \in Attestation
                    /\ \A b \in attestations'[v] : ReplayKey(b) = ReplayKey(a) => b = a
                    /\ \E acl \in acls[v] : JustifiedBy(v, a, acl)
                    /\ UNCHANGED <<vars, readers, reported>>
    <2>1. /\ attestations'[v] = IF v = q.vehicle THEN attestations[v] \cup {Row(q)}
                                ELSE attestations[v]
      BY <1>2 DEF DeliveryInv, AttestationTypeOK
    <2>2. CASE v # q.vehicle
      BY <2>1, <2>2
    <2>3. CASE v = q.vehicle
      <3>1. /\ Row(q) \in Attestation /\ ReplayKey(Row(q)) = ReplayKey(q)
            /\ Row(q).trust = q.trust
            /\ Row(q).driver = q.driver /\ Row(q).effective = q.effective
            /\ Row(q).inForce = q.inForce
        BY <1>2, RowType
      <3>2. \A b \in attestations[v] : ReplayKey(b) # ReplayKey(q)
        BY <1>2, <2>3 DEF Existing
      <3>3. PICK acl \in acls[v] : JustifiedBy(v, q, acl)
        BY <1>2, <2>3
      <3>4. JustifiedBy(v, Row(q), acl)
        BY <3>1, <3>3 DEF JustifiedBy
      <3> QED
        BY <1>2, <2>1, <2>3, <3>1, <3>2, <3>4
    <2> QED
      BY <2>2, <2>3
  <1> QED
    BY <1>1, <1>2, RowSteps

(* Every step writes well-typed rows, deliveries and reports.              *)
LEMMA NextAttestationType ==
  ASSUME DeliveryInv, ReadsAreOnFile, [AttestationNext]_allVars
  PROVE  AttestationTypeOK'
  <1>0. AttestationTypeOK
    BY DEF DeliveryInv
  <1>1. TypeOK'
    BY NextJourneyInv DEF DeliveryInv, JourneyInv
  <1>2. attestations' \in [Vehicles -> SUBSET Attestation]
    <2>1. ASSUME NEW v \in Vehicles
          PROVE  attestations'[v] \subseteq Attestation
      BY <1>0, <2>1, RowsGrow DEF AttestationTypeOK
    <2>2. attestations' = [v \in Vehicles |-> attestations'[v]]
      BY <1>0, RowSteps DEF AttestationTypeOK
    <2> QED
      BY <2>1, <2>2
  <1>3. deliveries' \in [Deliveries -> {Idle} \cup Delivery]
    BY <1>0, DeliveryMoves DEF AttestationTypeOK, MoveOn, Rested
  <1>4. readers' \in [Readers -> {Idle} \cup CurrentDriverRead]
    <2>1. ASSUME NEW r \in Readers, NEW v \in Vehicles, NEW t \in Times,
                 ReadCurrentDriver(r, v, t)
          PROVE  readers' \in [Readers -> {Idle} \cup CurrentDriverRead]
      <3>1. PICK a \in CurrentDriver(v, t) :
              readers' = [readers EXCEPT ![r] = [vehicle |-> v, row |-> a]]
        BY <2>1 DEF ReadCurrentDriver
      <3>2. a \in Attestation
        BY <1>0 DEF CurrentDriver, AttestationTypeOK
      <3> QED
        BY <1>0, <3>1, <3>2 DEF AttestationTypeOK, CurrentDriverRead
    <2>2. ASSUME NEW r \in Readers, AnswerCurrentDriver(r)
          PROVE  readers' \in [Readers -> {Idle} \cup CurrentDriverRead]
      BY <1>0, <2>2 DEF AnswerCurrentDriver, AttestationTypeOK
    <2>3. CASE UNCHANGED readers
      BY <1>0, <2>3 DEF AttestationTypeOK
    <2> QED
      BY <2>1, <2>2, <2>3
      DEF AttestationNext, allVars, attestationVars, SignAttestation,
          DeliverAttestation, ReplayHit, ReplayMiss, ResolveACL, CheckFallback,
          RecordDriverAttestation, RecordCollides, FetchWinner,
          AnswerAttestation, DropDelivery
  <1>5. reported' \in [Vehicles -> SUBSET (ReplayKeys \X SUBSET ReplayKeys)]
    <2>k. \A a \in Attestation : ReplayKey(a) \in ReplayKeys
      BY DEF Attestation, ReplayKey, ReplayKeys
    <2>1. ASSUME NEW d \in Deliveries, AnswerAttestation(d)
          PROVE  reported' \in [Vehicles -> SUBSET (ReplayKeys \X SUBSET ReplayKeys)]
      <3> DEFINE q == deliveries[d]
                 siblings == {ReplayKey(a) : a \in ForkSiblings(q.vehicle, q)}
      <3>1. q \in Delivery
        BY <1>0, <2>1, StageType DEF AnswerAttestation
      <3>2. q.vehicle \in Vehicles /\ ReplayKey(q) \in ReplayKeys
        BY <3>1 DEF Delivery, ReplayKey, ReplayKeys
      <3>3. siblings \in SUBSET ReplayKeys
        BY <1>0, <2>k, <3>2 DEF ForkSiblings, AttestationTypeOK
      <3>4. reported' = reported \/
            reported' = [reported EXCEPT
                          ![q.vehicle] = @ \cup {<<ReplayKey(q), siblings>>}]
        BY <2>1 DEF AnswerAttestation
      <3> HIDE DEF siblings
      <3> QED
        BY <1>0, <3>2, <3>3, <3>4 DEF AttestationTypeOK
    <2>2. ASSUME NEW r \in Readers, AnswerCurrentDriver(r)
          PROVE  reported' \in [Vehicles -> SUBSET (ReplayKeys \X SUBSET ReplayKeys)]
      <3> DEFINE v == readers[r].vehicle
                 a == readers[r].row
                 others == {ReplayKey(b) : b \in ForkSiblings(v, a) \ {a}}
      <3>1. v \in Vehicles /\ ReplayKey(a) \in ReplayKeys
        BY <1>0, <2>2, <2>k DEF AnswerCurrentDriver, AttestationTypeOK, CurrentDriverRead
      <3>2. others \in SUBSET ReplayKeys
        BY <1>0, <2>k, <3>1 DEF ForkSiblings, AttestationTypeOK
      <3>3. reported' = reported \/
            reported' = [reported EXCEPT ![v] = @ \cup {<<ReplayKey(a), others>>}]
        BY <2>2 DEF AnswerCurrentDriver
      <3> HIDE DEF others
      <3> QED
        BY <1>0, <3>1, <3>2, <3>3 DEF AttestationTypeOK
    <2>3. CASE UNCHANGED reported
      BY <1>0, <2>3 DEF AttestationTypeOK
    <2> QED
      BY <2>1, <2>2, <2>3
      DEF AttestationNext, allVars, attestationVars, SignAttestation,
          DeliverAttestation, ReplayHit, ReplayMiss, ResolveACL, CheckFallback,
          RecordDriverAttestation, RecordCollides, FetchWinner,
          DropDelivery, ReadCurrentDriver
  <1> QED
    BY <1>1, <1>2, <1>3, <1>4, <1>5 DEF AttestationTypeOK

-----------------------------------------------------------------------------
(* The invariant, one conjunct at a time.                                  *)

(* What was established of a delivery stays true while it waits: ACLs and  *)
(* rows are never deleted and a vehicle never changes owner.               *)
LEMMA NextDeliveriesRest ==
  ASSUME DeliveryInv, ReadsAreOnFile, [AttestationNext]_allVars
  PROVE  DeliveriesRest'
  <1>0. JourneyInv /\ AttestationTypeOK /\ TypeOK /\ RequestsOwnVehicle
    BY DEF DeliveryInv, JourneyInv
  <1>1. \A v \in Vehicles : vehicles[v] # NoVehicle =>
          /\ vehicles'[v] # NoVehicle /\ vehicles'[v].owner = vehicles[v].owner
          /\ acls[v] \subseteq acls'[v]
    BY <1>0, JourneyBelow, VehiclesStay
  <1>2. \A v \in Vehicles : attestations[v] \subseteq attestations'[v]
    BY RowsGrow
  <1>3. ASSUME NEW p \in Delivery, Rested(p)
        PROVE  DeliveryRests(p)'
    <2>1. p.vehicle \in Vehicles /\ vehicles[p.vehicle] # NoVehicle
      BY <1>3, DeliveryFields DEF Rested
    <2>2. /\ vehicles'[p.vehicle] # NoVehicle
          /\ vehicles'[p.vehicle].owner = vehicles[p.vehicle].owner
          /\ acls[p.vehicle] \subseteq acls'[p.vehicle]
          /\ attestations[p.vehicle] \subseteq attestations'[p.vehicle]
      BY <1>1, <1>2, <2>1
    <2>3. CASE p.stage \in {"signed", "loaded", "new"}
      BY <1>3, <2>2, <2>3 DEF DeliveryRests, Rested, SignedUnderACL
    <2>4. CASE p.stage = "fallback"
      BY <1>3, <2>2, <2>4 DEF DeliveryRests, Rested, IsAuthorized
    <2>5. CASE p.stage = "classified"
      BY <1>3, <2>2, <2>5 DEF DeliveryRests, Rested, JustifiedBy
    <2>6. CASE p.stage = "collided"
      BY <1>3, <2>2, <2>6 DEF DeliveryRests, Rested, Existing
    <2>7. CASE p.stage = "recorded"
      BY <1>3, <2>2, <2>7 DEF DeliveryRests, Rested
    <2> QED
      BY <1>3, <2>3, <2>4, <2>5, <2>6, <2>7 DEF Rested
  <1>4. ASSUME NEW p \in Delivery, DeliveryRests(p)
        PROVE  Rested(p)
    <2>1. p.vehicle \in Vehicles
      BY DeliveryFields
    <2> QED
      BY <1>2, <1>4, <2>1, DeliveryFields DEF DeliveryRests, Rested, Stages
  <1>5. ASSUME NEW d \in Deliveries, deliveries'[d] # Idle
        PROVE  Rested(deliveries'[d])
    <2>1. CASE deliveries'[d] = deliveries[d]
      <3>1. deliveries[d] \in Delivery /\ DeliveryRests(deliveries[d])
        BY <1>0, <1>5, <2>1 DEF AttestationTypeOK, DeliveryInv, DeliveriesRest
      <3> QED
        BY <1>4, <2>1, <3>1
    <2>2. CASE deliveries'[d] # deliveries[d]
      BY <1>0, <1>5, <2>2, DeliveryMoves DEF MoveOn, AttestationTypeOK
    <2> QED
      BY <2>1, <2>2
  <1>6. ASSUME NEW d \in Deliveries, NEW p \in Delivery, p = deliveries'[d], Rested(p)
        PROVE  DeliveryRests(deliveries[d])'
    <2>1. DeliveryRests(p)'
      BY <1>3, <1>6
    <2> QED
      BY <1>6, <2>1 DEF DeliveryRests, SignedUnderACL, IsAuthorized, JustifiedBy,
                           Existing, Row, ReplayKey
  <1>7. ASSUME NEW d \in Deliveries, deliveries'[d] # Idle
        PROVE  DeliveryRests(deliveries[d])'
    <2>1. deliveries'[d] \in Delivery
      BY <1>5, <1>7 DEF Rested
    <2> QED
      BY <1>5, <1>6, <1>7, <2>1
  <1> QED
    BY <1>7 DEF DeliveriesRest
(* The replay key stays unique: only a delivery whose key is free inserts. *)
LEMMA NextOneRow ==
  ASSUME DeliveryInv, OneRowPerKey, [AttestationNext]_allVars
  PROVE  OneRowPerKey'
  <1> SUFFICES ASSUME NEW v \in Vehicles, NEW a \in attestations'[v],
                      NEW b \in attestations'[v], ReplayKey(a) = ReplayKey(b)
               PROVE  a = b
    BY DEF OneRowPerKey, ReplayKey
  <1>1. CASE a \in attestations[v] /\ b \in attestations[v]
    BY <1>1 DEF OneRowPerKey
  <1>2. CASE ~(a \in attestations[v] /\ b \in attestations[v])
    BY <1>2, RowsGrow
  <1> QED
    BY <1>1, <1>2

(* A read holds a row that stays on file.                                  *)
LEMMA NextReads ==
  ASSUME DeliveryInv, ReadsAreOnFile, [AttestationNext]_allVars
  PROVE  ReadsAreOnFile'
  <1> SUFFICES ASSUME NEW r \in Readers, readers'[r] # Idle
               PROVE  readers'[r].row \in attestations'[readers'[r].vehicle]
    BY DEF ReadsAreOnFile
  <1>0. AttestationTypeOK
    BY DEF DeliveryInv
  <1>1. CASE readers'[r] = readers[r]
    <2>1. readers[r].vehicle \in Vehicles
      BY <1>0, <1>1 DEF AttestationTypeOK, CurrentDriverRead
    <2> QED
      BY <1>1, <2>1, RowsGrow DEF ReadsAreOnFile
  <1>2. ASSUME NEW g \in Readers, NEW v \in Vehicles, NEW t \in Times,
               ReadCurrentDriver(g, v, t), readers'[r] # readers[r]
        PROVE  readers'[r].row \in attestations'[readers'[r].vehicle]
    BY <1>0, <1>2 DEF ReadCurrentDriver, CurrentDriver, AttestationTypeOK
  <1>3. ASSUME NEW g \in Readers, AnswerCurrentDriver(g), readers'[r] # readers[r]
        PROVE  FALSE
    BY <1>0, <1>3 DEF AnswerCurrentDriver, AttestationTypeOK
  <1> QED
    BY <1>1, <1>2, <1>3
    DEF AttestationNext, allVars, attestationVars, SignAttestation,
        DeliverAttestation, ReplayHit, ReplayMiss, ResolveACL, CheckFallback,
        RecordDriverAttestation, RecordCollides, FetchWinner,
        AnswerAttestation, DropDelivery

(* A report is about a row on file, and names every other claim on its     *)
(* predecessor that is on file when it is made.                            *)
LEMMA ReportSteps ==
  ASSUME DeliveryInv, ReadsAreOnFile, [AttestationNext]_allVars,
         NEW v \in Vehicles, NEW x \in reported'[v], x \notin reported[v]
  PROVE  /\ attestations' = attestations
         /\ reported'[v] = reported[v] \cup {x}
         /\ \E a \in attestations[v] :
              /\ ReplayKey(a) = x[1]
              /\ \A b \in attestations[v] :
                   b # a /\ b.prior = a.prior => ReplayKey(b) \in x[2]
  <1>0. AttestationTypeOK
    BY DEF DeliveryInv
  <1>1. ASSUME NEW d \in Deliveries, AnswerAttestation(d)
        PROVE  /\ attestations' = attestations
               /\ reported'[v] = reported[v] \cup {x}
               /\ \E a \in attestations[v] :
                    /\ ReplayKey(a) = x[1]
                    /\ \A b \in attestations[v] :
                         b # a /\ b.prior = a.prior => ReplayKey(b) \in x[2]
    <2> DEFINE q == deliveries[d]
               siblings == {ReplayKey(b) : b \in ForkSiblings(q.vehicle, q)}
    <2>1. q \in Delivery /\ q.stage = "recorded" /\ q.vehicle \in Vehicles
      BY <1>0, <1>1, StageType, DeliveryFields DEF AnswerAttestation
    <2>2. Row(q) \in attestations[q.vehicle]
      BY <1>1, <2>1 DEF DeliveryInv, DeliveriesRest, DeliveryRests, AnswerAttestation,
                        InStage
    <2>3. v = q.vehicle /\ x = <<ReplayKey(q), siblings>>
          /\ reported'[v] = reported[v] \cup {x}
      BY <1>0, <1>1, <2>1 DEF AnswerAttestation, AttestationTypeOK
    <2>4. ReplayKey(Row(q)) = ReplayKey(q) /\ Row(q).prior = q.prior
      BY DEF Row, ReplayKey
    <2>5. \A b \in attestations[v] : b.prior = q.prior => ReplayKey(b) \in siblings
      BY <2>3 DEF ForkSiblings
    <2>6. x[1] = ReplayKey(q) /\ x[2] = siblings
      BY <2>3
    <2>7. attestations' = attestations
      BY <1>1 DEF AnswerAttestation
    <2> HIDE DEF siblings
    <2> QED
      BY <2>2, <2>3, <2>4, <2>5, <2>6, <2>7
  <1>2. ASSUME NEW r \in Readers, AnswerCurrentDriver(r)
        PROVE  /\ attestations' = attestations
               /\ reported'[v] = reported[v] \cup {x}
               /\ \E a \in attestations[v] :
                    /\ ReplayKey(a) = x[1]
                    /\ \A b \in attestations[v] :
                         b # a /\ b.prior = a.prior => ReplayKey(b) \in x[2]
    <2> DEFINE w == readers[r].vehicle
               a == readers[r].row
               others == {ReplayKey(b) : b \in ForkSiblings(w, a) \ {a}}
    <2>1. w \in Vehicles /\ a \in attestations[w]
      BY <1>0, <1>2 DEF AnswerCurrentDriver, AttestationTypeOK, CurrentDriverRead,
                        ReadsAreOnFile
    <2>2. v = w /\ x = <<ReplayKey(a), others>> /\ reported'[v] = reported[v] \cup {x}
      BY <1>0, <1>2, <2>1 DEF AnswerCurrentDriver, AttestationTypeOK
    <2>3. \A b \in attestations[v] :
            b # a /\ b.prior = a.prior => ReplayKey(b) \in others
      BY <2>2 DEF ForkSiblings
    <2>4. x[1] = ReplayKey(a) /\ x[2] = others
      BY <2>2
    <2>5. attestations' = attestations
      BY <1>2 DEF AnswerCurrentDriver
    <2> HIDE DEF others
    <2> QED
      BY <2>1, <2>2, <2>3, <2>4, <2>5
  <1>3. ASSUME UNCHANGED reported
        PROVE  FALSE
    BY <1>3
  <1> QED
    BY <1>1, <1>2, <1>3
    DEF AttestationNext, allVars, attestationVars, SignAttestation,
        DeliverAttestation, ReplayHit, ReplayMiss, ResolveACL, CheckFallback,
        RecordDriverAttestation, RecordCollides, FetchWinner,
        DropDelivery, ReadCurrentDriver

(* What was reported stays reported of a row on file.                      *)
LEMMA NextReports ==
  ASSUME DeliveryInv, ReadsAreOnFile, ReportsAreOnFile, [AttestationNext]_allVars
  PROVE  ReportsAreOnFile'
  <1> SUFFICES ASSUME NEW v \in Vehicles, NEW x \in reported'[v]
               PROVE  \E a \in attestations'[v] : ReplayKey(a) = x[1]
    BY DEF ReportsAreOnFile, ReplayKey
  <1>1. attestations[v] \subseteq attestations'[v]
    BY RowsGrow
  <1>2. CASE x \in reported[v]
    BY <1>1, <1>2 DEF ReportsAreOnFile
  <1>3. CASE x \notin reported[v]
    BY <1>1, <1>3, ReportSteps
  <1> QED
    BY <1>2, <1>3

(* A trust flag that an ACL justified stays justified by it.               *)
LEMMA NextTrust ==
  ASSUME DeliveryInv, TrustIsJustified, [AttestationNext]_allVars
  PROVE  TrustIsJustified'
  <1> SUFFICES ASSUME NEW v \in Vehicles, NEW a \in attestations'[v]
               PROVE  \E acl \in acls'[v] : JustifiedBy(v, a, acl)'
    BY DEF TrustIsJustified, JustifiedBy
  <1>1. PICK acl \in acls[v] : JustifiedBy(v, a, acl)
    BY RowsGrow DEF TrustIsJustified
  <1>2. vehicles[v] # NoVehicle
    BY <1>1 DEF DeliveryInv, JourneyInv, OnlyOwnerPublishes
  <1>3. acls[v] \subseteq acls'[v] /\ vehicles'[v].owner = vehicles[v].owner
    BY <1>2, JourneyBelow, VehiclesStay DEF DeliveryInv, JourneyInv
  <1> QED
    BY <1>1, <1>3 DEF JustifiedBy

(* The later of two reports about rival claims names the earlier claim,    *)
(* and a row inserted by a step has no report yet.                         *)
LEMMA NextForks ==
  ASSUME DeliveryInv, OneRowPerKey, ReadsAreOnFile, ReportsAreOnFile,
         ForksAreNoticed, [AttestationNext]_allVars
  PROVE  ForksAreNoticed'
  <1> SUFFICES ASSUME NEW v \in Vehicles, NEW a \in attestations'[v],
                      NEW b \in attestations'[v],
                      a # b, a.prior = b.prior, a.prior # NoPrior,
                      NEW x \in reported'[v], NEW y \in reported'[v],
                      x[1] = ReplayKey(a), y[1] = ReplayKey(b)
               PROVE  ReplayKey(b) \in x[2] \/ ReplayKey(a) \in y[2]
    BY DEF ForksAreNoticed, ReplayKey
  <1>1. CASE x \in reported[v] /\ y \in reported[v]
    <2>1. a \in attestations[v] /\ b \in attestations[v]
      <3>1. PICK c \in attestations[v] : ReplayKey(c) = ReplayKey(a)
        BY <1>1 DEF ReportsAreOnFile
      <3>2. PICK e \in attestations[v] : ReplayKey(e) = ReplayKey(b)
        BY <1>1 DEF ReportsAreOnFile
      <3>3. attestations[v] \subseteq attestations'[v]
        BY RowsGrow
      <3>4. c = a
        BY <3>1, <3>3, RowsGrow DEF OneRowPerKey
      <3>5. e = b
        BY <3>2, <3>3, RowsGrow DEF OneRowPerKey
      <3> QED
        BY <3>1, <3>2, <3>4, <3>5
    <2> QED
      BY <1>1, <2>1 DEF ForksAreNoticed
  <1>2. CASE x \notin reported[v]
    <2>1. PICK c \in attestations[v] :
            /\ ReplayKey(c) = x[1]
            /\ \A e \in attestations[v] :
                 e # c /\ e.prior = c.prior => ReplayKey(e) \in x[2]
      BY <1>2, ReportSteps
    <2>2. attestations' = attestations
      BY <1>2, ReportSteps
    <2>3. c = a
      BY <2>1, <2>2 DEF OneRowPerKey
    <2> QED
      BY <2>1, <2>2, <2>3
  <1>3. CASE y \notin reported[v]
    <2>1. PICK c \in attestations[v] :
            /\ ReplayKey(c) = y[1]
            /\ \A e \in attestations[v] :
                 e # c /\ e.prior = c.prior => ReplayKey(e) \in y[2]
      BY <1>3, ReportSteps
    <2>2. attestations' = attestations
      BY <1>3, ReportSteps
    <2>3. c = b
      BY <2>1, <2>2 DEF OneRowPerKey
    <2> QED
      BY <2>1, <2>2, <2>3
  <1> QED
    BY <1>1, <1>2, <1>3

(* AttestationInv is an inductive invariant of the attestation handlers    *)
(* and the journeys below them.                                            *)
LEMMA AttestationInvInductive ==
  /\ AttestationInit => AttestationInv
  /\ AttestationInv /\ [AttestationNext]_allVars => AttestationInv'
  <1>1. AttestationInit => AttestationInv
    <2> SUFFICES ASSUME AttestationInit PROVE AttestationInv
      OBVIOUS
    <2>1. JourneyInv
      BY JourneyInvInductive DEF AttestationInit
    <2>2. AttestationTypeOK
      BY <2>1 DEF AttestationInit, AttestationTypeOK, JourneyInv
    <2>3. OneRowPerKey /\ TrustIsJustified /\ ForksAreNoticed /\ ReportsAreOnFile
      BY DEF AttestationInit, OneRowPerKey, TrustIsJustified, ForksAreNoticed,
             ReportsAreOnFile
    <2>4. DeliveriesRest /\ ReadsAreOnFile
      BY DEF AttestationInit, DeliveriesRest, ReadsAreOnFile
    <2> QED
      BY <2>1, <2>2, <2>3, <2>4 DEF AttestationInv
  <1>2. AttestationInv /\ [AttestationNext]_allVars => AttestationInv'
    <2> SUFFICES ASSUME AttestationInv, [AttestationNext]_allVars
                 PROVE  AttestationInv'
      OBVIOUS
    <2>1. DeliveryInv /\ OneRowPerKey /\ ReadsAreOnFile /\ ReportsAreOnFile
          /\ TrustIsJustified /\ ForksAreNoticed
      BY DEF AttestationInv, DeliveryInv
    <2>2. JourneyInv'
      BY NextJourneyInv DEF AttestationInv
    <2> QED
      BY <2>1, <2>2, NextAttestationType, NextDeliveriesRest, NextOneRow,
         NextReads, NextReports, NextTrust, NextForks DEF AttestationInv
  <1> QED
    BY <1>1, <1>2

-----------------------------------------------------------------------------
(* The theorems.                                                           *)

(* AttestationInv holds in every reachable state, for every value of the   *)
(* constants.                                                              *)
THEOREM AttestationInvHolds == AttestationSpec => []AttestationInv
  BY AttestationInvInductive, PTL DEF AttestationSpec

(* Every stored trust flag follows from an ACL on file that is effective by*)
(* the attestation's time and is not older than the one in force for that  *)
(* time when the driver signed, although owners publish ACLs between the   *)
(* signing, the steps that compute the flag and the one that stores it     *)
(* (driver_attestation_trust.go, classify).                                *)
THEOREM TrustStaysJustified == AttestationSpec => []TrustIsJustified
  <1>1. AttestationInv => TrustIsJustified
    BY DEF AttestationInv
  <1> QED
    BY <1>1, AttestationInvHolds, PTL

(* However deliveries of one attestation overlap, a delivery that lost the *)
(* race finds exactly one row, and every answer is the stored row          *)
(* (driver_attestations.go, handleRecordDriverAttestation).                *)
THEOREM AnswersAreStored == AttestationSpec => []AnswersComeFromStore
  <1>1. AttestationInv => AnswersComeFromStore
    <2> SUFFICES ASSUME AttestationInv, NEW d \in Deliveries,
                        InStage(d, "collided") \/ InStage(d, "recorded")
                 PROVE  LET q == deliveries[d] IN
                        /\ Cardinality(Existing(q)) = 1
                        /\ InStage(d, "recorded") => Existing(q) = {Row(q)}
      BY DEF AnswersComeFromStore
    <2> DEFINE q == deliveries[d]
    <2>1. q \in Delivery /\ DeliveryRests(q) /\ q.vehicle \in Vehicles
      BY StageType, DeliveryFields DEF AttestationInv, DeliveriesRest, InStage
    <2>2. \A a, b \in Existing(q) : a = b
      BY <2>1 DEF AttestationInv, OneRowPerKey, Existing
    <2>3. CASE InStage(d, "recorded")
      <3>1. Row(q) \in attestations[q.vehicle]
        BY <2>1, <2>3 DEF DeliveryRests, InStage
      <3>2. ReplayKey(Row(q)) = ReplayKey(q)
        BY DEF ReplayKey, Row
      <3>3. Row(q) \in Existing(q) /\ Existing(q) = {Row(q)}
        BY <2>2, <3>1, <3>2 DEF Existing
      <3>4. Cardinality({Row(q)}) = 1
        BY FS_Singleton, Zenon
      <3> QED
        BY <3>3, <3>4
    <2>4. CASE InStage(d, "collided")
      <3>1. PICK a : a \in Existing(q)
        BY <2>1, <2>4 DEF DeliveryRests, InStage
      <3>2. Existing(q) = {a}
        BY <2>2, <3>1
      <3>3. Cardinality({a}) = 1
        BY FS_Singleton, Zenon
      <3> QED
        BY <2>4, <3>2, <3>3 DEF InStage
    <2> QED
      BY <2>3, <2>4
  <1> QED
    BY <1>1, AttestationInvHolds, PTL

(* Of two rival claims that have both been answered, at least one answer   *)
(* names the other (driver_attestations.go, the fork siblings of both      *)
(* answers).                                                               *)
THEOREM ForksStayNoticed == AttestationSpec => []ForksAreNoticed
  <1>1. AttestationInv => ForksAreNoticed
    BY DEF AttestationInv
  <1> QED
    BY <1>1, AttestationInvHolds, PTL

(* No step drops or rewrites a recorded attestation (driver_attestation.go,*)
(* RecordDriverAttestation).                                               *)
THEOREM RecordedStays == AttestationSpec => RecordedIsFinal
  <1>1. AttestationInv /\ [AttestationNext]_allVars =>
          [\A v \in Vehicles : attestations[v] \subseteq attestations'[v]]_allVars
    BY RowsGrow DEF AttestationInv, DeliveryInv
  <1> QED
    BY <1>1, AttestationInvHolds, PTL DEF AttestationSpec, RecordedIsFinal
=============================================================================
