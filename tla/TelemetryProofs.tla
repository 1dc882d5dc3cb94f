-------------------------- MODULE TelemetryProofs --------------------------
(***************************************************************************)
(* Proofs about Telemetry, for every set of uploads and batches and every  *)
(* bound on the rows of a batch, over the journeys of JourneyProofs.       *)
(***************************************************************************)
EXTENDS Telemetry, JourneyProofs

(* Every step is a step of the journeys below, or leaves them alone.       *)
LEMMA JourneysBelow ==
  ASSUME [TelemetryNext]_journeyVars
  PROVE  [JourneyNext]_vars
  BY DEF TelemetryNext, journeyVars, BeginUpload, CheckUploader,
         RecordTelemetryBatch, RefuseUpload

(* Beside telemetry uploads the journeys and their vehicles behave as they *)
(* do alone, so that every theorem of JourneyProofs holds of the           *)
(* composition too (telemetry.go of storage writes no table that journeys  *)
(* and their vehicles are kept in).                                        *)
THEOREM JourneysBesideTelemetry == TelemetrySpec => JourneySpec
  <1>1. TelemetryInit => Init
    BY DEF TelemetryInit
  <1>2. [TelemetryNext]_journeyVars => [JourneyNext]_vars
    BY JourneysBelow
  <1> QED
    BY <1>1, <1>2, PTL DEF TelemetrySpec, JourneySpec

(* An upload under way, and the key of its row.                            *)
LEMMA UploadType ==
  ASSUME TelemetryTypeOK, NEW p \in Uploads, uploads[p] # Idle
  PROVE  /\ uploads[p] \in Upload
         /\ KeyOf(uploads[p]) \in BatchKeys
         /\ batches[KeyOf(uploads[p])] \in Nat
  BY DEF TelemetryTypeOK, Upload, KeyOf, BatchKeys

(* Every step leaves well-typed uploads and counts.                        *)
LEMMA NextTelemetryType ==
  ASSUME TelemetryTypeOK, [TelemetryNext]_journeyVars
  PROVE  TelemetryTypeOK'
  <1>1. ASSUME NEW p \in Uploads, NEW j \in Journeys, NEW u \in Users,
               NEW b \in Batches, BeginUpload(p, j, u, b)
        PROVE  TelemetryTypeOK'
    BY <1>1 DEF BeginUpload, TelemetryTypeOK, Upload
  <1>2. ASSUME NEW p \in Uploads, CheckUploader(p) PROVE TelemetryTypeOK'
    <2>1. uploads[p] \in Upload
      BY <1>2, UploadType DEF CheckUploader, UploadAt
    <2>2. [uploads[p] EXCEPT !.stage = "member"] \in Upload
      BY <2>1 DEF Upload
    <2> QED
      BY <1>2, <2>2 DEF CheckUploader, TelemetryTypeOK
  <1>3. ASSUME NEW p \in Uploads, RecordTelemetryBatch(p) PROVE TelemetryTypeOK'
    <2>1. /\ KeyOf(uploads[p]) \in BatchKeys
          /\ batches[KeyOf(uploads[p])] + 1 \in 0..MaxCopies
      BY <1>3, UploadType, TelemetryAssumptions DEF RecordTelemetryBatch, UploadAt
    <2> QED
      BY <1>3, <2>1 DEF RecordTelemetryBatch, TelemetryTypeOK
  <1>4. ASSUME NEW p \in Uploads, RefuseUpload(p) PROVE TelemetryTypeOK'
    BY <1>4 DEF RefuseUpload, TelemetryTypeOK
  <1>5. CASE UNCHANGED telemetryVars
    BY <1>5 DEF telemetryVars, TelemetryTypeOK
  <1> QED
    BY <1>1, <1>2, <1>3, <1>4, <1>5 DEF TelemetryNext, journeyVars

(* TelemetryInv holds in every reachable state, for every value of the     *)
(* constants.                                                              *)
THEOREM TelemetryInvHolds == TelemetrySpec => []TelemetryInv
  <1>1. TelemetryInit => TelemetryInv
    BY JourneyInvInductive, TelemetryAssumptions
    DEF TelemetryInit, TelemetryInv, TelemetryTypeOK
  <1>2. TelemetryInv /\ [TelemetryNext]_journeyVars => TelemetryInv'
    BY JourneysBelow, JourneyInvInductive, NextTelemetryType DEF TelemetryInv
  <1> QED
    BY <1>1, <1>2, PTL DEF TelemetrySpec

-----------------------------------------------------------------------------

(* An upload waits for its insert after the step only if it did before, or *)
(* its user is in the journey now.                                         *)
LEMMA PastCheckGrows ==
  ASSUME TelemetryTypeOK, [TelemetryNext]_journeyVars, NEW j \in Journeys,
         NEW u \in Users, u \notin joined[j]
  PROVE  PastCheck(j, u)' \subseteq PastCheck(j, u)
  <1> SUFFICES ASSUME NEW p \in Uploads, uploads'[p] # Idle,
                      uploads'[p].stage = "member",
                      uploads'[p].journey = j, uploads'[p].user = u
               PROVE  p \in PastCheck(j, u)
    BY DEF PastCheck, UploadAt
  <1>0. CASE uploads'[p] = uploads[p]
    BY <1>0 DEF PastCheck, UploadAt
  <1>1. ASSUME NEW q \in Uploads, NEW i \in Journeys, NEW w \in Users,
               NEW b \in Batches, BeginUpload(q, i, w, b), uploads'[p] # uploads[p]
        PROVE  FALSE
    BY <1>1 DEF BeginUpload, TelemetryTypeOK
  <1>2. ASSUME NEW q \in Uploads, CheckUploader(q), uploads'[p] # uploads[p]
        PROVE  FALSE
    <2>1. q = p /\ uploads[p] \in Upload /\ IsParticipant(uploads[p])
      BY <1>2, UploadType DEF CheckUploader, TelemetryTypeOK, UploadAt
    <2>2. uploads'[p] = [uploads[p] EXCEPT !.stage = "member"]
      BY <1>2, <2>1 DEF CheckUploader, TelemetryTypeOK
    <2>3. uploads[p].journey = j /\ uploads[p].user = u
      BY <2>1, <2>2 DEF Upload
    <2> QED
      BY <2>1, <2>3 DEF IsParticipant
  <1>3. ASSUME NEW q \in Uploads, uploads' = [uploads EXCEPT ![q] = Idle],
               uploads'[p] # uploads[p]
        PROVE  FALSE
    BY <1>3 DEF TelemetryTypeOK
  <1> QED
    BY <1>0, <1>1, <1>2, <1>3
    DEF TelemetryNext, journeyVars, telemetryVars, RecordTelemetryBatch, RefuseUpload

(* An insert for a user takes its upload off those that wait.              *)
LEMMA InsertUsesUpload ==
  ASSUME TelemetryTypeOK, [TelemetryNext]_journeyVars, NEW j \in Journeys,
         NEW u \in Users, RowsOf(j, u)' # RowsOf(j, u)
  PROVE  PastCheck(j, u)' # PastCheck(j, u)
  <1>1. PICK b \in Batches : batches'[<<j, u, b>>] # batches[<<j, u, b>>]
    BY DEF RowsOf
  <1>2. PICK p \in Uploads : RecordTelemetryBatch(p)
    BY <1>1 DEF TelemetryNext, journeyVars, telemetryVars, BeginUpload,
                CheckUploader, RefuseUpload
  <1>3. uploads[p] \in Upload /\ KeyOf(uploads[p]) = <<j, u, b>>
    <2>1. uploads[p] \in Upload /\ KeyOf(uploads[p]) \in BatchKeys
      BY <1>2, UploadType DEF RecordTelemetryBatch, UploadAt
    <2>2. <<j, u, b>> \in BatchKeys
      BY DEF BatchKeys
    <2> HIDE DEF KeyOf
    <2> QED
      BY <1>1, <1>2, <2>1, <2>2 DEF RecordTelemetryBatch, TelemetryTypeOK
  <1>4. p \in PastCheck(j, u)
    BY <1>2, <1>3 DEF PastCheck, RecordTelemetryBatch, KeyOf
  <1>5. uploads'[p] = Idle
    BY <1>2 DEF RecordTelemetryBatch, TelemetryTypeOK
  <1>6. p \notin PastCheck(j, u)'
    BY <1>5 DEF PastCheck, UploadAt
  <1> QED
    BY <1>4, <1>6

(* Who is not in a journey gets no upload past the membership check and no *)
(* more rows than had passed it before they left, however uploads repeat   *)
(* and overlap (api/telemetry.go, handleJourneyTelemetry).                 *)
THEOREM DepartureEndsUploads == TelemetrySpec => DepartedUploaderIsShutOut
  <1>1. TelemetryInv /\ [TelemetryNext]_journeyVars =>
          [\A j \in Journeys, u \in Users :
             u \notin joined[j] =>
               /\ PastCheck(j, u)' \subseteq PastCheck(j, u)
               /\ RowsOf(j, u)' # RowsOf(j, u) =>
                    PastCheck(j, u)' # PastCheck(j, u)]_journeyVars
    BY PastCheckGrows, InsertUsesUpload DEF TelemetryInv
  <1> QED
    BY <1>1, TelemetryInvHolds, PTL DEF TelemetrySpec, DepartedUploaderIsShutOut
=============================================================================
