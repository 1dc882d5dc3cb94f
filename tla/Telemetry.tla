----------------------------- MODULE Telemetry -----------------------------
(***************************************************************************)
(* Telemetry uploads: telemetry.go of internal/platform/storage behind     *)
(* telemetry.go of internal/server/api, beside the vehicles of the same    *)
(* journeys.                                                               *)
(*                                                                         *)
(* An upload is three Store calls: does the journey exist, is the caller a *)
(* joined participant, insert.  A client that gets no answer uploads the   *)
(* batch again, perhaps while the first upload is still being served.      *)
(* device_id is never set, and UNIQUE (device_id, client_batch_id) does    *)
(* not apply to NULLs, so each insert succeeds.                            *)
(***************************************************************************)
EXTENDS JourneyVehicles

CONSTANTS
  Uploads,   \* slots for uploads that are being served
  Batches,   \* the client_batch_ids of a user's one device
  MaxCopies  \* bound: rows recorded for one batch

ASSUME TelemetryAssumptions == MaxCopies \in Nat

VARIABLES
  uploads,  \* uploads between two Store calls
  batches   \* telemetry_batches: rows per journey, participant and batch

telemetryVars == <<uploads, batches>>

journeyVars == <<vars, telemetryVars>>

BatchKeys == Journeys \X Users \X Batches

Upload ==
  [stage : {"found", "member"}, journey : Journeys, user : Users, batch : Batches]

KeyOf(q) == <<q.journey, q.user, q.batch>>

TelemetryTypeOK ==
  /\ uploads \in [Uploads -> {Idle} \cup Upload]
  /\ batches \in [BatchKeys -> 0..MaxCopies]

TelemetryInit ==
  /\ Init
  /\ uploads = [p \in Uploads |-> Idle]
  /\ batches = [k \in BatchKeys |-> 0]

UploadAt(p, stage) == uploads[p] # Idle /\ uploads[p].stage = stage

(* JourneyByID, then the body.                                             *)
BeginUpload(p, j, u, b) ==
  /\ uploads[p] = Idle
  /\ j \in journeys
  /\ uploads' = [uploads EXCEPT
       ![p] = [stage |-> "found", journey |-> j, user |-> u, batch |-> b]]
  /\ UNCHANGED <<vars, batches>>

AnyEnrolledUser(q) == q.user \in Users

(* JourneyParticipantByUserAndJourney.                                     *)
IsParticipant(q) == q.user \in joined[q.journey]

CheckUploader(p) ==
  /\ UploadAt(p, "found")
  /\ IsParticipant(uploads[p])
  /\ uploads' = [uploads EXCEPT ![p].stage = "member"]
  /\ UNCHANGED <<vars, batches>>

(* The insert, and the 202, which may never arrive.                        *)
RecordTelemetryBatch(p) ==
  LET k == KeyOf(uploads[p]) IN
  /\ UploadAt(p, "member")
  /\ batches[k] < MaxCopies
  /\ batches' = [batches EXCEPT ![k] = @ + 1]
  /\ uploads' = [uploads EXCEPT ![p] = Idle]
  /\ UNCHANGED vars

(* Not a participant, a body that does not validate, or a failing database.*)
RefuseUpload(p) ==
  /\ uploads[p] # Idle
  /\ uploads' = [uploads EXCEPT ![p] = Idle]
  /\ UNCHANGED <<vars, batches>>

TelemetryNext ==
  \/ JourneyNext /\ UNCHANGED telemetryVars
  \/ \E p \in Uploads, j \in Journeys, u \in Users, b \in Batches :
       BeginUpload(p, j, u, b)
  \/ \E p \in Uploads : CheckUploader(p)
  \/ \E p \in Uploads : RecordTelemetryBatch(p)
  \/ \E p \in Uploads : RefuseUpload(p)

TelemetrySpec == TelemetryInit /\ [][TelemetryNext]_journeyVars

-----------------------------------------------------------------------------

(* The uploads of a user to a journey that wait for their insert.          *)
PastCheck(j, u) ==
  {p \in Uploads : UploadAt(p, "member") /\ uploads[p].journey = j
                                         /\ uploads[p].user = u}

RowsOf(j, u) == [b \in Batches |-> batches[<<j, u, b>>]]

(* Who is not, or no longer, in a journey has no more telemetry recorded   *)
(* there than was on its way: none of their uploads passes the membership  *)
(* check, and every row added for them uses up one that had passed it,     *)
(* although the check and the insert are two Store calls (api/telemetry.go,*)
(* handleJourneyTelemetry).                                                *)
DepartedUploaderIsShutOut ==
  [][\A j \in Journeys, u \in Users :
       u \notin joined[j] =>
         /\ PastCheck(j, u)' \subseteq PastCheck(j, u)
         /\ RowsOf(j, u)' # RowsOf(j, u) =>
              PastCheck(j, u)' # PastCheck(j, u)]_journeyVars

TelemetryInv == JourneyInv /\ TelemetryTypeOK

-----------------------------------------------------------------------------
(* What the documentation says, and the program does not do.               *)

(* api/telemetry.go: "Retrying an already-accepted (device,                *)
(* client_batch_id) tuple returns a 409 rather than recording a duplicate".*)
RetryIsNotRecordedAgain == \A k \in BatchKeys : batches[k] <= 1
=============================================================================
