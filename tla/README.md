# TLA+ models of spivot-server

spivot-server is the reference back end of OpenCaravan: an HTTP server in Go over
one SQLite database, and a command line that works on the same database. These
modules model its state-changing operations at the grain at which they can
interleave, TLC checks them on small instances, and TLAPS proves their safety
properties and refinements for every instance.

`PROJECT.json` maps every definition to the lines it models, lists the runs, the
mutants that show each property can fail, the hazards, the findings and the theorems.

## The system

### What makes a step

`storage.Open` sets `SetMaxOpenConns(1)` (`storage/store.go:42`). A `Store` method is
one statement or one transaction on the only connection, so it is one atomic step in
every module. A handler that makes several `Store` calls is several steps and holds
what it read in a request slot; any other request, and the command line, which is
another process, runs in between. Three consequences shape the models:

- authority is read in one step and used in a later one;
- where a method reads the clock before it waits for the connection, reading the clock
  is a step of its own (`Enrollment`);
- a crash loses the request slots and keeps the rows.

`Lifecycle` looks below that grain, at the statements and system calls of a start, because there
the processes share files without the one connection between them.

### Components

| Component | State | Operations that change it | Interacts with |
|---|---|---|---|
| Garages | `garages`, `garage_revisions`, `garage_owners`, `garage_ownership_acceptances` | create, append a signed revision (which reconciles the owner rows), accept ownership | vehicles ask it for authority |
| Garage invites | `garage_invites`, `garage_invite_redemptions` | issue, revoke, redeem (which writes an owner row); they expire | garages |
| Garage vehicles | `garage_vehicles`, their revisions | create, revise | garages |
| Journeys | `journeys`, `journey_participants` | create with the host | journey vehicles, telemetry |
| Journey vehicles and ACLs | `journey_vehicles`, metadata and ACL revisions | upload, publish metadata, publish an ACL | journeys |
| Driver attestations | `driver_attestations` | record, with a trust flag; replays and forks | journey vehicles, ACLs, journeys |
| Registration invites, enrollment | `client_app_invites`, `accounts`, `client_apps`, `issued_certificates` | issue, look up, consume with the new account | bootstrap, identity CA |
| Bootstrap | none of its own | print one invite when there is no account and none outstanding | registration invites |
| Sessions | `macaroon_roots`, the issuer's root in memory, macaroons held by clients | mint a root, issue, verify, attenuate (by holders) | identity middleware |
| Identity middleware | reads `issued_certificates` | attaches an identity to a request | all routes |
| Identity CA, key store | key and certificate files | load or create, sign | enrollment, the `ca` commands |
| Store, migrations, policy snapshot | the schema, `schema_migrations`, `server_policy_snapshots` | apply what is missing, insert the default policy | everything; the `invite` command is another process on the same file |
| Server lifecycle | the process: its context, signal channel, `http.Server` | start, listen, shut down, exit | store, CA, every request in flight |
| Telemetry | `telemetry_batches` | record a batch | journeys |
| Signed-payload verification | reads `issued_certificates` | accepts or refuses a payload | sessions, handlers of signed payloads |
| Proxy headers, routes, OpenAPI, logging | none | pure or I/O | handlers |

### What is hard here

- *Check, then act* over several `Store` calls: garage revisions, vehicle edits, journey
  publications, trust classification, minting under an administrator-only policy.
- *Version races*: clients choose the next revision version; it must be strictly above
  the head, may skip, and several clients choose at once.
- *Consent histories*: owners are invited, accept, are removed, invited again, redeem an
  invite, in any order and with late messages.
- *Offline clients*: attestations are signed before they arrive, arrive twice, and are
  classified by ACLs published since.
- *Limits under races*: single-use invites, `max_redemptions`, outstanding invites per
  user, all with clock readings that may be old.
- *Restarts and crashes* at startup: the bootstrap invite, the macaroon root, the CA files,
  migrations. A kill keeps what was written, a power loss keeps what was synced.
- *Several processes* of different builds on the same files: `serve`, `invite create`, `ca`.
- *Shutdown*: four goroutines (main, signals, shutdown, requests) that nothing joins.
- *Retries without a key*: telemetry uploads repeat, and nothing recognises the repetition.
- *Revocation and rotation* under way while requests are served; caveats appended by
  holders that repeat or contradict the issued ones.

`PROJECT.json` "hazards" has each at its line with the properties that cover it.

### What makes each part correct

- Garages: the head is the newest revision, versions are unique and nothing recorded is
  lost; somebody can always revise; an acceptance serves one invitation; every owner row
  goes back to a record that explains it.
- Invites: never more redemptions than the limit, none by a revoked one, each user once.
- Vehicles: a vehicle stays in its garage, its row mirrors its newest revision, its
  signers were owners when the request was authorized, and who has been removed signs no
  more than was already past the check.
- Journey vehicles: only the owner publishes, and a vehicle whose owner has left takes no
  publication except those that were already past the check.
- Attestations: one row per replay key, its trust flag final and given by an ACL that was
  in force for the attested time when the driver signed or since, every answer is the
  stored row, forks are noticed by whoever records or asks.
- Telemetry: who has left a journey has no more recorded there than was past the check; a
  repeated batch is recorded once (it is not: see the findings).
- Enrollment: one account per invite, none late, caps hold, only the founding administrator
  mints where the policy says so, startup leaves a usable invite.
- Sessions: admitted exactly within grant and appended caveats, refused only for a reason,
  one active root, a signed payload passes only if it is the caller's own, revocation shuts out.
- Store: the schema is always the versions 1..n of some build, applied once and in order.
- CA: a key that was created stays the server's key; no start finds files it cannot use.
- Lifecycle: what serves is ready, a start and a shutdown come to an end, and a shutdown is
  graceful (it is not: see the findings).

## Modules

| Module | Models | Composition |
|---|---|---|
| `RevisionChain` | abstract: a chain is born at 1, grows strictly, the head is the newest, nothing is dropped | implemented by the four histories below |
| `Garage` | `storage/garage.go`, `garage_invite.go`, `api/garages.go`, `garage_invites.go` | garages with their invites |
| `GarageVehicles` | `storage/garage_vehicle.go`, `api/garage_vehicles.go` | extends `Garage`: ownership changes under vehicle requests |
| `JourneyVehicles` | `storage/journey.go`, `journey_vehicle.go`, `api/journeys.go`, `journey_vehicles.go` | |
| `DriverAttestations` | `storage/driver_attestation.go`, `api/driver_attestations.go`, `driver_attestation_trust.go` | extends `JourneyVehicles`: ACLs are published under classification |
| `Telemetry` | `storage/telemetry.go`, `api/telemetry.go` | extends `JourneyVehicles`: uploads beside the vehicles of the same journey, while participants leave |
| `Enrollment` | `storage/invite.go`, `enrollment.go`, `api/enrollment.go`, `client_app_invites.go`, the bootstrap invite and `invite create` of `cmd/spivot-server` | |
| `Sessions` | `auth/macaroon`, `middleware`, `storage/macaroon_root.go`, `identity.go`, `api/sessions.go`, `api/integrity_verify.go`, `auth/integrity`, the issuer's startup | sessions, and the signed payloads behind them |
| `Store` | `storage/store.go`, `migrations.go`, `server_policy.go` | |
| `IdentityCA` | `identity/ca.go`, `keystore.go` | |
| `Lifecycle` | `runServe`, `runInvite`, `runCA` of `cmd/spivot-server`, `app/app.go`, `Start` and `Shutdown` of `api/server.go` | extends `Store` and `IdentityCA`: one server, the commands beside it, kills and power losses |
| `GarageProofs`, `GarageVehicleProofs`, `JourneyProofs`, `AttestationProofs`, `TelemetryProofs`, `EnrollmentProofs`, `SessionsProofs`, `LifecycleProofs` | theorems | each extends the module it is about; the proofs about a composition extend those about its parts where they use them |
| `MC*` | symmetry sets, value sets and state constraints for TLC | |

State and actions keep the names of the code where there is one: a variable is a table
(or the request slots), an action a `Store` call or the part of a handler between two of
them. Every handler that refuses or whose `Store` call fails returns its slot to idle.

Abstractions, the same in all modules. A signed payload is the fields that decide control:
version, signer, owner lists, driver list, effective time, prior digest. Signature
verification is in `Sessions`, where an envelope is the user it claims, the app it names and
the key that made the signature; in the other modules it is part of a request being refused.
UUIDs and tokens are model values: the code mints
them at random and stores hashes. Times are small naturals. A macaroon is the grant it was
issued for and the caveats appended to it; the HMAC chain guarantees that caveats can be
appended and not removed, which is assumed of the library. Structural validation of the
`opencaravan-go` library appears as the conjuncts the properties need (for a garage: the
signer is among its accepted owners). `acl_version_consulted` is a number the client sends,
which the server stores and compares with nothing; in its place attestations carry the history
field `inForce`, the version that was in force for the attested time when the driver signed.
An invite issued by the command line or at startup is one step, its clock reading included: its
expiry counts from that reading, and nothing else is compared with it.

External actions. `journey_participants.state`, `issued_certificates.revoked_at`,
`macaroon_roots.rotated_time` are read by the code and written by none of it. The models
let the environment write them (participants leave and rejoin, certificates are revoked,
roots rotated), because the code that reads them must be right when they change. A rotation
is one transaction, as `000005_macaroon_roots.sql:15` describes it; the half-completed rotation
that `macaroon_root.go:121` mentions is an operator's, and no code can produce it. Two first
starts at once on one database would mint two roots: `main.go:969` excludes them by
one process per database, and so does the model.

What the machine may do. Killing a process loses its memory and nothing else. A power loss ends
every process and keeps a prefix of the database's commits, any prefix: under WAL with
`synchronous = NORMAL` a commit is on disk only after a checkpoint, and when SQLite checkpoints
is its own affair. In the identity directory it keeps a prefix of the renames that includes those
an fsync of the directory has covered, and tears a file whose content was not fsynced; that
directory changes reach the disk in order is assumed of the file system. The mutex of
`FileKeyStore` is process-local and "cross-process concurrency against the same directory is the
operator's responsibility" (`keystore.go:109`), so the model has the operator discharge it:
`RunServe` is not begun in the middle of a `ca` command, and `CACommand` not while the server starts.
Neither condition is in the code. `http.Server` is modelled by what `net/http` documents: `ListenAndServe` returns when
`Shutdown` has closed the listener, and `Shutdown` returns when the requests are done or its
context ends; a connection accepted before may still deliver a request after the listener is
closed. `s.server` is written by `Start` and read by `Shutdown` in another goroutine without
synchronisation: until `ListenAndServe` is entered, the read may yield either value.

## Runs

Passing runs. `lifecycle` checks for deadlock. It is off in the others: the bounds on versions,
time and requests make every behaviour stop, and a server without requests is idle.

| Run | Bounds | States | Shows |
|---|---|---|---|
| `garage` | 2 users, 1 garage, 1 invite with limit 1 or 2, 2 requests, versions to 4 | 527,265 | heads, owners, acceptances and invites stay consistent under every interleaving; garages implement `RevisionChain` |
| `garage_vehicles` | 2 users, 2 garages, 1 vehicle, 2 vehicle requests, vehicle versions to 3 | 427,252 | a vehicle stays in its garage, row and history agree, signers were owners, removal shuts out; refinement |
| `journey_vehicles` | 2 users, 1 journey, 2 vehicles, 2 requests, 3 revisions and 3 ACLs; 2 uploads of 1 batch, 2 rows | 24,360 | ownership, the freeze on departure, no telemetry of who has left; both histories refine the chain |
| `driver_attestations` | 2 users, 2 deliveries, 2 ACL versions, 2 times, with and without emergency rule; 1 predecessor digest, 1 reader of the current driver | 1,020,402 | one final row per replay key, trust justified, answers from the store; of two racing claims at least one answer names the other |
| `enrollment` | 2 enrollments, 2 mints, cap 1, lifetime 2, clock to 3, 2 starts, all three policies | 1,086,186 | single use, expiry, cap and administrator under races, restarts and old clock readings; startup liveness |
| `sessions` | 2 certificates, 2 roots, 2 journeys, 2 journey actions and 1 other, 1 grant, lifetimes default and maximum, clock to 3, 2 starts | 779,956 | admission, refusal, attenuation, rotation, signed payloads, revocation |
| `lifecycle` | a server, 1 command on the store, 1 on the CA, builds with 2 and 3 migrations, 3 keys, 1 request at once | 170,020 | gapless migrations, a lasting CA key, no start that needs repair, readiness; liveness of start and shutdown |

Why the bounds are enough. Every race of the code is between two requests, so two slots
reach it; a third repeats it. Four garage versions allow a user to be added, removed, added
again and superseded, which is the longest history `OwnersAreAccountedFor` and
`AcceptanceSettlesInvitation` distinguish; two users give each a counterpart. Limits of 1 and
2 include the last use and the one before. Two ACLs and two times include the backdated
ACL. Sessions use one grant and one request because requests share nothing but the rows
that the environment's actions change; the grants differ over all its initial choices. The
state constraints of two runs leave out products of parts that do not write what the other reads:
`OneConcernAtATime` of `journey_vehicles` (a behaviour has vehicles or telemetry), and `ForksOrTrust` of
`driver_attestations` (claims on a predecessor and reads of the current driver over one plain ACL,
or ACLs published by an owner who stays and attestations without a predecessor). Two
builds and three migrations give the lifecycle an older and a newer binary that share a prefix
and a migration to race for; nothing bounds the number of starts, kills or power losses. Its
keys suffice because a key is generated only into an empty directory: `FreshKey` always finds one.
Symmetry
is declared over sets whose elements no definition tells apart, and not in the `enrollment` and
`lifecycle` runs, which check liveness.

The type invariants of modules that have none in their run (`SessionTypeOK`, `AttestationTypeOK`,
`EnrollmentTypeOK`, `TelemetryTypeOK`, `LifecycleTypeOK`) are parts of the inductive invariants, which
hold on the same instances and are proved.

Every property has a mutant in `PROJECT.json` (a dropped guard, a tie broken the other way, a
missing reset) under which TLC finds it violated.

### Fairness

`Lifecycle!Spec` assumes weak fairness of each step of the start, of main's way out of
`ListenAndServe`, and of the signal and shutdown goroutines: straight-line code that nothing
blocks, which the Go scheduler eventually runs. It assumes nothing of signals, requests, handlers,
the drain, the commands, kills or power losses. Under it every start ends (`StartupDecides`), and
a shutdown that closed the listener, or a second signal, ends the process (`ServerStops`).

`Enrollment!FairSpec` assumes weak fairness of the startup steps (`BootNext`) alone:
`emitBootstrapInviteIfNeeded` is straight-line code that runs before the server serves, so
once begun it goes on until it returns or the process dies. Nothing is assumed of clients, of
the clock, of restarts or of the command line. Bootstrap tokens are finitely many in the
model; two are enough for two starts.

### Findings

Each is a run that TLC refutes, against a line of the repository.

| Run | The repository says | The program does |
|---|---|---|
| `garage_replay` | after `ErrGarageOwnershipAlreadyAccepted` "the lookup should always hit" (`storage/garage.go:401`); a replay answers 200 (`docs/vehicles.md:161`) | an owner accepted by creation, by a payload's `accepted_time` or by a redeemed invite has no acceptance row: the lookup misses, the answer is 500 |
| `garage_authority` | "Authority: caller must be an accepted owner" (`api/garages.go:322`) | the check is a `Store` call before the append, and the append does not repeat it: a caller removed in between records a revision |
| `late_sync` | "a driver who was authorized at attestation time stays authorized when their attestation finally syncs" (`docs/vehicles.md:65`) | a higher ACL version with an earlier effective time changes the classification |
| `telemetry_retry` | "Retrying an already-accepted (device, client_batch_id) tuple returns a 409 rather than recording a duplicate" (`api/telemetry.go:32`, also `:97` and `docs/vehicles.md:156`) | `device_id` is NULL, and UNIQUE does not apply to NULLs: the repeated batch is recorded again and answered with 202. The comment at `storage/telemetry.go:127` knows it |
| `shutdown_drain` | "Serve runs the server until ctx is canceled, then performs a graceful shutdown bounded at 30 seconds" (`app/app.go:38`) | `Serve` returns when the listener is closed; nothing waits for the goroutine that drains, so the store is closed and the process exits under running requests |

Divergences seen while modelling, without a run:

- `000008_garages.sql:5` says "ownership additions require recipient consent via signed
  GarageOwnershipAcceptance"; `reconcileGarageOwnersTx` takes `accepted_time` from the payload
  another owner signed.
- `middleware/session.go:22` says a convenience field stays empty for "zero or multiple caveats of a
  kind"; `sessionFromVerified` fills it again at the third. The fields feed the access log only.
- `identity/keystore.go:91` says "A crash or power loss between LoadOrGenerate returning and the next
  process start cannot leave [...] a renamed-but-lost directory entry". `LoadOrGenerate` also returns
  a key it has loaded, and does not fsync the directory then: a process killed between the rename and the
  fsync leaves such a key to the next start, and if the certificate meets the same fate, a server
  serves with files a power loss may take. `CreatedKeySurvives` therefore begins at the first
  completed fsync.
- `api/driver_attestations.go:41` says of `acl_version_consulted` that it is "the ACL revision the server's
  trust evaluator consulted"; `storage/driver_attestation.go:143` stores the number the client sent.
- A first signal that comes before `Start` has assigned `s.server` is lost (`api/server.go:506`): the
  server goes on with a cancelled base context, under which every request fails, until a second one.
- The first signal cancels the base context of all requests (`api/server.go:481`), so those inside a
  storage call fail rather than being drained.
- `macaroon/verifier.go:103` documents the *latest* expiration where `parseCaveats` keeps the
  earliest; `verifier.go:77` describes several action caveats as alternatives where
  `CheckConstraints` requires all.
- A crash between storing the bootstrap invite and printing its token leaves an invite nobody knows,
  and restarts stay silent until it expires.

## Proofs

Every safety invariant, action property and refinement that a passing run checks is also a
theorem, for every value of the constants. Each proof module extends the module it is about.

| Proof module | Inductive invariant | Properties proved of the runs |
|---|---|---|
| `GarageProofs` | `GarageInvHolds` | `TypeOK`, `HeadIsNewestRevision`, `HeadSignerIsAcceptedOwner`, `AcceptanceSettlesInvitation`, `RedemptionsAreCounted`, `OwnersAreAccountedFor`; `AcceptedNeverReset`, `EntryNeedsFreshGrant`; refinement `RevisionsFormChain` |
| `GarageVehicleProofs` | `VehicleInvHolds` | `VehicleTypeOK`, `RevisionsNameTheirGarage`, `VehicleRowMirrorsNewest`, `VehicleSignersWereOwners`; `RemovedOwnerIsShutOut`; refinement `VehicleRevisionsFormChain` |
| `JourneyProofs` | `JourneyInvHolds` | `TypeOK`, `OnlyOwnerPublishes`; `DepartedOwnersVehicleIsFrozen`; refinement `HistoriesFormChains` (metadata and ACLs) |
| `AttestationProofs` | `AttestationInvHolds` | `TrustIsJustified`, `AnswersComeFromStore`, `ForksAreNoticed`; `RecordedIsFinal` |
| `TelemetryProofs` | `TelemetryInvHolds` | `DepartedUploaderIsShutOut`; `JourneysBesideTelemetry`: the composition implements `JourneySpec`, so the properties of `JourneyProofs` hold in the run too |
| `EnrollmentProofs` | `EnrollmentInvHolds` | `EachInviteAdmitsOne`, `OutstandingWithinCap`, `AdminMintsAlone` |
| `SessionsProofs` | `SessionInvHolds` | `AdmittedWithinGrant`, `AttenuationBinds`, `RefusalsHaveAReason`, `OneActiveRoot`, `SignedPayloadsAreGenuine`; `RevokedCertificateIsShutOut` |
| `LifecycleProofs` | `LifecycleInvHolds` | `MigrationsAreGapless`, `CreatedKeySurvives`, `ServingIsReady`, `NoStartNeedsRepair` |

A proof module begins with what the transactions do to a row (`ReconcileRow`, `AppendEffect`,
`RedeemEffect` and the like), then has one lemma per part of the invariant with a step per action,
and ends with the theorems. TLC checked every inductive invariant on the instances of the runs
before it was proved; they are defined beside the properties, under "What makes the invariants
above inductive".

### Assumptions

All are evaluated by TLC in the runs of their module.

- Bounds are naturals (`GarageAssumptions`, `VehicleAssumptions`, `JourneyAssumptions`,
  `TelemetryAssumptions`, `EnrollmentAssumptions`, `SessionAssumptions`, `LifecycleAssumption`), most
  of them positive; limits, caps and lifetimes are positive as the validation of the code requires.
- A marker of an absent row is not a row: `NoInviteAssumption`, `NoVehicleAssumption`,
  `AttestationAssumptions` (no prior digest), `MarkerAssumptions`, `KeysAssumption`.
- Cardinalities need finite sets: the tokens of `EnrollmentAssumptions` and the roots of
  `SessionAssumptions` are finite. Nothing says so of users, garages, vehicles, journeys, requests,
  processes or builds; that the rows counted by `RedemptionsAreCounted` are finitely many is proved.
- `SessionAssumptions`: the default lifetime is within the maximum, a holder may append nothing
  (`<<>> \in Attenuations`), an action is a journey action or another, not both.
- `BinariesAssumption`: a build has at least one migration. `KeysAssumption`: there is a key to
  generate. One suffices, because keys are generated only into an empty directory (`FreshKeyExists`).

### The inductive invariants

`GarageInv`.
- `TypeOK` and `RowsWellFormed`: the latter says that an owner row was added in a revision up to
  the head, that an issued invite belongs to an existing garage, and that a request past its
  check names an existing garage or invite. Without it, a redemption could write a row for a
  garage that does not exist, and type correctness itself would not be preserved.
- `HeadIsNewestRevision` is inductive next to it: an append is above the head.
- `HeadSignerIsAcceptedOwner` needs that a revision's signer is among its accepted owners
  (`Garage.Validate`), that reconciling makes those accepted, and that nothing but a revision takes
  acceptance away. It implies that a garage is never locked.
- `AcceptancesBehindOwners` strengthens `AcceptanceSettlesInvitation`, which is not inductive: to
  know that an acceptance on file cannot serve a later invitation one must know where it stands
  relative to the row when the user has been removed (before the head), invited again (before the
  row's revision) or is still an owner.
- Beside it, `RedemptionsAreCounted` is inductive with the finiteness of the redemption rows
  (`RedemptionsFinite`), and `OwnersAreAccountedFor` row by row (`Accounted`).

`VehicleInv` adds to `GarageInv` and `OwnersAreAccountedFor` the part `ServingWereOwners`: the caller
of a request that may still write was an accepted owner when the request was let in. The check and
the insert are two `Store` calls, and this is what survives between them.

`JourneyInv` needs `RequestsOwnVehicle`: the owner that `LoadVehicle` compared with the caller is
still the owner when the request publishes, since nothing moves a vehicle to another owner.
The freeze, like `RemovedOwnerIsShutOut` and `DepartedUploaderIsShutOut`, is a property of steps:
beside a type invariant it needs that a step that adds to a history takes the request that
caused it out of the set of those past the check.

`AttestationInv` stands on `JourneyInv`. `OneRowPerKey` is the unique replay key. `DeliveriesRest`
says what the `Store` calls behind a delivery have established (the vehicle exists, the ACL it was
signed under and the one that classified it are on file, a duplicate found its row). ACLs are never
deleted, so what `JourneyVehicleACLAt` picks is at least as new as the ACL that was in force at the
signing, which is `TrustIsJustified`; `ReadsAreOnFile` and `ReportsAreOnFile` the same
of reads of the current driver and of answers given. `ForksAreNoticed` is inductive with them: of two
deliveries the one that lists siblings later finds the other's row, which was inserted before
either list.

`TelemetryInv` is `JourneyInv` and the types of uploads and batches: uploads write none of the journeys'
variables, so a step of the composition is a step of `JourneyVehicles` or leaves it alone.

`EnrollmentInv`. `LookedUp`: the UPDATE that consumes an invite does not look at its scope, the
lookup before it did. `ReadingsArePast`: what is compared and stored was read from the clock before,
which makes the cap hold with old readings. `AccountsMatchInvites` pairs accounts with the invites
they consumed. `AdminMintsAlone` needs `MintersHaveAccounts`, `FoundedByOne` (a server whose first
invites are its own has one to claim at a time until it is founded, so no later commit has an
earlier `created_at`) and `AdminAlone` (a mint that has passed `IsFoundingAdmin` is still the
founder's).

`SessionInv`. `RootsInv`: a process mints a root only while none is active, and its issuer's root
stays on file. `GrantsAreSound`, `IdentityIsPresented` and `MacaroonsAreGranted` say what each stage of
a request knows: whose certificate the identity is, and that a macaroon is one that was granted and
verifies unless a lookup failed or a holder appended to it. `Identifies`, `Attaches`, `Decides` and
`VerifiesPayload` state what one pass of a request does, and the lemmas `AttachIdentityStep` to
`HandleSessionCreateStep` that the actions do so; `ConstraintsBind` and `GrantPasses` connect the
caveat lists with the grant.

`LifecycleInv` has the invariant of each component and the order between them.
- `StoreInv`: any prefix of the commits applies versions 1..n (`AppliedIsInitial`, which is why a
  power loss does no harm), a process has applied or found applied what its loop has passed
  (`LoopHasPassed`), and a failed start is explained (`FailureIsExplained`).
- `CAInv`: the directory is empty, a key, or a key and its certificate, each complete
  (`DirectoryIsSound`); the anchored key is under a completed fsync (`AnchorIsSynced`); one process at
  most is between its load and its last rename (`OneInTheMiddle`) and knows what is in the
  directory (`UserKnows`).
- `ServerIsInOrder`: `runServe` goes through the store, then the CA, then serves.

### Refinements

`RevisionChain` is implemented by garages, garage vehicles, journey vehicle metadata and ACLs. Each
proof maps the initial state to the empty chain and every step to a birth, an append or a
stutter; only the action that inserts a revision is not a stutter.

### Only model-checked

The liveness properties `StartupLeavesAnInvite`, `StartupDecides` and `ServerStops`: fairness is beyond
the prover. The five findings are counterexamples and have nothing to prove.

## Not modelled

- Proxy headers (`platform/proxy`): pure functions of a request's headers.
- Signing of client certificates (`CA.Sign`): it changes nothing on disk; enrollment has it as a step
  that may fail.
- `Verifier.VerifyPayload` and its resolver: no handler calls them; they use `VerifyPayloadWithKey`.
- Reads (lists, gets, server info): they report rows and change nothing. The current driver is
  modelled because its answer takes two of them.
- Flag parsing, the health check command, `/health` and `/readyz`.
- Routes, OpenAPI, docs, logging, build information: wiring and output. Which guard a route has is
  part of `Sessions`.
- `Store.ConsumeInvite`: no handler calls it; `RegisterClientApp` consumes invites itself.
- `accounts.disabled_at`: `FoundingAdminUserID` skips disabled accounts, and nothing writes the
  column, so every account counts in the model.

## Plan

Modelled: the consent and authority rules first (garages with invites, their vehicles, journey
vehicles, attestations, enrollment, sessions), then what runs around them (opening and migrating the
store, the CA files, start and shutdown), telemetry and signed payloads. What is left of the source is
wiring, parsing and output.

Proved: all safety properties and refinements of the passing runs. What could still be said: the
proofs of the handlers share patterns (a slot that goes idle, a row that is replaced) whose lemmas
could be common to the proof modules; and the modules over one database could be composed further
(`Sessions` in front of the handlers, `Enrollment` inside `Lifecycle`), which needs models in which
they share more than they do now.
