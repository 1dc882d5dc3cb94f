------------------------------- MODULE Store -------------------------------
(***************************************************************************)
(* Opening the SQLite store and bringing its schema up to date             *)
(* (internal/platform/storage: store.go, migrations.go, server_policy.go). *)
(* The server and the `invite create` command are separate processes that  *)
(* open the same file, possibly from binaries of different ages, and any   *)
(* of them, or the whole machine, may stop between two statements.         *)
(*                                                                         *)
(* The file is its sequence of commits.  It runs in WAL mode with          *)
(* `synchronous = NORMAL`, so a commit survives the death of a process at  *)
(* once but the death of the machine only after the next checkpoint.  When *)
(* SQLite checkpoints is its own affair, so a power loss may take any      *)
(* suffix of the commits.                                                  *)
(***************************************************************************)
EXTENDS Naturals, FiniteSets, Sequences, FiniteSetsExt, SequencesExt

CONSTANTS
    Openers,   \* processes that open the store
    Binaries   \* the builds in use, each named by its number of embedded migrations

ASSUME BinariesAssumption == Binaries \subseteq Nat \ {0}

VARIABLES
    commits,   \* committed transactions, oldest first
    opener     \* per process, where it is in storage.Open and after it

storeVars == <<commits, opener>>

Migration(v) == [kind |-> "migration", of |-> v]
PolicySnapshot(b) == [kind |-> "policy", of |-> b]

Closed == [pc |-> "down", binary |-> 0, at |-> 0, why |-> "none"]

OpenerStates ==
    {"down", "opening", "checking", "applying", "open", "ready", "failed"}
Reasons == {"none", "future", "race"}

StoreInit ==
    /\ commits = <<>>
    /\ opener = [p \in Openers |-> Closed]

\* The rows of schema_migrations; before migration 1 has created the table
\* the queries report it missing, which the code reads as an empty table.
Applied == {c.of : c \in {d \in Range(commits) : d.kind = "migration"}}
LatestMigration == Max(Applied \cup {0})

FailOpen(p, why) ==
    opener' = [opener EXCEPT ![p].pc = "failed", ![p].why = why]

OpenBeforeLast(p) ==
    IF opener[p].at + 1 >= opener[p].binary
    THEN opener' = [opener EXCEPT ![p].pc = "open"]
    ELSE opener' = [opener EXCEPT ![p].pc = "checking", ![p].at = @ + 1]

SameMigrationAgain(p) ==
    IF opener[p].at >= opener[p].binary
    THEN opener' = [opener EXCEPT ![p].pc = "open"]
    ELSE opener' = [opener EXCEPT ![p].pc = "checking"]

\* Migrations() is contiguous from 1, so the loop over it counts versions up
\* to the number the binary embeds; after the last one Open returns.
NextMigration(p) ==
    IF opener[p].at >= opener[p].binary
    THEN opener' = [opener EXCEPT ![p].pc = "open"]
    ELSE opener' = [opener EXCEPT ![p].pc = "checking", ![p].at = @ + 1]

Open(p, b) ==
    /\ opener[p].pc = "down"
    /\ opener' = [opener EXCEPT
                    ![p] = [pc |-> "opening", binary |-> b, at |-> 1, why |-> "none"]]
    /\ UNCHANGED commits

\* Asked once, before the loop: a database newer than the binary is refused.
RejectFutureMigration(p) ==
    /\ opener[p].pc = "opening"
    /\ IF LatestMigration > opener[p].binary
       THEN FailOpen(p, "future")
       ELSE opener' = [opener EXCEPT ![p].pc = "checking"]
    /\ UNCHANGED commits

MigrationApplied(p) ==
    /\ opener[p].pc = "checking"
    /\ IF opener[p].at \in Applied
       THEN NextMigration(p)
       ELSE opener' = [opener EXCEPT ![p].pc = "applying"]
    /\ UNCHANGED commits

ApplyMigrationBlindly(p) ==
    /\ opener[p].pc = "applying"
    /\ commits' = Append(commits, Migration(opener[p].at))
    /\ NextMigration(p)

\* Schema change and schema_migrations row are one transaction.  When another
\* process has applied the version since migrationApplied looked, the schema
\* statement or the insert fails and the transaction is rolled back.
ApplyMigration(p) ==
    /\ opener[p].pc = "applying"
    /\ IF opener[p].at \in Applied
       THEN /\ FailOpen(p, "race")
            /\ UNCHANGED commits
       ELSE /\ commits' = Append(commits, Migration(opener[p].at))
            /\ NextMigration(p)

\* INSERT OR IGNORE keyed by the document's hash: each build has one default
\* policy document, named here by the build.
EnsureServerPolicySnapshot(p) ==
    /\ opener[p].pc = "open"
    /\ LET snapshot == PolicySnapshot(opener[p].binary)
       IN commits' = IF Contains(commits, snapshot) THEN commits
                     ELSE Append(commits, snapshot)
    /\ opener' = [opener EXCEPT ![p].pc = "ready"]

\* Store.Close: the process is done, is killed, or gives up because a
\* statement failed (disk full, the file locked for longer than
\* busy_timeout).  Nothing committed is lost.
LeaveStore(p) ==
    /\ opener' = [opener EXCEPT ![p] = Closed]
    /\ UNCHANGED commits

\* The machine loses power.
StorePowerLoss ==
    /\ \E n \in 0..Len(commits) : commits' = SubSeq(commits, 1, n)
    /\ opener' = [p \in Openers |-> Closed]

StoreStep(p) ==
    \/ RejectFutureMigration(p)
    \/ MigrationApplied(p)
    \/ ApplyMigration(p)

-----------------------------------------------------------------------------

Commit == [kind : {"migration", "policy"}, of : Nat \ {0}]

Opener == [pc : OpenerStates, binary : Binaries \cup {0}, at : Nat, why : Reasons]

StoreTypeOK ==
    /\ commits \in Seq(Commit)
    /\ opener \in [Openers -> Opener]

AppliedBefore(i) ==
    {commits[j].of : j \in {k \in 1..(i - 1) : commits[k].kind = "migration"}}

\* Whatever processes of whatever age raced to migrate, and wherever a kill
\* or a power loss cut them off, the schema is one a build has run with: each
\* version was applied after exactly the versions below it, so that they are
\* 1..n, each applied once and in order.
MigrationsAreGapless ==
    \A i \in DOMAIN commits :
        commits[i].kind = "migration" => AppliedBefore(i) = 1..(commits[i].of - 1)

-----------------------------------------------------------------------------
(* What makes it inductive.                                                *)

\* The versions that any prefix of the commits applied are 1..n.
AppliedIsInitial ==
    \A i \in 1..(Len(commits) + 1) : \E n \in 0..(i - 1) : AppliedBefore(i) = 1..n

\* A process has applied, or found applied, what its loop has passed.
LoopHasPassed(p) ==
    LET o == opener[p] IN
    /\ o.pc = "down" => o = Closed
    /\ o.pc \in {"opening", "checking", "applying"} => o.at \in 1..o.binary
    /\ o.pc \in {"opening", "checking", "applying"} => 1..(o.at - 1) \subseteq Applied
    /\ o.pc \in {"open", "ready"} => 1..o.binary \subseteq Applied
    /\ o.pc \in {"open", "ready"} => o.binary # 0
    /\ o.pc = "ready" => Contains(commits, PolicySnapshot(o.binary))
    /\ o.pc # "failed" => o.why = "none"

\* A start fails because the database belongs to a newer build, or because
\* another process has just applied the migration it was about to apply.
FailureIsExplained(p) ==
    /\ opener[p].why = "future" => LatestMigration > opener[p].binary
    /\ opener[p].why = "race" => 1..opener[p].at \subseteq Applied

StoreInv ==
    /\ StoreTypeOK
    /\ MigrationsAreGapless
    /\ AppliedIsInitial
    /\ \A p \in Openers : LoopHasPassed(p) /\ FailureIsExplained(p)
=============================================================================
