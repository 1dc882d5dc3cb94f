---------------------------- MODULE IdentityCA ----------------------------
(***************************************************************************)
(* The certificate authority's key and certificate files                   *)
(* (internal/platform/identity: ca.go, keystore.go), loaded or created at  *)
(* every start of the server and by the `ca` commands.                     *)
(*                                                                         *)
(* The identity directory is the sequence of renames made in it, of which  *)
(* the first `synced` are known to be on disk: a file's content is on disk *)
(* when the temporary file was fsynced, its name when the directory was.   *)
(* A power loss keeps some prefix of the renames (the file system commits  *)
(* directory changes in order), at least the synced ones, whatever the     *)
(* kernel wrote back by itself; a file whose content was not fsynced is    *)
(* then torn.                                                              *)
(***************************************************************************)
EXTENDS Naturals, Sequences, FiniteSets

CONSTANTS
    CAUsers,  \* processes that call LoadOrCreate
    Keys,     \* key pairs
    NoKey

ASSUME KeysAssumption == NoKey \notin Keys /\ Keys # {}

VARIABLES
    entries,  \* renames into the identity directory, oldest first
    synced,   \* how many of them an fsync of the directory covers
    caUser,   \* per process, where it is in LoadOrCreate
    anchor    \* history: the key a completed directory fsync last covered

caVars == <<entries, synced, caUser, anchor>>

Idle == [pc |-> "idle", key |-> NoKey, file |-> "key", flushed |-> FALSE, why |-> "none"]

CAStates == {"idle", "loadKey", "flush", "rename", "syncDir", "loadCert", "ready", "failed"}
CAInTheMiddle == {"loadKey", "flush", "rename", "syncDir", "loadCert"}

CAInit ==
    /\ entries = <<>>
    /\ synced = 0
    /\ caUser = [u \in CAUsers |-> Idle]
    /\ anchor = NoKey

\* What a reader finds under a name: the newest rename onto it.
Renames(file) == {i \in DOMAIN entries : entries[i].file = file}
Exists(file) == Renames(file) # {}
Found(file) == entries[CHOOSE i \in Renames(file) : \A j \in Renames(file) : j <= i]

VisibleKey == IF Exists("key") THEN Found("key").key ELSE NoKey
DurableKey ==
    LET durable == {i \in Renames("key") : i <= synced}
    IN IF durable = {} THEN NoKey
       ELSE entries[CHOOSE i \in durable : \A j \in durable : j <= i].key

\* ecdsa.GenerateKey: a key that is not on file and never was the server's.
FreshKey ==
    CHOOSE k \in Keys : k \notin {anchor} \cup {entries[i].key : i \in DOMAIN entries}

CAFails(u, why) ==
    caUser' = [caUser EXCEPT ![u] = [Idle EXCEPT !.pc = "failed", !.why = why]]

\* LoadOrCreate returns the CA.
CAReady(u) ==
    caUser' = [caUser EXCEPT ![u] = [Idle EXCEPT !.pc = "ready", !.key = caUser[u].key]]

\* The mutex of FileKeyStore is process-local; two processes creating the CA
\* at once is ruled out by the operator, as its documentation demands.
StartCA(u) ==
    /\ caUser[u].pc = "idle"
    /\ \A v \in CAUsers : caUser[v].pc \notin CAInTheMiddle
    /\ caUser' = [caUser EXCEPT ![u] = [Idle EXCEPT !.pc = "loadKey"]]
    /\ UNCHANGED <<entries, synced, anchor>>

RenameUnflushed(u) ==
    /\ caUser[u].pc = "loadKey"
    /\ IF ~Exists("key")
       THEN caUser' = [caUser EXCEPT ![u].pc = "rename", ![u].key = FreshKey, ![u].file = "key"]
       ELSE IF Found("key").torn
       THEN CAFails(u, "torn")
       ELSE caUser' = [caUser EXCEPT ![u].pc = "loadCert", ![u].key = Found("key").key]
    /\ UNCHANGED <<entries, synced, anchor>>

\* LoadOrGenerate: the key on file if there is one, else a fresh one, which
\* save writes to a temporary file.
LoadKey(u) ==
    /\ caUser[u].pc = "loadKey"
    /\ IF ~Exists("key")
       THEN caUser' = [caUser EXCEPT ![u].pc = "flush", ![u].key = FreshKey, ![u].file = "key"]
       ELSE IF Found("key").torn
       THEN CAFails(u, "torn")
       ELSE caUser' = [caUser EXCEPT ![u].pc = "loadCert", ![u].key = Found("key").key]
    /\ UNCHANGED <<entries, synced, anchor>>

\* A fresh self-signed certificate goes to a temporary file.
GenerateSelfSignedCA(u) ==
    caUser' = [caUser EXCEPT ![u].pc = "flush", ![u].file = "cert", ![u].flushed = FALSE]

\* loadCertificate, then verifyCertMatchesKey.
LoadCert(u) ==
    /\ caUser[u].pc = "loadCert"
    /\ IF ~Exists("cert")
       THEN GenerateSelfSignedCA(u)
       ELSE IF Found("cert").torn
       THEN CAFails(u, "torn")
       ELSE IF Found("cert").key # caUser[u].key
       THEN CAFails(u, "inconsistent")
       ELSE CAReady(u)
    /\ UNCHANGED <<entries, synced, anchor>>

\* save and atomicWrite: fsync the temporary file, rename it, fsync the
\* directory.
SyncFile(u) ==
    /\ caUser[u].pc = "flush"
    /\ caUser' = [caUser EXCEPT ![u].pc = "rename", ![u].flushed = TRUE]
    /\ UNCHANGED <<entries, synced, anchor>>

Rename(u) ==
    /\ caUser[u].pc = "rename"
    /\ entries' = Append(entries,
                     [file |-> caUser[u].file, key |-> caUser[u].key,
                      flushed |-> caUser[u].flushed, torn |-> FALSE])
    /\ caUser' = [caUser EXCEPT ![u].pc = "syncDir"]
    /\ UNCHANGED <<synced, anchor>>

SkipSyncDir(u) ==
    /\ caUser[u].pc = "syncDir"
    /\ anchor' = caUser[u].key
    /\ IF caUser[u].file = "key"
       THEN caUser' = [caUser EXCEPT ![u].pc = "loadCert"]
       ELSE CAReady(u)
    /\ UNCHANGED <<entries, synced>>

SyncDir(u) ==
    /\ caUser[u].pc = "syncDir"
    /\ synced' = Len(entries)
    /\ anchor' = caUser[u].key
    /\ IF caUser[u].file = "key"
       THEN caUser' = [caUser EXCEPT ![u].pc = "loadCert"]
       ELSE CAReady(u)
    /\ UNCHANGED entries

\* The process is done with the CA, is killed, or gives up because a system
\* call failed; in each case what it renamed stands, synced or not.
LeaveCA(u) ==
    /\ caUser' = [caUser EXCEPT ![u] = Idle]
    /\ UNCHANGED <<entries, synced, anchor>>

CAPowerLoss ==
    /\ \E n \in synced..Len(entries) :
          /\ entries' = [i \in 1..n |-> [entries[i] EXCEPT !.torn = ~entries[i].flushed]]
          /\ synced' = n
    /\ caUser' = [u \in CAUsers |-> Idle]
    /\ UNCHANGED anchor

CAStep(u) ==
    \/ LoadKey(u)
    \/ LoadCert(u)
    \/ SyncFile(u)
    \/ Rename(u)
    \/ SyncDir(u)

-----------------------------------------------------------------------------

Entry == [file : {"key", "cert"}, key : Keys, flushed : BOOLEAN, torn : BOOLEAN]

CAUser ==
    [pc : CAStates, key : Keys \cup {NoKey}, file : {"key", "cert"}, flushed : BOOLEAN,
     why : {"none", "torn", "inconsistent"}]

CATypeOK ==
    /\ entries \in Seq(Entry)
    /\ synced \in 0..Len(entries)
    /\ caUser \in [CAUsers -> CAUser]
    /\ anchor \in Keys \cup {NoKey}

\* Once LoadOrCreate has saved and synced a key or its certificate, that key is
\* the server's for good: no later kill, power loss, failed start or `ca`
\* command replaces or loses it, so certificates signed with it keep
\* validating.
CreatedKeySurvives == anchor # NoKey => VisibleKey = anchor /\ DurableKey = anchor

-----------------------------------------------------------------------------
(* What makes it inductive.                                                *)

\* The directory is empty, or holds a key, or a key and its certificate, and
\* each was on disk before it got its name.
DirectoryIsSound ==
    /\ Len(entries) <= 2
    /\ Len(entries) >= 1 => entries[1].file = "key"
    /\ Len(entries) >= 2 => entries[2].file = "cert" /\ entries[2].key = entries[1].key
    /\ \A i \in DOMAIN entries : entries[i].flushed /\ ~entries[i].torn

AnchorIsSynced == anchor # NoKey => synced >= 1 /\ entries[1].key = anchor

OneInTheMiddle ==
    \A u, v \in CAUsers :
        caUser[u].pc \in CAInTheMiddle /\ caUser[v].pc \in CAInTheMiddle => u = v

\* How much of the directory a process has found or made.
UserKnows(u) ==
    LET c == caUser[u] IN
    /\ c.why = "none"
    /\ c.pc # "failed"
    /\ c.pc \in {"flush", "rename"} /\ c.file = "key" => entries = <<>> /\ c.key \in Keys
    /\ c.pc \in {"flush", "rename"} /\ c.file = "cert" => Len(entries) = 1
    /\ c.pc = "rename" => c.flushed
    /\ c.pc = "syncDir" => Len(entries) = IF c.file = "key" THEN 1 ELSE 2
    /\ c.pc = "loadCert" => Len(entries) >= 1
    /\ c.pc = "ready" => Len(entries) = 2
    /\ entries # <<>> /\ c.pc \in {"flush", "rename", "syncDir", "loadCert", "ready"} =>
         c.key = entries[1].key

CAInv ==
    /\ CATypeOK
    /\ DirectoryIsSound
    /\ AnchorIsSynced
    /\ OneInTheMiddle
    /\ \A u \in CAUsers : UserKnows(u)
=============================================================================
