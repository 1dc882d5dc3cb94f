----------------------------- MODULE Enrollment -----------------------------
(***************************************************************************)
(* Registration invites and the accounts they admit: invite.go and         *)
(* enrollment.go of internal/platform/storage behind enrollment.go and     *)
(* client_app_invites.go of internal/server/api, the bootstrap invite of a *)
(* starting server and the `invite create` command (cmd/spivot-server).    *)
(*                                                                         *)
(* An enrollment mints its own user and client app ids, so the request is  *)
(* the name of the account it creates.  Both RegisterClientApp and         *)
(* IssueInviteBy read the clock before they wait for the one database      *)
(* connection; what they compare and store is that earlier reading.  The   *)
(* server may crash between any two steps: requests in flight are lost,    *)
(* rows stay.                                                              *)
(***************************************************************************)
EXTENDS Naturals, FiniteSets

CONSTANTS
  Enrollments,    \* enrollment requests, and the accounts they create
  Mints,          \* requests of enrolled users for an invite
  BootInvites,    \* tokens a starting server mints
  CliInvites,     \* tokens the command line mints
  UserInvites,    \* tokens the server mints for its users
  Policies,       \* the InviteMintPolicy values servers are configured with
  Cap,            \* maxOutstandingClientAppInvites
  Lifetimes,      \* how long invites may live
  BootLifetime,   \* bootstrapInviteLifetime
  MaxTime,        \* bound: the last reading of the clock
  MaxStarts,      \* bound: how often the server is started
  NoInvite,       \* marks a token without a row
  NoUser          \* created_by_user_id, used_by_client_app_id or admin unset

Tokens == BootInvites \cup CliInvites \cup UserInvites

ASSUME EnrollmentAssumptions ==
  /\ Policies \subseteq {"any-user", "admin-only", "denied"}
  /\ Cap \in Nat \ {0}
  /\ Lifetimes \subseteq Nat \ {0}
  /\ BootLifetime \in Nat \ {0}
  /\ MaxTime \in Nat
  /\ MaxStarts \in Nat
  /\ NoUser \notin Enrollments
  /\ IsFiniteSet(Tokens)
  /\ BootInvites \cap CliInvites = {}
  /\ UserInvites \cap (BootInvites \cup CliInvites) = {}

VARIABLES
  clock,        \* the wall clock
  policy,       \* the InviteMintPolicy of this deployment
  boot,         \* how far the server process has come
  starts,       \* how often it has been started
  invites,      \* client_app_invites
  known,        \* the tokens somebody has been shown
  accounts,     \* accounts, with their client_apps and issued_certificates
  enrollments,  \* enrollment requests
  mints         \* requests for an invite

vars ==
  <<clock, policy, boot, starts, invites, known, accounts, enrollments, mints>>

Scopes == {"server_registration", "journey"}

InviteRow ==
  [scope : Scopes, creator : Enrollments \cup {NoUser}, expires : Nat,
   usedBy : Enrollments \cup {NoUser}]

ASSUME NoInviteAssumption == NoInvite \notin InviteRow

Account == [user : Enrollments, created : Nat]

New == [stage |-> "new"]

Enrolling ==
  [stage : {"found"}, token : Tokens]
    \cup [stage : {"registering"}, token : Tokens, at : Nat]
    \cup [stage : {"enrolled", "already_used", "expired", "scope_mismatch", "lost"}]

Minting ==
  [stage : {"authorized"}, user : Enrollments]
    \cup [stage : {"issuing"}, user : Enrollments, at : Nat]
    \cup [stage : {"issued", "limit_reached", "forbidden", "lost"}]

Booting ==
  [stage : {"down", "accounts", "invites", "issue", "serving"}]
    \cup [stage : {"banner"}, token : BootInvites]

EnrollmentTypeOK ==
  /\ clock \in 0..MaxTime
  /\ policy \in Policies
  /\ boot \in Booting
  /\ starts \in 0..MaxStarts
  /\ invites \in [Tokens -> InviteRow \cup {NoInvite}]
  /\ known \subseteq Tokens
  /\ accounts \subseteq Account
  /\ enrollments \in [Enrollments -> {New} \cup Enrolling]
  /\ mints \in [Mints -> {New} \cup Minting]

Init ==
  /\ clock = 0
  /\ policy \in Policies
  /\ boot = [stage |-> "down"]
  /\ starts = 0
  /\ invites = [i \in Tokens |-> NoInvite]
  /\ known = {}
  /\ accounts = {}
  /\ enrollments = [e \in Enrollments |-> New]
  /\ mints = [m \in Mints |-> New]

Tick ==
  /\ clock < MaxTime
  /\ clock' = clock + 1
  /\ UNCHANGED <<policy, boot, starts, invites, known, accounts, enrollments, mints>>

-----------------------------------------------------------------------------
(* Invites.                                                                *)

NewInvite(scope, creator, expires) ==
  [scope |-> scope, creator |-> creator, expires |-> expires, usedBy |-> NoUser]

(* used_time IS NULL AND expiration_time > at.                             *)
Active(i, at) ==
  /\ invites[i] # NoInvite
  /\ invites[i].usedBy = NoUser
  /\ invites[i].expires > at

ActiveRegistrations(at) ==
  {i \in Tokens : Active(i, at) /\ invites[i].scope = "server_registration"}

LatestIsAdmin ==
  IF accounts = {} THEN NoUser
  ELSE (CHOOSE a \in accounts : \A b \in accounts : a.created >= b.created).user

(* The earliest created_at; created_at are readings of one clock.          *)
FoundingAdmin ==
  IF accounts = {} THEN NoUser
  ELSE (CHOOSE a \in accounts : \A b \in accounts : a.created <= b.created).user

(* `spivot-server invite create`: another process on the same database.    *)
RunInviteCreate(i, scope, life) ==
  /\ invites[i] = NoInvite
  /\ invites' = [invites EXCEPT ![i] = NewInvite(scope, NoUser, clock + life)]
  /\ known' = known \cup {i}
  /\ UNCHANGED <<clock, policy, boot, starts, accounts, enrollments, mints>>

-----------------------------------------------------------------------------
(* The server process: emitBootstrapInviteIfNeeded runs before requests are*)
(* served, as three Store calls and the banner.                            *)

BootStep(from, to) ==
  /\ boot.stage = from
  /\ boot' = [stage |-> to]

Start ==
  /\ starts < MaxStarts
  /\ starts' = starts + 1
  /\ BootStep("down", "accounts")
  /\ UNCHANGED <<clock, policy, invites, known, accounts, enrollments, mints>>

ReadAccountCount ==
  /\ BootStep("accounts", IF accounts = {} THEN "invites" ELSE "serving")
  /\ UNCHANGED <<clock, policy, starts, invites, known, accounts, enrollments, mints>>

CountsExpiredToo ==
  {i \in Tokens : /\ invites[i] # NoInvite
                  /\ invites[i].usedBy = NoUser
                  /\ invites[i].scope = "server_registration"}

UnconsumedInvites == ActiveRegistrations(clock)

ReadUnconsumedInviteCount ==
  /\ BootStep("invites", IF UnconsumedInvites = {} THEN "issue" ELSE "serving")
  /\ UNCHANGED <<clock, policy, starts, invites, known, accounts, enrollments, mints>>

IssueBootstrapInvite(i) ==
  /\ boot.stage = "issue"
  /\ invites[i] = NoInvite
  /\ invites' = [invites EXCEPT
       ![i] = NewInvite("server_registration", NoUser, clock + BootLifetime)]
  /\ boot' = [stage |-> "banner", token |-> i]
  /\ UNCHANGED <<clock, policy, starts, known, accounts, enrollments, mints>>

PrintBanner ==
  /\ BootStep("banner", "serving")
  /\ known' = known \cup {boot.token}
  /\ UNCHANGED <<clock, policy, starts, invites, accounts, enrollments, mints>>

Finished == {"enrolled", "already_used", "expired", "scope_mismatch", "lost",
             "issued", "limit_reached", "forbidden"}

(* Requests that have not begun are not affected.                          *)
Lost(req) == IF req.stage \in Finished \cup {"new"} THEN req ELSE [stage |-> "lost"]

Crash ==
  /\ boot.stage # "down"
  /\ boot' = [stage |-> "down"]
  /\ enrollments' = [e \in Enrollments |-> Lost(enrollments[e])]
  /\ mints' = [m \in Mints |-> Lost(mints[m])]
  /\ UNCHANGED <<clock, policy, starts, invites, known, accounts>>

-----------------------------------------------------------------------------
(* POST /v1/client-apps/enroll: look the invite up, sign, register.        *)

Refusal(i, at) ==
  CASE invites[i].usedBy # NoUser -> "already_used"
    [] invites[i].usedBy = NoUser /\ invites[i].expires <= at -> "expired"
    [] OTHER -> "scope_mismatch"

LookupInvite(e, i) ==
  /\ boot.stage = "serving"
  /\ enrollments[e] = New
  /\ i \in known
  /\ enrollments' = [enrollments EXCEPT ![e] =
       IF i \in ActiveRegistrations(clock) THEN [stage |-> "found", token |-> i]
       ELSE [stage |-> Refusal(i, clock)]]
  /\ UNCHANGED <<clock, policy, boot, starts, invites, known, accounts, mints>>

(* No two readings are equal: the clock has nanoseconds.                   *)
ReadEnrollmentClock(e) ==
  /\ enrollments[e].stage = "found"
  /\ clock < MaxTime
  /\ enrollments' = [enrollments EXCEPT
       ![e] = [stage |-> "registering", token |-> enrollments[e].token, at |-> clock]]
  /\ clock' = clock + 1
  /\ UNCHANGED <<policy, boot, starts, invites, known, accounts, mints>>

ConsumableLate(i, at) == invites[i].usedBy = NoUser

(* The WHERE of the conditional UPDATE that consumes the invite.           *)
Consumable(i, at) == Active(i, at)

AccountRow(e, at) == [user |-> e, created |-> at]

(* Account, client app, consumed invite and certificate are one            *)
(* transaction, rolled back when the invite cannot be consumed.            *)
RegisterClientApp(e) ==
  LET i == enrollments[e].token
      at == enrollments[e].at
  IN
  /\ enrollments[e].stage = "registering"
  /\ \/ /\ Consumable(i, at)
        /\ accounts' = accounts \cup {AccountRow(e, at)}
        /\ invites' = [invites EXCEPT ![i].usedBy = e]
        /\ enrollments' = [enrollments EXCEPT ![e] = [stage |-> "enrolled"]]
     \/ /\ ~Consumable(i, at)
        /\ enrollments' = [enrollments EXCEPT ![e] = [stage |-> Refusal(i, at)]]
        /\ UNCHANGED <<accounts, invites>>
  /\ UNCHANGED <<clock, policy, boot, starts, known, mints>>

-----------------------------------------------------------------------------
(* POST /v1/client-apps/invites: policy gate, then IssueInviteBy.          *)

MayMint(u) ==
  \/ policy = "any-user"
  \/ policy = "admin-only" /\ u = FoundingAdmin

AuthorizeMint(m, u) ==
  /\ boot.stage = "serving"
  /\ mints[m] = New
  /\ \E a \in accounts : a.user = u
  /\ mints' = [mints EXCEPT ![m] =
       IF MayMint(u) THEN [stage |-> "authorized", user |-> u]
       ELSE [stage |-> "forbidden"]]
  /\ UNCHANGED <<clock, policy, boot, starts, invites, known, accounts, enrollments>>

ReadMintClock(m) ==
  /\ mints[m].stage = "authorized"
  /\ mints' = [mints EXCEPT
       ![m] = [stage |-> "issuing", user |-> mints[m].user, at |-> clock]]
  /\ UNCHANGED <<clock, policy, boot, starts, invites, known, accounts, enrollments>>

HeldBy(u, at) == {i \in ActiveRegistrations(at) : invites[i].creator = u}

OneTooMany(u, at) == Cardinality(HeldBy(u, at)) <= Cap

BelowCap(u, at) == Cardinality(HeldBy(u, at)) < Cap

(* Count and insert are one transaction on the clock reading taken before. *)
IssueInviteBy(m, i, life) ==
  LET u == mints[m].user
      at == mints[m].at
  IN
  /\ mints[m].stage = "issuing"
  /\ invites[i] = NoInvite
  /\ \/ /\ BelowCap(u, at)
        /\ invites' = [invites EXCEPT ![i] = NewInvite("server_registration", u, at + life)]
        /\ known' = known \cup {i}
        /\ mints' = [mints EXCEPT ![m] = [stage |-> "issued"]]
     \/ /\ ~BelowCap(u, at)
        /\ mints' = [mints EXCEPT ![m] = [stage |-> "limit_reached"]]
        /\ UNCHANGED <<invites, known>>
  /\ UNCHANGED <<clock, policy, boot, starts, accounts, enrollments>>

-----------------------------------------------------------------------------

BootNext ==
  \/ ReadAccountCount
  \/ ReadUnconsumedInviteCount
  \/ \E i \in BootInvites : IssueBootstrapInvite(i)
  \/ PrintBanner

Next ==
  \/ Tick
  \/ Start
  \/ Crash
  \/ BootNext
  \/ \E i \in CliInvites, scope \in Scopes, life \in Lifetimes :
       RunInviteCreate(i, scope, life)
  \/ \E e \in Enrollments :
       \/ \E i \in Tokens : LookupInvite(e, i)
       \/ ReadEnrollmentClock(e)
       \/ RegisterClientApp(e)
  \/ \E m \in Mints :
       \/ \E u \in Enrollments : AuthorizeMint(m, u)
       \/ ReadMintClock(m)
       \/ \E i \in UserInvites, life \in Lifetimes : IssueInviteBy(m, i, life)

Spec == Init /\ [][Next]_vars

(* Startup is straight-line code: once begun it goes on until it is done or*)
(* the process dies.                                                       *)
FairSpec == Spec /\ WF_vars(BootNext)

-----------------------------------------------------------------------------

(* An account exists for exactly one consumed invite, which was a          *)
(* registration invite that had not expired by the account's created_at,   *)
(* and a client that was told it is enrolled has its account:              *)
(* RegisterClientApp is all or nothing although the invite was looked up,  *)
(* its scope checked and the certificate signed outside it.                *)
EachInviteAdmitsOne ==
  /\ \A a \in accounts :
       Cardinality({i \in Tokens : /\ invites[i] # NoInvite
                                   /\ invites[i].usedBy = a.user
                                   /\ invites[i].scope = "server_registration"
                                   /\ a.created < invites[i].expires}) = 1
  /\ \A i \in Tokens :
       invites[i] # NoInvite /\ invites[i].usedBy # NoUser
         => \E a \in accounts : a.user = invites[i].usedBy
  /\ \A e \in Enrollments :
       enrollments[e].stage = "enrolled" => \E a \in accounts : a.user = e

(* No user ever holds more outstanding invites than the cap, however many  *)
(* requests run at once and however old the clock readings they count with.*)
OutstandingWithinCap ==
  \A u \in Enrollments : Cardinality(HeldBy(u, clock)) <= Cap

OnlyBootInvites == \A i \in CliInvites : invites[i] = NoInvite

(* Under admin-only, where every first invite is the server's own, every   *)
(* invite minted through the API is the founding administrator's: that role*)
(* is never taken over by an enrollment that commits late with an early    *)
(* created_at, although IsFoundingAdmin was asked in an earlier Store call *)
(* than the insert.                                                        *)
AdminMintsAlone ==
  policy = "admin-only" /\ OnlyBootInvites =>
    \A i \in UserInvites : invites[i] # NoInvite => invites[i].creator = FoundingAdmin

(* A server that starts without an account ends with an unconsumed invite  *)
(* in the database, unless it crashes or somebody enrolls.                 *)
StartupLeavesAnInvite ==
  boot.stage = "accounts" /\ accounts = {} ~>
    \/ ActiveRegistrations(clock) # {}
    \/ accounts # {}
    \/ boot.stage = "down"

-----------------------------------------------------------------------------
(* What makes the invariants above inductive.                              *)

Pending(e) == enrollments[e].stage \in {"found", "registering"}

PendingMint(m) == mints[m].stage \in {"authorized", "issuing"}

(* Requests do not outlive the process that serves them.                   *)
RequestsNeedServer ==
  boot.stage # "serving" =>
    /\ \A e \in Enrollments : ~Pending(e)
    /\ \A m \in Mints : ~PendingMint(m)

(* The UPDATE that consumes an invite does not look at its scope; the      *)
(* lookup before it did.                                                   *)
LookedUp ==
  \A e \in Enrollments :
    Pending(e) => /\ invites[enrollments[e].token] # NoInvite
                  /\ invites[enrollments[e].token].scope = "server_registration"

(* What is compared and stored was read from the clock before.             *)
ReadingsArePast ==
  /\ \A a \in accounts : a.created < clock
  /\ \A e \in Enrollments :
       enrollments[e].stage = "registering" => enrollments[e].at < clock
  /\ \A m \in Mints : mints[m].stage = "issuing" => mints[m].at <= clock

UsedBy(i, e) == invites[i] # NoInvite /\ invites[i].usedBy = e

Admits(i, a) ==
  /\ UsedBy(i, a.user)
  /\ invites[i].scope = "server_registration"
  /\ a.created < invites[i].expires

(* Accounts, the invites they consumed and the requests that were told so. *)
AccountsMatchInvites ==
  /\ \A a \in accounts : /\ enrollments[a.user].stage = "enrolled"
                          /\ \E i \in Tokens : Admits(i, a)
  /\ \A e \in Enrollments :
       /\ \A i \in Tokens : UsedBy(i, e) => enrollments[e].stage = "enrolled"
       /\ enrollments[e].stage = "enrolled" => \E a \in accounts : a.user = e
  /\ \A i, j \in Tokens, e \in Enrollments : UsedBy(i, e) /\ UsedBy(j, e) => i = j

(* Only enrolled users mint.                                               *)
MintersHaveAccounts ==
  /\ \A m \in Mints : PendingMint(m) => \E a \in accounts : a.user = mints[m].user
  /\ \A i \in UserInvites :
       invites[i] # NoInvite => \E a \in accounts : a.user = invites[i].creator

(* The invites that may still be consumed.                                 *)
Claimed(i) ==
  \/ i \in ActiveRegistrations(clock)
  \/ \E e \in Enrollments : Pending(e) /\ enrollments[e].token = i

(* The founding account: no other is as old, and none that may still be    *)
(* registered will be.                                                     *)
Founding(a) ==
  /\ \A b \in accounts : b = a \/ a.created < b.created
  /\ \A e \in Enrollments :
       enrollments[e].stage = "registering" =>
         \/ invites[enrollments[e].token].usedBy # NoUser
         \/ a.created < enrollments[e].at

(* A server whose first invites are its own has one to claim at a time     *)
(* until it is founded.                                                    *)
FoundedByOne ==
  OnlyBootInvites =>
    /\ boot.stage = "issue" => ActiveRegistrations(clock) = {}
    /\ accounts = {} => \A i, j \in Tokens : Claimed(i) /\ Claimed(j) => i = j
    /\ accounts # {} => \E a \in accounts : Founding(a)

AdminAlone ==
  policy = "admin-only" /\ OnlyBootInvites =>
    /\ \A m \in Mints : PendingMint(m) => mints[m].user = FoundingAdmin
    /\ \A i \in UserInvites : invites[i] # NoInvite => invites[i].creator = FoundingAdmin

EnrollmentInv ==
  /\ EnrollmentTypeOK
  /\ RequestsNeedServer
  /\ LookedUp
  /\ ReadingsArePast
  /\ AccountsMatchInvites
  /\ OutstandingWithinCap
  /\ MintersHaveAccounts
  /\ FoundedByOne
  /\ AdminAlone
=============================================================================
