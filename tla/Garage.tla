------------------------------- MODULE Garage -------------------------------
(***************************************************************************)
(* Garages: the multi-owner containers of internal/platform/storage        *)
(* (garage.go, garage_invite.go) behind the handlers of                    *)
(* internal/server/api (garages.go, garage_invites.go).                    *)
(*                                                                         *)
(* Store.Open limits the pool to one connection, so every Store method is  *)
(* one atomic step here.  A handler that makes several Store calls is      *)
(* several steps, and other requests run between them: the caller's        *)
(* authority is read in one step and used in a later one.                  *)
(*                                                                         *)
(* A signed Garage payload is abstracted to its version, its signer, the   *)
(* users it lists as owners and those it lists with an accepted_time.      *)
(* Signature verification, names, times and UUIDs are left out.            *)
(***************************************************************************)
EXTENDS Naturals, FiniteSets

CONSTANTS
  Users,            \* enrolled accounts
  Garages,          \* garage ids
  Invites,          \* garage invites: the id and the secret token of each
  Requests,         \* slots for requests that are being served
  MaxVersion,       \* bound: the largest revision_version a client sends
  RedemptionLimits, \* the max_redemptions values owners ask for
  NoInvite          \* marks an invite that has not been issued

ASSUME GarageAssumptions ==
  /\ MaxVersion \in Nat \ {0}
  /\ RedemptionLimits \subseteq Nat \ {0}

VARIABLES
  head,         \* garages.current_revision_version, 0: no such garage
  revisions,    \* the rows of garage_revisions
  owners,       \* the rows of garage_owners, by user
  acceptances,  \* garage_ownership_acceptances: <<user, version>>
  invites,      \* the rows of garage_invites
  redemptions,  \* garage_invite_redemptions: the redeemers of each invite
  requests      \* the requests between two of their Store calls

vars ==
  <<head, revisions, owners, acceptances, invites, redemptions, requests>>

Versions == 1..MaxVersion

-----------------------------------------------------------------------------
(* The rows.                                                               *)

Revision ==
  [version : Versions, signer : Users,
   listed : SUBSET Users, accepted : SUBSET Users]

(* A garage_owners row; accepted_time is NULL while "pending".  "none" is  *)
(* the absence of a row.                                                   *)
OwnerRow == [status : {"none", "pending", "accepted"}, addedIn : 0..MaxVersion]

NoOwner == [status |-> "none", addedIn |-> 0]

InviteRow ==
  [garage : Garages, limit : RedemptionLimits, count : Nat,
   revoked : BOOLEAN, expired : BOOLEAN]

ASSUME NoInviteAssumption == NoInvite \notin InviteRow

(* The operations that ask for an accepted owner before they write.        *)
OwnerOps == {"revise", "issue", "revoke"}

Idle == [op |-> "idle"]

Request ==
  {Idle}
    \cup [op : OwnerOps, user : Users, garage : Garages]
    \cup [op : {"redeem"}, user : Users, invite : Invites, expired : BOOLEAN]
    \cup [op : {"replay"}, user : Users, garage : Garages, version : Versions]

IsAcceptedOwner(g, u) == owners[g][u].status = "accepted"

(* opencaravan.Garage.Validate: the signer is among the accepted owners.   *)
ValidGarage(rev) ==
  /\ rev.accepted \subseteq rev.listed
  /\ rev.signer \in rev.accepted

TypeOK ==
  /\ head \in [Garages -> 0..MaxVersion]
  /\ revisions \in [Garages -> SUBSET Revision]
  /\ owners \in [Garages -> [Users -> OwnerRow]]
  /\ acceptances \in [Garages -> SUBSET (Users \X Versions)]
  /\ invites \in [Invites -> InviteRow \cup {NoInvite}]
  /\ redemptions \in [Invites -> SUBSET Users]
  /\ requests \in [Requests -> Request]

Init ==
  /\ head = [g \in Garages |-> 0]
  /\ revisions = [g \in Garages |-> {}]
  /\ owners = [g \in Garages |-> [u \in Users |-> NoOwner]]
  /\ acceptances = [g \in Garages |-> {}]
  /\ invites = [i \in Invites |-> NoInvite]
  /\ redemptions = [i \in Invites |-> {}]
  /\ requests = [r \in Requests |-> Idle]

Receive(r, q) ==
  /\ requests[r] = Idle
  /\ requests' = [requests EXCEPT ![r] = q]

Answer(r) == requests' = [requests EXCEPT ![r] = Idle]

-----------------------------------------------------------------------------
(* Creation.  The handler insists on revision 1, signed by the caller, with*)
(* the caller as the only owner, already accepted; the garage row, the     *)
(* revision and the owner row are one transaction.                         *)

GenesisRevision(u) ==
  [version |-> 1, signer |-> u, listed |-> {u}, accepted |-> {u}]

CreateGarage(u, g) ==
  /\ head[g] = 0
  /\ head' = [head EXCEPT ![g] = 1]
  /\ revisions' = [revisions EXCEPT ![g] = {GenesisRevision(u)}]
  /\ owners' = [owners EXCEPT
       ![g] = [@ EXCEPT ![u] = [status |-> "accepted", addedIn |-> 1]]]
  /\ UNCHANGED <<acceptances, invites, redemptions, requests>>

-----------------------------------------------------------------------------
(* The authority check that starts every owner-only handler.  What it read *)
(* is not read again when the handler writes.                              *)

RequireAcceptedGarageOwner(r, op, u, g) ==
  /\ IsAcceptedOwner(g, u)
  /\ Receive(r, [op |-> op, user |-> u, garage |-> g])
  /\ UNCHANGED <<head, revisions, owners, acceptances, invites, redemptions>>

(* Any of these handlers may end without a write: a malformed or wrongly   *)
(* signed payload, a version conflict, an unknown or unusable invite, a    *)
(* failing database.                                                       *)
RejectRequest(r) ==
  /\ requests[r].op \in OwnerOps \cup {"redeem"}
  /\ Answer(r)
  /\ UNCHANGED <<head, revisions, owners, acceptances, invites, redemptions>>

-----------------------------------------------------------------------------
(* Revisions.                                                              *)

ReconcileForgetsAcceptance(rows, rev) ==
  [u \in Users |->
    IF u \notin rev.listed THEN NoOwner
    ELSE [status |-> IF u \in rev.accepted THEN "accepted" ELSE "pending",
          addedIn |-> IF rows[u] = NoOwner THEN rev.version ELSE rows[u].addedIn]]

ReconcileRebindsOwners(rows, rev) ==
  [u \in Users |->
    IF u \notin rev.listed THEN NoOwner
    ELSE [status |-> IF u \in rev.accepted \/ rows[u].status = "accepted"
                       THEN "accepted" ELSE "pending",
          addedIn |-> rev.version]]

ReconcileNeverPromotes(rows, rev) ==
  [u \in Users |->
    IF u \notin rev.listed THEN NoOwner
    ELSE IF rows[u] # NoOwner THEN rows[u]
    ELSE [status |-> IF u \in rev.accepted THEN "accepted" ELSE "pending",
          addedIn |-> rev.version]]

(* Owners the payload omits are deleted, owners it carries over keep the   *)
(* revision that added them and never fall back to pending, and the rest   *)
(* are inserted with the new revision's version.                           *)
ReconcileOwners(rows, rev) ==
  [u \in Users |->
    IF u \notin rev.listed THEN NoOwner
    ELSE IF rows[u] = NoOwner
      THEN [status |-> IF u \in rev.accepted THEN "accepted" ELSE "pending",
            addedIn |-> rev.version]
    ELSE [rows[u] EXCEPT
            !.status = IF u \in rev.accepted THEN "accepted" ELSE @]]

AnyFreshVersion(g, v) == \A rev \in revisions[g] : rev.version # v

(* The SELECT of the head and the conditional UPDATE agree: both are inside*)
(* one transaction.  UNIQUE (garage_id, revision_version) comes on top.    *)
AdvancesHead(g, v) ==
  /\ v > head[g]
  /\ \A rev \in revisions[g] : rev.version # v

AppendGarageRevision(r) ==
  LET q == requests[r] IN
  /\ q.op = "revise"
  /\ \E rev \in Revision :
       /\ rev.signer = q.user
       /\ ValidGarage(rev)
       /\ AdvancesHead(q.garage, rev.version)
       /\ revisions' = [revisions EXCEPT ![q.garage] = @ \cup {rev}]
       /\ head' = [head EXCEPT ![q.garage] = rev.version]
       /\ owners' = [owners EXCEPT ![q.garage] = ReconcileOwners(@, rev)]
  /\ Answer(r)
  /\ UNCHANGED <<acceptances, invites, redemptions>>

-----------------------------------------------------------------------------
(* Acceptances.  An acceptance names the revision that invited the user.   *)

AcceptAtAnyRevision(g, u, v) == owners[g][u].status = "pending"

(* The pending row, the binding to the invite revision and the UNIQUE key  *)
(* of garage_ownership_acceptances.                                        *)
InvitationPending(g, u, v) ==
  /\ owners[g][u].status = "pending"
  /\ owners[g][u].addedIn = v
  /\ <<u, v>> \notin acceptances[g]

AcceptGarageOwnership(u, g, v) ==
  /\ InvitationPending(g, u, v)
  /\ acceptances' = [acceptances EXCEPT ![g] = @ \cup {<<u, v>>}]
  /\ owners' = [owners EXCEPT ![g][u].status = "accepted"]
  /\ UNCHANGED <<head, revisions, invites, redemptions, requests>>

(* ErrGarageOwnershipAlreadyAccepted: the handler goes on to look up the   *)
(* acceptance it takes to be on file.                                      *)
AlreadyAccepted(g, u, v) ==
  /\ owners[g][u] # NoOwner
  /\ owners[g][u].addedIn = v
  /\ IsAcceptedOwner(g, u) \/ <<u, v>> \in acceptances[g]

ReplayGarageOwnership(r, u, g, v) ==
  /\ AlreadyAccepted(g, u, v)
  /\ Receive(r, [op |-> "replay", user |-> u, garage |-> g, version |-> v])
  /\ UNCHANGED <<head, revisions, owners, acceptances, invites, redemptions>>

(* GarageOwnershipAcceptanceByKey: 200 with the stored row, 500 without.   *)
AnswerReplay(r) ==
  /\ requests[r].op = "replay"
  /\ Answer(r)
  /\ UNCHANGED <<head, revisions, owners, acceptances, invites, redemptions>>

-----------------------------------------------------------------------------
(* Invites.                                                                *)

IssueGarageInvite(r, i, limit) ==
  LET q == requests[r] IN
  /\ q.op = "issue"
  /\ invites[i] = NoInvite
  /\ invites' = [invites EXCEPT
       ![i] = [garage |-> q.garage, limit |-> limit, count |-> 0,
               revoked |-> FALSE, expired |-> FALSE]]
  /\ Answer(r)
  /\ UNCHANGED <<head, revisions, owners, acceptances, redemptions>>

(* The UPDATE is scoped to the garage of the path; on a row that is already*)
(* revoked it changes nothing and still reports success.                   *)
RevokeGarageInvite(r, i) ==
  LET q == requests[r] IN
  /\ q.op = "revoke"
  /\ invites[i] # NoInvite
  /\ invites[i].garage = q.garage
  /\ invites' = [invites EXCEPT ![i].revoked = TRUE]
  /\ Answer(r)
  /\ UNCHANGED <<head, revisions, owners, acceptances, redemptions>>

(* The clock passes expires_at.                                            *)
ExpireGarageInvite(i) ==
  /\ invites[i] # NoInvite
  /\ ~invites[i].expired
  /\ invites' = [invites EXCEPT ![i].expired = TRUE]
  /\ UNCHANGED <<head, revisions, owners, acceptances, redemptions, requests>>

(* RedeemGarageInvite reads the clock before it waits for the connection.  *)
BeginRedeem(r, u, i) ==
  /\ invites[i] # NoInvite
  /\ Receive(r, [op |-> "redeem", user |-> u, invite |-> i,
                 expired |-> invites[i].expired])
  /\ UNCHANGED <<head, revisions, owners, acceptances, invites, redemptions>>

RedeemableAgain(q) ==
  LET inv == invites[q.invite] IN
  /\ ~inv.revoked
  /\ ~q.expired
  /\ inv.count < inv.limit
  /\ ~IsAcceptedOwner(inv.garage, q.user)

RedeemableIfRevoked(q) ==
  LET inv == invites[q.invite] IN
  /\ ~q.expired
  /\ inv.count < inv.limit
  /\ ~IsAcceptedOwner(inv.garage, q.user)
  /\ q.user \notin redemptions[q.invite]

(* What the transaction checks, in this order: revoked, expired (by the    *)
(* clock read earlier), exhausted, already an accepted owner, and the      *)
(* UNIQUE (garage_invite_id, redeemer_user_id) of the redemption row.      *)
Redeemable(q) ==
  LET inv == invites[q.invite] IN
  /\ ~inv.revoked
  /\ ~q.expired
  /\ inv.count < inv.limit
  /\ ~IsAcceptedOwner(inv.garage, q.user)
  /\ q.user \notin redemptions[q.invite]

RedeemerAtNextRevision(g, u) ==
  [status |-> "accepted",
   addedIn |-> IF owners[g][u] = NoOwner THEN head[g] + 1 ELSE owners[g][u].addedIn]

(* A new owner row points at the head; a pending row is promoted and keeps *)
(* the revision that added it.                                             *)
RedeemerRow(g, u) ==
  [status |-> "accepted",
   addedIn |-> IF owners[g][u] = NoOwner THEN head[g] ELSE owners[g][u].addedIn]

RedeemGarageInvite(r) ==
  LET q == requests[r]
      g == invites[q.invite].garage
  IN
  /\ q.op = "redeem"
  /\ Redeemable(q)
  /\ redemptions' = [redemptions EXCEPT ![q.invite] = @ \cup {q.user}]
  /\ invites' = [invites EXCEPT ![q.invite].count = @ + 1]
  /\ owners' = [owners EXCEPT
       ![g] = [@ EXCEPT ![q.user] = RedeemerRow(g, q.user)]]
  /\ Answer(r)
  /\ UNCHANGED <<head, revisions, acceptances>>

-----------------------------------------------------------------------------

Next ==
  \/ \E u \in Users, g \in Garages : CreateGarage(u, g)
  \/ \E r \in Requests, op \in OwnerOps, u \in Users, g \in Garages :
       RequireAcceptedGarageOwner(r, op, u, g)
  \/ \E r \in Requests : RejectRequest(r)
  \/ \E r \in Requests : AppendGarageRevision(r)
  \/ \E u \in Users, g \in Garages, v \in Versions : AcceptGarageOwnership(u, g, v)
  \/ \E r \in Requests, u \in Users, g \in Garages, v \in Versions :
       ReplayGarageOwnership(r, u, g, v)
  \/ \E r \in Requests : AnswerReplay(r)
  \/ \E r \in Requests, i \in Invites, limit \in RedemptionLimits :
       IssueGarageInvite(r, i, limit)
  \/ \E r \in Requests, i \in Invites : RevokeGarageInvite(r, i)
  \/ \E i \in Invites : ExpireGarageInvite(i)
  \/ \E r \in Requests, u \in Users, i \in Invites : BeginRedeem(r, u, i)
  \/ \E r \in Requests : RedeemGarageInvite(r)

Spec == Init /\ [][Next]_vars

-----------------------------------------------------------------------------
(* Safety.                                                                 *)

(* The head pointer of an existing garage names a stored revision and no   *)
(* stored revision is newer; no two rows share a version.  Concurrent      *)
(* owners may race to append (garage.go, AppendGarageRevision).            *)
HeadIsNewestRevision ==
  \A g \in Garages :
    /\ head[g] = 0 <=> revisions[g] = {}
    /\ \A rev \in revisions[g] : rev.version <= head[g]
    /\ head[g] # 0 => \E rev \in revisions[g] : rev.version = head[g]
    /\ \A x, y \in revisions[g] : x.version = y.version => x = y

(* A garage is never locked: whoever signed its head revision is still an  *)
(* accepted owner, whatever removals, acceptances and redemptions raced.   *)
(* Nobody else could ever repair a garage without one.                     *)
HeadSignerIsAcceptedOwner ==
  \A g \in Garages : \A rev \in revisions[g] :
    rev.version = head[g] => IsAcceptedOwner(g, rev.signer)

(* An acceptance on file settles the invitation it names for good: the user*)
(* is never pending again at that revision, so a removed and re-invited    *)
(* owner must sign again, and the UNIQUE key of the acceptance table never *)
(* fires for an invitation that is pending (garage.go, the branch that maps*)
(* a unique violation to "already accepted").                              *)
AcceptanceSettlesInvitation ==
  \A g \in Garages : \A a \in acceptances[g] :
    owners[g][a[1]].status = "pending" => owners[g][a[1]].addedIn > a[2]

(* redemption_count is the number of redemption rows, and never exceeds    *)
(* max_redemptions although the limit is checked before and outside the    *)
(* increment (garage_invite.go, RedeemGarageInvite).                       *)
RedemptionsAreCounted ==
  \A i \in Invites :
    IF invites[i] = NoInvite
    THEN redemptions[i] = {}
    ELSE /\ invites[i].count = Cardinality(redemptions[i])
         /\ invites[i].count <= invites[i].limit

(* Every owner row has a record that explains it.  A pending row names the *)
(* stored revision that listed its user as pending; an accepted row rests  *)
(* on an acceptance bound to that row's revision, on a redeemed invite of  *)
(* this garage, or on a signed revision, no older than the row, that lists *)
(* the user as accepted.                                                   *)
OwnersAreAccountedFor ==
  \A g \in Garages, u \in Users :
    LET row == owners[g][u] IN
    /\ row.status = "pending" =>
         \E rev \in revisions[g] :
           rev.version = row.addedIn /\ u \in rev.listed \ rev.accepted
    /\ row.status = "accepted" =>
         \/ <<u, row.addedIn>> \in acceptances[g]
         \/ \E i \in Invites :
              invites[i] # NoInvite /\ invites[i].garage = g /\ u \in redemptions[i]
         \/ \E rev \in revisions[g] :
              rev.version >= row.addedIn /\ u \in rev.accepted

(* A step never turns an accepted owner back into a pending one: only a    *)
(* removal ends the ownership, and the row that is kept keeps its binding  *)
(* (garage.go, "a revision cannot reset accepted_time back to pending").   *)
AcceptedNeverReset ==
  [][\A g \in Garages, u \in Users :
       /\ IsAcceptedOwner(g, u)
       /\ owners'[g][u] # NoOwner
       => owners'[g][u] = owners[g][u]]_vars

(* Who is not an owner becomes one only by a new revision or by a          *)
(* redemption recorded in that step, with an invite that is not revoked: a *)
(* removed owner cannot come back on an old acceptance or on an invite     *)
(* already redeemed, and once a revocation is committed nobody redeems,    *)
(* not even in a request that was already being served.                    *)
EntryNeedsFreshGrant ==
  [][\A g \in Garages, u \in Users :
       /\ owners[g][u] = NoOwner
       /\ owners'[g][u] # NoOwner
       => \/ head'[g] > head[g]
          \/ \E i \in Invites :
               /\ invites[i] # NoInvite
               /\ invites[i].garage = g
               /\ ~invites[i].revoked
               /\ u \in redemptions'[i] \ redemptions[i]]_vars

(* Garages implement the abstract chain of signed revisions.               *)
Chain ==
  INSTANCE RevisionChain
    WITH Chains <- Garages,
         recorded <- [g \in Garages |-> {rev.version : rev \in revisions[g]}]

RevisionsFormChain == Chain!Spec

-----------------------------------------------------------------------------
(* What makes the invariants above inductive.                              *)

RowsWellFormed ==
  /\ \A g \in Garages, u \in Users :
       /\ owners[g][u].status = "none" => owners[g][u] = NoOwner
       /\ owners[g][u].status # "none" => owners[g][u].addedIn \in 1..head[g]
  /\ \A i \in Invites : invites[i] # NoInvite => head[invites[i].garage] # 0
  /\ \A r \in Requests :
       /\ requests[r].op \in OwnerOps => head[requests[r].garage] # 0
       /\ requests[r].op = "redeem" => invites[requests[r].invite] # NoInvite

(* Where an acceptance on file leaves the accepter: gone since a later     *)
(* revision, still accepted, or added again after it.                      *)
AcceptancesBehindOwners ==
  \A g \in Garages : \A a \in acceptances[g] :
    LET row == owners[g][a[1]] IN
    /\ a[2] <= head[g]
    /\ row.status = "none" => a[2] < head[g]
    /\ row.status = "pending" => a[2] < row.addedIn
    /\ row.status = "accepted" => a[2] <= row.addedIn

GarageInv ==
  /\ TypeOK
  /\ HeadIsNewestRevision
  /\ RowsWellFormed
  /\ HeadSignerIsAcceptedOwner
  /\ AcceptancesBehindOwners

-----------------------------------------------------------------------------
(* What the repository says of the program, and the program does not do.   *)

(* garages.go: "Authority: caller must be an accepted owner" when a        *)
(* revision is recorded.                                                   *)
RevisionsNeedAcceptedOwner ==
  [][\A g \in Garages : \A rev \in revisions'[g] \ revisions[g] :
       head[g] # 0 => IsAcceptedOwner(g, rev.signer)]_vars

(* garage.go: after "already accepted" the acceptance "lookup should always*)
(* hit".                                                                   *)
ReplayLookupHits ==
  \A r \in Requests :
    requests[r].op = "replay" =>
      <<requests[r].user, requests[r].version>> \in acceptances[requests[r].garage]
=============================================================================
