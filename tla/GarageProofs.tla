---------------------------- MODULE GarageProofs ----------------------------
(***************************************************************************)
(* Proofs about Garage, for every set of users, garages, invites and       *)
(* requests and every bound on versions.                                   *)
(***************************************************************************)
EXTENDS Garage, FiniteSetTheorems, TLAPS

(* The empty database is well typed.                                       *)
LEMMA InitType == Init => TypeOK
  BY GarageAssumptions DEF Init, TypeOK, NoOwner, OwnerRow, Request, Idle

(* What a request slot holds, by its op.                                   *)
LEMMA RequestFields ==
  ASSUME NEW q \in Request
  PROVE  /\ q.op \in OwnerOps => q.user \in Users /\ q.garage \in Garages
         /\ q.op = "redeem" => /\ q.user \in Users
                               /\ q.invite \in Invites
                               /\ q.expired \in BOOLEAN
         /\ q.op = "replay" => /\ q.user \in Users
                               /\ q.garage \in Garages
                               /\ q.version \in Versions
  BY DEF Request, Idle, OwnerOps

(* Reconciling owner rows with a payload yields owner rows.                *)
LEMMA ReconcileType ==
  ASSUME NEW rows \in [Users -> OwnerRow], NEW rev \in Revision
  PROVE  ReconcileOwners(rows, rev) \in [Users -> OwnerRow]
  <1> USE GarageAssumptions DEF Revision, Versions, OwnerRow, NoOwner
  <1>1. ASSUME NEW u \in Users
        PROVE  ReconcileOwners(rows, rev)[u] \in OwnerRow
    <2>1. rev.version \in 0..MaxVersion
      OBVIOUS
    <2>2. rows[u] \in OwnerRow
      OBVIOUS
    <2> QED
      BY <2>1, <2>2 DEF ReconcileOwners
  <1> QED
    BY <1>1 DEF ReconcileOwners

(* Answering a request leaves the request slots well typed.                *)
LEMMA AnswerType ==
  ASSUME TypeOK, NEW r \in Requests, Answer(r)
  PROVE  requests' \in [Requests -> Request]
  BY DEF TypeOK, Answer, Request

(* An acceptance turns the pending row it names into an accepted one.      *)
LEMMA AcceptEffect ==
  ASSUME TypeOK, NEW u \in Users, NEW g \in Garages, NEW v \in Versions,
         AcceptGarageOwnership(u, g, v)
  PROVE  /\ owners' = [owners EXCEPT ![g] =
                        [@ EXCEPT ![u] = [status |-> "accepted", addedIn |-> v]]]
         /\ [status |-> "accepted", addedIn |-> v] \in OwnerRow
         /\ owners[g][u].status = "pending"
         /\ owners[g][u].addedIn = v
  <1>1. owners[g][u] \in OwnerRow /\ owners[g][u].status = "pending"
        /\ owners[g][u].addedIn = v
    BY DEF AcceptGarageOwnership, InvitationPending, TypeOK
  <1>2. [owners[g][u] EXCEPT !.status = "accepted"]
          = [status |-> "accepted", addedIn |-> v]
    BY <1>1 DEF OwnerRow
  <1>3. [status |-> "accepted", addedIn |-> v] \in OwnerRow
    BY <1>1 DEF OwnerRow
  <1> QED
    BY <1>1, <1>2, <1>3 DEF AcceptGarageOwnership

(* Every Store call writes well-typed rows, given that the rows it copies  *)
(* point at revisions that exist.                                          *)
LEMMA NextType == TypeOK /\ RowsWellFormed /\ [Next]_vars => TypeOK'
  <1> SUFFICES ASSUME TypeOK, RowsWellFormed, [Next]_vars PROVE TypeOK'
    OBVIOUS
  <1> USE GarageAssumptions
  <1>1. ASSUME NEW u \in Users, NEW g \in Garages, CreateGarage(u, g)
        PROVE  TypeOK'
    <2>1. GenesisRevision(u) \in Revision
      BY DEF GenesisRevision, Revision, Versions
    <2>2. [status |-> "accepted", addedIn |-> 1] \in OwnerRow
      BY DEF OwnerRow
    <2> QED
      BY <1>1, <2>1, <2>2 DEF CreateGarage, TypeOK
  <1>2. ASSUME NEW r \in Requests, NEW op \in OwnerOps, NEW u \in Users,
               NEW g \in Garages, RequireAcceptedGarageOwner(r, op, u, g)
        PROVE  TypeOK'
    <2>1. [op |-> op, user |-> u, garage |-> g] \in Request
      BY DEF Request
    <2> QED
      BY <1>2, <2>1 DEF RequireAcceptedGarageOwner, Receive, TypeOK
  <1>3. ASSUME NEW r \in Requests, RejectRequest(r)
        PROVE  TypeOK'
    BY <1>3, AnswerType DEF RejectRequest, TypeOK
  <1>4. ASSUME NEW r \in Requests, AppendGarageRevision(r)
        PROVE  TypeOK'
    <2> DEFINE q == requests[r]
    <2>1. q \in Request /\ q.garage \in Garages
      BY <1>4, RequestFields DEF AppendGarageRevision, TypeOK, OwnerOps
    <2>2. PICK rev \in Revision :
            /\ revisions' = [revisions EXCEPT ![q.garage] = @ \cup {rev}]
            /\ head' = [head EXCEPT ![q.garage] = rev.version]
            /\ owners' = [owners EXCEPT ![q.garage] = ReconcileOwners(@, rev)]
      BY <1>4 DEF AppendGarageRevision
    <2>3. rev.version \in 0..MaxVersion
      BY DEF Revision, Versions
    <2>4. ReconcileOwners(owners[q.garage], rev) \in [Users -> OwnerRow]
      BY <2>1, ReconcileType DEF TypeOK
    <2>5. requests' \in [Requests -> Request]
      BY <1>4, AnswerType DEF AppendGarageRevision
    <2>6. UNCHANGED <<acceptances, invites, redemptions>>
      BY <1>4 DEF AppendGarageRevision
    <2> QED
      BY <2>1, <2>2, <2>3, <2>4, <2>5, <2>6 DEF TypeOK
  <1>5. ASSUME NEW u \in Users, NEW g \in Garages, NEW v \in Versions,
               AcceptGarageOwnership(u, g, v)
        PROVE  TypeOK'
    <2>0. /\ owners' = [owners EXCEPT ![g] =
                         [@ EXCEPT ![u] = [status |-> "accepted", addedIn |-> v]]]
          /\ [status |-> "accepted", addedIn |-> v] \in OwnerRow
          /\ owners[g][u].status = "pending"
          /\ owners[g][u].addedIn = v
      BY <1>5, AcceptEffect
    <2>1. owners' \in [Garages -> [Users -> OwnerRow]]
      BY <2>0 DEF TypeOK
    <2> QED
      BY <1>5, <2>1 DEF AcceptGarageOwnership, TypeOK
  <1>6. ASSUME NEW r \in Requests, NEW u \in Users, NEW g \in Garages,
               NEW v \in Versions, ReplayGarageOwnership(r, u, g, v)
        PROVE  TypeOK'
    <2>1. [op |-> "replay", user |-> u, garage |-> g, version |-> v] \in Request
      BY DEF Request
    <2> QED
      BY <1>6, <2>1 DEF ReplayGarageOwnership, Receive, TypeOK
  <1>7. ASSUME NEW r \in Requests, AnswerReplay(r)
        PROVE  TypeOK'
    BY <1>7, AnswerType DEF AnswerReplay, TypeOK
  <1>8. ASSUME NEW r \in Requests, NEW i \in Invites,
               NEW limit \in RedemptionLimits, IssueGarageInvite(r, i, limit)
        PROVE  TypeOK'
    <2>1. requests[r].garage \in Garages
      BY <1>8, RequestFields DEF IssueGarageInvite, TypeOK, OwnerOps
    <2>2. [garage |-> requests[r].garage, limit |-> limit, count |-> 0,
           revoked |-> FALSE, expired |-> FALSE] \in InviteRow
      BY <2>1 DEF InviteRow
    <2>3. requests' \in [Requests -> Request]
      BY <1>8, AnswerType DEF IssueGarageInvite
    <2> QED
      BY <1>8, <2>2, <2>3 DEF IssueGarageInvite, TypeOK
  <1>9. ASSUME NEW r \in Requests, NEW i \in Invites, RevokeGarageInvite(r, i)
        PROVE  TypeOK'
    <2>1. invites[i] \in InviteRow
      BY <1>9 DEF RevokeGarageInvite, TypeOK
    <2>2. [invites[i] EXCEPT !.revoked = TRUE] \in InviteRow
      BY <2>1 DEF InviteRow
    <2>3. requests' \in [Requests -> Request]
      BY <1>9, AnswerType DEF RevokeGarageInvite
    <2> QED
      BY <1>9, <2>2, <2>3 DEF RevokeGarageInvite, TypeOK
  <1>10. ASSUME NEW i \in Invites, ExpireGarageInvite(i)
         PROVE  TypeOK'
    <2>1. invites[i] \in InviteRow
      BY <1>10 DEF ExpireGarageInvite, TypeOK
    <2>2. [invites[i] EXCEPT !.expired = TRUE] \in InviteRow
      BY <2>1 DEF InviteRow
    <2> QED
      BY <1>10, <2>2 DEF ExpireGarageInvite, TypeOK
  <1>11. ASSUME NEW r \in Requests, NEW u \in Users, NEW i \in Invites,
                BeginRedeem(r, u, i)
         PROVE  TypeOK'
    <2>1. invites[i].expired \in BOOLEAN
      BY <1>11 DEF BeginRedeem, TypeOK, InviteRow
    <2>2. [op |-> "redeem", user |-> u, invite |-> i,
           expired |-> invites[i].expired] \in Request
      BY <2>1 DEF Request
    <2> QED
      BY <1>11, <2>2 DEF BeginRedeem, Receive, TypeOK
  <1>12. ASSUME NEW r \in Requests, RedeemGarageInvite(r)
         PROVE  TypeOK'
    <2> DEFINE q == requests[r]
               g == invites[q.invite].garage
    <2>1. q.user \in Users /\ q.invite \in Invites
      BY <1>12, RequestFields DEF RedeemGarageInvite, TypeOK
    <2>2. invites[q.invite] \in InviteRow
      BY <1>12, <2>1 DEF RedeemGarageInvite, TypeOK, RowsWellFormed
    <2>3. [invites[q.invite] EXCEPT !.count = @ + 1] \in InviteRow /\ g \in Garages
      BY <2>2 DEF InviteRow
    <2>4. RedeemerRow(g, q.user) \in OwnerRow
      <3>1. head[g] \in 0..MaxVersion /\ owners[g][q.user] \in OwnerRow
        BY <2>1, <2>3 DEF TypeOK
      <3> QED
        BY <3>1 DEF RedeemerRow, OwnerRow
    <2>5. requests' \in [Requests -> Request]
      BY <1>12, AnswerType DEF RedeemGarageInvite
    <2>6. invites' \in [Invites -> InviteRow \cup {NoInvite}]
      BY <1>12, <2>1, <2>3 DEF RedeemGarageInvite, TypeOK
    <2>7. owners' \in [Garages -> [Users -> OwnerRow]]
      BY <1>12, <2>1, <2>3, <2>4 DEF RedeemGarageInvite, TypeOK
    <2>8. redemptions' \in [Invites -> SUBSET Users]
      BY <1>12, <2>1 DEF RedeemGarageInvite, TypeOK
    <2> QED
      BY <1>12, <2>5, <2>6, <2>7, <2>8 DEF RedeemGarageInvite, TypeOK
  <1>13. CASE UNCHANGED vars
    BY <1>13 DEF vars, TypeOK
  <1> QED
    BY <1>1, <1>2, <1>3, <1>4, <1>5, <1>6, <1>7, <1>8, <1>9, <1>10, <1>11,
       <1>12, <1>13 DEF Next

-----------------------------------------------------------------------------
(* The steps that touch a garage, and what they do to it.                  *)

(* A step that changes garages, revisions, owners or acceptances is a      *)
(* creation, an append, an acceptance or a redemption; every other handler *)
(* leaves these tables alone.                                              *)
LEMMA GarageSteps ==
  ASSUME [Next]_vars
  PROVE  \/ \E u \in Users, g \in Garages : CreateGarage(u, g)
         \/ \E r \in Requests : AppendGarageRevision(r)
         \/ \E u \in Users, g \in Garages, v \in Versions :
              AcceptGarageOwnership(u, g, v)
         \/ \E r \in Requests : RedeemGarageInvite(r)
         \/ UNCHANGED <<head, revisions, owners, acceptances>>
  BY DEF Next, vars, RequireAcceptedGarageOwner, RejectRequest,
         ReplayGarageOwnership, AnswerReplay, IssueGarageInvite,
         RevokeGarageInvite, ExpireGarageInvite, BeginRedeem

(* A revision rev is appended to garage g.                                 *)
Appends(g, rev) ==
  /\ ValidGarage(rev)
  /\ AdvancesHead(g, rev.version)
  /\ revisions' = [revisions EXCEPT ![g] = @ \cup {rev}]
  /\ head' = [head EXCEPT ![g] = rev.version]
  /\ owners' = [owners EXCEPT ![g] = ReconcileOwners(@, rev)]
  /\ UNCHANGED <<acceptances, invites, redemptions>>

(* What AppendGarageRevision does to its garage, for some payload that     *)
(* Validate lets through.                                                  *)
LEMMA AppendEffect ==
  ASSUME TypeOK, RowsWellFormed, NEW r \in Requests, AppendGarageRevision(r)
  PROVE  \E g \in Garages, rev \in Revision :
           head[g] # 0 /\ rev.version \in Versions /\ Appends(g, rev)
  <1>1. requests[r].garage \in Garages /\ head[requests[r].garage] # 0
    BY RequestFields DEF AppendGarageRevision, TypeOK, OwnerOps, RowsWellFormed
  <1> QED
    BY <1>1 DEF AppendGarageRevision, Appends, Revision

(* User u redeems invite i and enters garage g.                            *)
Redeems(i, g, u) ==
  /\ invites[i] \in InviteRow
  /\ invites[i] # NoInvite
  /\ g = invites[i].garage
  /\ ~invites[i].revoked
  /\ invites[i].count < invites[i].limit
  /\ ~IsAcceptedOwner(g, u)
  /\ u \notin redemptions[i]
  /\ redemptions' = [redemptions EXCEPT ![i] = @ \cup {u}]
  /\ invites' = [invites EXCEPT ![i].count = @ + 1]
  /\ owners' = [owners EXCEPT ![g] = [@ EXCEPT ![u] = RedeemerRow(g, u)]]
  /\ UNCHANGED <<head, revisions, acceptances>>

(* What RedeemGarageInvite does to the garage of its invite.               *)
LEMMA RedeemEffect ==
  ASSUME TypeOK, RowsWellFormed, NEW r \in Requests, RedeemGarageInvite(r)
  PROVE  \E i \in Invites, g \in Garages, u \in Users : Redeems(i, g, u)
  <1> DEFINE q == requests[r]
  <1>1. q.user \in Users /\ q.invite \in Invites
    BY RequestFields DEF RedeemGarageInvite, TypeOK
  <1>2. invites[q.invite] \in InviteRow /\ invites[q.invite] # NoInvite
    BY <1>1 DEF RedeemGarageInvite, TypeOK, RowsWellFormed
  <1>3. invites[q.invite].garage \in Garages
    BY <1>2 DEF InviteRow
  <1>4. Redeems(q.invite, invites[q.invite].garage, q.user)
    BY <1>2 DEF RedeemGarageInvite, Redeemable, Redeems
  <1> QED
    BY <1>1, <1>3, <1>4

(* What a payload leaves of one owner row.                                 *)
LEMMA ReconcileRow ==
  ASSUME NEW rows \in [Users -> OwnerRow], NEW rev \in Revision, NEW u \in Users
  PROVE  LET row == ReconcileOwners(rows, rev)[u] IN
         /\ u \notin rev.listed => row = NoOwner
         /\ u \in rev.listed /\ rows[u] = NoOwner =>
              row.addedIn = rev.version /\ row.status \in {"pending", "accepted"}
         /\ u \in rev.listed /\ rows[u] = NoOwner /\ row.status = "pending" =>
              u \notin rev.accepted
         /\ u \in rev.listed /\ rows[u] # NoOwner =>
              /\ row.addedIn = rows[u].addedIn
              /\ \/ row.status = rows[u].status
                 \/ (row.status = "accepted" /\ u \in rev.accepted)
         /\ u \in rev.listed /\ u \in rev.accepted => row.status = "accepted"
         /\ row.status = "accepted" =>
              u \in rev.accepted \/ rows[u].status = "accepted"
  BY DEF ReconcileOwners, NoOwner, OwnerRow

-----------------------------------------------------------------------------
(* Rows point at revisions that exist.                                     *)

(* The empty database has no row that could dangle.                        *)
LEMMA InitRows == Init => RowsWellFormed
  BY DEF Init, RowsWellFormed, NoOwner, Idle, OwnerOps

(* The part of RowsWellFormed about owner rows.                            *)
OwnerRowsFormed ==
  \A g \in Garages, u \in Users :
    /\ owners[g][u].status = "none" => owners[g][u] = NoOwner
    /\ owners[g][u].status # "none" => owners[g][u].addedIn \in 1..head[g]

(* Every step leaves owner rows that name revisions up to the head         *)
(* (garage_owners.added_in_revision_version).                              *)
LEMMA NextOwnerRows ==
  ASSUME TypeOK, RowsWellFormed, [Next]_vars
  PROVE  OwnerRowsFormed'
  <1> USE GarageAssumptions
  <1>0. OwnerRowsFormed
    BY DEF RowsWellFormed, OwnerRowsFormed
  <1>1. ASSUME NEW u \in Users, NEW g \in Garages, CreateGarage(u, g)
        PROVE  OwnerRowsFormed'
    BY <1>0, <1>1 DEF OwnerRowsFormed, CreateGarage, TypeOK, NoOwner, OwnerRow
  <1>2. ASSUME NEW r \in Requests, AppendGarageRevision(r)
        PROVE  OwnerRowsFormed'
    <2>1. PICK g \in Garages, rev \in Revision : Appends(g, rev)
      BY <1>2, AppendEffect
    <2>2. rev.version \in Nat /\ rev.version > head[g] /\ head[g] \in Nat
      BY <2>1 DEF Appends, AdvancesHead, Revision, Versions, TypeOK
    <2> SUFFICES ASSUME NEW h \in Garages, NEW u \in Users
                 PROVE  /\ owners'[h][u].status = "none" => owners'[h][u] = NoOwner
                        /\ owners'[h][u].status # "none" =>
                             owners'[h][u].addedIn \in 1..head'[h]
      BY DEF OwnerRowsFormed
    <2>3. CASE h # g
      BY <1>0, <2>1, <2>3 DEF Appends, OwnerRowsFormed, TypeOK
    <2>4. CASE h = g
      <3> DEFINE row == ReconcileOwners(owners[g], rev)[u]
      <3>1. owners[g] \in [Users -> OwnerRow] /\ owners[g][u] \in OwnerRow
        BY DEF TypeOK
      <3>2. owners'[h][u] = row /\ head'[h] = rev.version
        BY <2>1, <2>4 DEF Appends, TypeOK
      <3>3. row.status = "none" => row = NoOwner
        BY <1>0, <3>1, ReconcileRow DEF OwnerRowsFormed
      <3>4. row.status # "none" => row.addedIn \in 1..rev.version
        <4>1. CASE u \notin rev.listed
          BY <3>1, <4>1, ReconcileRow DEF NoOwner
        <4>2. CASE u \in rev.listed /\ owners[g][u] = NoOwner
          BY <2>2, <3>1, <4>2, ReconcileRow
        <4>3. CASE u \in rev.listed /\ owners[g][u] # NoOwner
          <5>1. owners[g][u].addedIn \in 1..head[g]
            BY <1>0, <4>3 DEF OwnerRowsFormed
          <5> QED
            BY <2>2, <3>1, <4>3, <5>1, ReconcileRow
        <4> QED
          BY <4>1, <4>2, <4>3
      <3> QED
        BY <3>2, <3>3, <3>4
    <2> QED
      BY <2>3, <2>4
  <1>3. ASSUME NEW u \in Users, NEW g \in Garages, NEW v \in Versions,
               AcceptGarageOwnership(u, g, v)
        PROVE  OwnerRowsFormed'
    <2>0. /\ owners' = [owners EXCEPT ![g] =
                         [@ EXCEPT ![u] = [status |-> "accepted", addedIn |-> v]]]
          /\ [status |-> "accepted", addedIn |-> v] \in OwnerRow
          /\ owners[g][u].status = "pending"
          /\ owners[g][u].addedIn = v
      BY <1>3, AcceptEffect
    <2>1. head' = head
      BY <1>3 DEF AcceptGarageOwnership
    <2> QED
      BY <1>0, <2>0, <2>1 DEF OwnerRowsFormed, TypeOK
  <1>4. ASSUME NEW r \in Requests, RedeemGarageInvite(r)
        PROVE  OwnerRowsFormed'
    <2>1. PICK i \in Invites, g \in Garages, u \in Users : Redeems(i, g, u)
      BY <1>4, RedeemEffect
    <2>2. head[g] \in Nat /\ head[g] # 0
      BY <2>1 DEF Redeems, RowsWellFormed, TypeOK
    <2>3. owners[g][u] \in OwnerRow
      BY DEF TypeOK
    <2>4. RedeemerRow(g, u).status = "accepted"
          /\ RedeemerRow(g, u).addedIn \in 1..head[g]
      BY <1>0, <2>2, <2>3 DEF RedeemerRow, OwnerRowsFormed, OwnerRow, NoOwner
    <2> QED
      BY <1>0, <2>1, <2>4 DEF Redeems, OwnerRowsFormed, TypeOK
  <1>5. CASE UNCHANGED <<head, revisions, owners, acceptances>>
    BY <1>0, <1>5 DEF OwnerRowsFormed
  <1> QED
    BY <1>1, <1>2, <1>3, <1>4, <1>5, GarageSteps

(* No garage and no invite row ever disappears, and an invite stays with   *)
(* its garage.                                                             *)
LEMMA RowsStay ==
  ASSUME TypeOK, RowsWellFormed, [Next]_vars
  PROVE  /\ \A g \in Garages : head[g] # 0 => head'[g] # 0
         /\ \A i \in Invites : invites[i] # NoInvite =>
              invites'[i] # NoInvite /\ invites'[i].garage = invites[i].garage
         /\ \A i \in Invites : invites[i] = NoInvite /\ invites'[i] # NoInvite =>
              \E r \in Requests : /\ requests[r].op \in OwnerOps
                                  /\ requests[r].garage = invites'[i].garage
  <1> USE GarageAssumptions
  <1>1. \A g \in Garages : head[g] # 0 => head'[g] # 0
    <2>1. ASSUME NEW r \in Requests, AppendGarageRevision(r)
          PROVE  \A g \in Garages : head[g] # 0 => head'[g] # 0
      <3>1. PICK g \in Garages, rev \in Revision :
              rev.version \in Versions /\ Appends(g, rev)
        BY <2>1, AppendEffect
      <3> QED
        BY <3>1 DEF Appends, Versions, TypeOK
    <2> QED
      BY <2>1, GarageSteps DEF CreateGarage, AcceptGarageOwnership,
                               RedeemGarageInvite, TypeOK
  <1> DEFINE Stay == \A i \in Invites : invites[i] # NoInvite =>
                 invites'[i] # NoInvite /\ invites'[i].garage = invites[i].garage
             Come == \A i \in Invites : invites[i] = NoInvite /\ invites'[i] # NoInvite =>
                 \E r \in Requests : /\ requests[r].op \in OwnerOps
                                     /\ requests[r].garage = invites'[i].garage
  <1>2. ASSUME NEW r \in Requests, NEW j \in Invites,
               NEW limit \in RedemptionLimits, IssueGarageInvite(r, j, limit)
        PROVE  Stay /\ Come
    BY <1>2 DEF IssueGarageInvite, TypeOK, OwnerOps
  <1>3. ASSUME NEW r \in Requests, NEW j \in Invites, RevokeGarageInvite(r, j)
        PROVE  Stay /\ Come
    <2>1. invites[j] \in InviteRow
      BY <1>3 DEF RevokeGarageInvite, TypeOK
    <2>2. [invites[j] EXCEPT !.revoked = TRUE] \in InviteRow
      BY <2>1 DEF InviteRow
    <2> QED
      BY <1>3, <2>1, <2>2, NoInviteAssumption DEF RevokeGarageInvite, TypeOK, InviteRow
  <1>4. ASSUME NEW j \in Invites, ExpireGarageInvite(j)
        PROVE  Stay /\ Come
    <2>1. invites[j] \in InviteRow
      BY <1>4 DEF ExpireGarageInvite, TypeOK
    <2>2. [invites[j] EXCEPT !.expired = TRUE] \in InviteRow
      BY <2>1 DEF InviteRow
    <2> QED
      BY <1>4, <2>1, <2>2, NoInviteAssumption DEF ExpireGarageInvite, TypeOK, InviteRow
  <1>5. ASSUME NEW r \in Requests, RedeemGarageInvite(r)
        PROVE  Stay /\ Come
    <2>1. PICK j \in Invites, g \in Garages, u \in Users : Redeems(j, g, u)
      BY <1>5, RedeemEffect
    <2>2. [invites[j] EXCEPT !.count = @ + 1] \in InviteRow
      BY <2>1 DEF Redeems, InviteRow
    <2> QED
      BY <2>1, <2>2, NoInviteAssumption DEF Redeems, TypeOK, InviteRow
  <1>6. ASSUME UNCHANGED invites
        PROVE  Stay /\ Come
    BY <1>6
  <1> QED
    BY <1>1, <1>2, <1>3, <1>4, <1>5, <1>6
    DEF Next, vars, CreateGarage, RequireAcceptedGarageOwner, RejectRequest,
        AppendGarageRevision, AcceptGarageOwnership, ReplayGarageOwnership,
        AnswerReplay, BeginRedeem

(* A request is only ever taken in with a handle that exists, or answered. *)
LEMMA RequestSteps ==
  ASSUME TypeOK, RowsWellFormed, [Next]_vars, NEW r \in Requests,
         requests'[r] # requests[r]
  PROVE  \/ requests'[r] = Idle
         \/ /\ requests'[r].op \in OwnerOps
            /\ requests'[r].garage \in Garages
            /\ head[requests'[r].garage] # 0
         \/ /\ requests'[r].op = "redeem"
            /\ requests'[r].invite \in Invites
            /\ invites[requests'[r].invite] # NoInvite
         \/ requests'[r].op = "replay"
  <1>1. ASSUME NEW s \in Requests, NEW op \in OwnerOps, NEW u \in Users,
               NEW g \in Garages, RequireAcceptedGarageOwner(s, op, u, g)
        PROVE  /\ requests'[r].op \in OwnerOps
               /\ requests'[r].garage \in Garages
               /\ head[requests'[r].garage] # 0
    <2>1. requests'[r] = [op |-> op, user |-> u, garage |-> g]
      BY <1>1 DEF RequireAcceptedGarageOwner, Receive, TypeOK
    <2>2. head[g] # 0
      BY <1>1 DEF RequireAcceptedGarageOwner, IsAcceptedOwner, RowsWellFormed
    <2> QED
      BY <2>1, <2>2
  <1>2. ASSUME NEW s \in Requests, NEW u \in Users, NEW g \in Garages,
               NEW v \in Versions, ReplayGarageOwnership(s, u, g, v)
        PROVE  requests'[r].op = "replay"
    BY <1>2 DEF ReplayGarageOwnership, Receive, TypeOK
  <1>3. ASSUME NEW s \in Requests, NEW u \in Users, NEW i \in Invites,
               BeginRedeem(s, u, i)
        PROVE  /\ requests'[r].op = "redeem"
               /\ requests'[r].invite \in Invites
               /\ invites[requests'[r].invite] # NoInvite
    BY <1>3 DEF BeginRedeem, Receive, TypeOK
  <1>4. ASSUME NEW s \in Requests, Answer(s)
        PROVE  requests'[r] = Idle
    BY <1>4 DEF Answer, TypeOK
  <1> QED
    BY <1>1, <1>2, <1>3, <1>4
    DEF Next, vars, CreateGarage, RejectRequest, AppendGarageRevision,
        AcceptGarageOwnership, AnswerReplay, IssueGarageInvite,
        RevokeGarageInvite, ExpireGarageInvite, RedeemGarageInvite

(* Every step preserves RowsWellFormed.                                    *)
LEMMA NextRows ==
  ASSUME TypeOK, RowsWellFormed, [Next]_vars
  PROVE  RowsWellFormed'
  <1>1. OwnerRowsFormed'
    BY NextOwnerRows
  <1>2. ASSUME NEW i \in Invites, invites'[i] # NoInvite
        PROVE  head'[invites'[i].garage] # 0
    <2>1. CASE invites[i] # NoInvite
      <3>1. invites[i].garage \in Garages /\ head[invites[i].garage] # 0
        BY <2>1 DEF RowsWellFormed, TypeOK, InviteRow
      <3> QED
        BY <1>2, <2>1, <3>1, RowsStay
    <2>2. CASE invites[i] = NoInvite
      <3>1. PICK r \in Requests : /\ requests[r].op \in OwnerOps
                                  /\ requests[r].garage = invites'[i].garage
        BY <1>2, <2>2, RowsStay
      <3>2. requests[r].garage \in Garages /\ head[requests[r].garage] # 0
        BY <3>1, RequestFields DEF RowsWellFormed, TypeOK
      <3> QED
        BY <3>1, <3>2, RowsStay
    <2> QED
      BY <2>1, <2>2
  <1>3. ASSUME NEW r \in Requests
        PROVE  /\ requests'[r].op \in OwnerOps => head'[requests'[r].garage] # 0
               /\ requests'[r].op = "redeem" =>
                    invites'[requests'[r].invite] # NoInvite
    <2>1. CASE requests'[r] = requests[r]
      <3>1. /\ requests[r].op \in OwnerOps => requests[r].garage \in Garages
            /\ requests[r].op = "redeem" => requests[r].invite \in Invites
        BY RequestFields DEF TypeOK
      <3> QED
        BY <2>1, <3>1, RowsStay DEF RowsWellFormed
    <2>2. CASE requests'[r] # requests[r]
      BY <2>2, RequestSteps, RowsStay DEF Idle, OwnerOps
    <2> QED
      BY <2>1, <2>2
  <1> QED
    BY <1>1, <1>2, <1>3 DEF RowsWellFormed, OwnerRowsFormed

-----------------------------------------------------------------------------
(* The head pointer and its signer.                                        *)

(* Creation and the compare-and-append of AppendGarageRevision keep the    *)
(* head at the newest stored revision.                                     *)
LEMMA NextHead ==
  ASSUME TypeOK, RowsWellFormed, HeadIsNewestRevision, [Next]_vars
  PROVE  HeadIsNewestRevision'
  <1> USE GarageAssumptions
  <1>1. ASSUME NEW u \in Users, NEW g \in Garages, CreateGarage(u, g)
        PROVE  HeadIsNewestRevision'
    <2>1. /\ head'[g] = 1
          /\ revisions'[g] = {GenesisRevision(u)}
          /\ GenesisRevision(u).version = 1
          /\ \A h \in Garages \ {g} :
               head'[h] = head[h] /\ revisions'[h] = revisions[h]
      BY <1>1 DEF CreateGarage, GenesisRevision, TypeOK
    <2> QED
      BY <2>1 DEF HeadIsNewestRevision
  <1>2. ASSUME NEW r \in Requests, AppendGarageRevision(r)
        PROVE  HeadIsNewestRevision'
    <2>1. PICK g \in Garages, rev \in Revision :
            head[g] # 0 /\ rev.version \in Versions /\ Appends(g, rev)
      BY <1>2, AppendEffect
    <2>2. /\ rev.version \in Nat /\ head[g] \in Nat /\ rev.version > head[g]
          /\ \A x \in revisions[g] : x.version \in Nat
      BY <2>1 DEF Appends, AdvancesHead, Versions, TypeOK, Revision
    <2>3. /\ revisions'[g] = revisions[g] \cup {rev}
          /\ head'[g] = rev.version
          /\ \A h \in Garages \ {g} :
               head'[h] = head[h] /\ revisions'[h] = revisions[h]
      BY <2>1 DEF Appends, TypeOK
    <2>4. \A x \in revisions[g] : x.version <= head[g]
      BY DEF HeadIsNewestRevision
    <2>5. /\ head'[g] # 0 /\ revisions'[g] # {}
          /\ \A x \in revisions'[g] : x.version <= head'[g]
          /\ \E x \in revisions'[g] : x.version = head'[g]
      BY <2>2, <2>3, <2>4
    <2>6. \A x, y \in revisions'[g] : x.version = y.version => x = y
      <3>1. \A x \in revisions[g] : x.version # rev.version
        BY <2>2, <2>4
      <3> QED
        BY <2>3, <3>1 DEF HeadIsNewestRevision
    <2> QED
      BY <2>3, <2>5, <2>6 DEF HeadIsNewestRevision
  <1>3. CASE UNCHANGED <<head, revisions>>
    BY <1>3 DEF HeadIsNewestRevision
  <1> QED
    BY <1>1, <1>2, <1>3, GarageSteps DEF AcceptGarageOwnership, RedeemGarageInvite

(* A new revision makes its signer an accepted owner, and no other step    *)
(* takes an accepted owner away.                                           *)
LEMMA NextSigner ==
  ASSUME TypeOK, RowsWellFormed, HeadIsNewestRevision,
         HeadSignerIsAcceptedOwner, [Next]_vars
  PROVE  HeadSignerIsAcceptedOwner'
  <1> USE GarageAssumptions
  <1>1. ASSUME NEW u \in Users, NEW g \in Garages, CreateGarage(u, g)
        PROVE  HeadSignerIsAcceptedOwner'
    BY <1>1 DEF CreateGarage, GenesisRevision, HeadSignerIsAcceptedOwner,
                IsAcceptedOwner, TypeOK
  <1>2. ASSUME NEW r \in Requests, AppendGarageRevision(r)
        PROVE  HeadSignerIsAcceptedOwner'
    <2>1. PICK g \in Garages, rev \in Revision :
            head[g] # 0 /\ rev.version \in Versions /\ Appends(g, rev)
      BY <1>2, AppendEffect
    <2>2. \A h \in Garages \ {g} :
            /\ head'[h] = head[h]
            /\ revisions'[h] = revisions[h]
            /\ owners'[h] = owners[h]
      BY <2>1 DEF Appends, TypeOK
    <2>3. \A x \in revisions[g] : x.version # rev.version
      BY <2>1 DEF Appends, AdvancesHead
    <2>4. rev.signer \in Users /\ rev.signer \in rev.accepted /\ rev.signer \in rev.listed
      BY <2>1 DEF Appends, ValidGarage, Revision
    <2>5. ReconcileOwners(owners[g], rev)[rev.signer].status = "accepted"
      BY <2>4, ReconcileRow DEF TypeOK
    <2>6. /\ head'[g] = rev.version
          /\ revisions'[g] = revisions[g] \cup {rev}
          /\ owners'[g] = ReconcileOwners(owners[g], rev)
      BY <2>1 DEF Appends, TypeOK
    <2> QED
      BY <2>2, <2>3, <2>5, <2>6 DEF HeadSignerIsAcceptedOwner, IsAcceptedOwner
  <1>3. ASSUME NEW u \in Users, NEW g \in Garages, NEW v \in Versions,
               AcceptGarageOwnership(u, g, v)
        PROVE  HeadSignerIsAcceptedOwner'
    BY <1>3 DEF AcceptGarageOwnership, HeadSignerIsAcceptedOwner,
                IsAcceptedOwner, TypeOK
  <1>4. ASSUME NEW r \in Requests, RedeemGarageInvite(r)
        PROVE  HeadSignerIsAcceptedOwner'
    <2>1. PICK i \in Invites, g \in Garages, u \in Users : Redeems(i, g, u)
      BY <1>4, RedeemEffect
    <2> QED
      BY <2>1 DEF Redeems, RedeemerRow, HeadSignerIsAcceptedOwner,
                  IsAcceptedOwner, TypeOK
  <1>5. CASE UNCHANGED <<head, revisions, owners, acceptances>>
    BY <1>5 DEF HeadSignerIsAcceptedOwner, IsAcceptedOwner
  <1> QED
    BY <1>1, <1>2, <1>3, <1>4, <1>5, GarageSteps

-----------------------------------------------------------------------------
(* Acceptances never catch up with the row of their user.                  *)

(* AcceptancesBehindOwners for one acceptance of version v.                *)
Behind(v, row, h) ==
  /\ v <= h
  /\ row.status = "none" => v < h
  /\ row.status = "pending" => v < row.addedIn
  /\ row.status = "accepted" => v <= row.addedIn

(* Every step preserves AcceptancesBehindOwners: the binding of an         *)
(* acceptance to the revision that invited the user is what keeps it from  *)
(* being used twice.                                                       *)
LEMMA NextAcceptances ==
  ASSUME TypeOK, RowsWellFormed, AcceptancesBehindOwners, [Next]_vars
  PROVE  AcceptancesBehindOwners'
  <1> USE GarageAssumptions
  <1>0. \A g \in Garages : \A a \in acceptances[g] :
          /\ a[1] \in Users /\ a[2] \in Nat /\ a[2] # 0
          /\ Behind(a[2], owners[g][a[1]], head[g])
    BY DEF AcceptancesBehindOwners, Behind, TypeOK, Versions
  <1> SUFFICES \A g \in Garages : \A a \in acceptances'[g] :
                 Behind(a[2], owners'[g][a[1]], head'[g])
    BY DEF AcceptancesBehindOwners, Behind
  <1>1. ASSUME NEW u \in Users, NEW g \in Garages, CreateGarage(u, g)
        PROVE  \A h \in Garages : \A a \in acceptances'[h] :
                 Behind(a[2], owners'[h][a[1]], head'[h])
    <2>1. acceptances[g] = {}
      BY <1>0, <1>1 DEF CreateGarage, Behind
    <2> QED
      BY <1>0, <1>1, <2>1 DEF CreateGarage, TypeOK
  <1>2. ASSUME NEW r \in Requests, AppendGarageRevision(r)
        PROVE  \A h \in Garages : \A a \in acceptances'[h] :
                 Behind(a[2], owners'[h][a[1]], head'[h])
    <2>1. PICK g \in Garages, rev \in Revision :
            head[g] # 0 /\ rev.version \in Versions /\ Appends(g, rev)
      BY <1>2, AppendEffect
    <2>2. /\ head'[g] = rev.version
          /\ owners'[g] = ReconcileOwners(owners[g], rev)
          /\ acceptances' = acceptances
          /\ \A h \in Garages \ {g} :
               head'[h] = head[h] /\ owners'[h] = owners[h]
      BY <2>1 DEF Appends, TypeOK
    <2>3. rev.version \in Nat /\ head[g] \in Nat /\ head[g] < rev.version
      BY <2>1 DEF Appends, AdvancesHead, Versions, TypeOK
    <2>4. ASSUME NEW a \in acceptances[g]
          PROVE  Behind(a[2], owners'[g][a[1]], head'[g])
      <3> DEFINE u == a[1]
                 old == owners[g][u]
                 row == ReconcileOwners(owners[g], rev)[u]
      <3>1. /\ u \in Users /\ a[2] \in Nat /\ Behind(a[2], old, head[g])
            /\ old \in OwnerRow /\ owners[g] \in [Users -> OwnerRow]
        BY <1>0 DEF TypeOK
      <3>2. a[2] < rev.version
        BY <2>3, <3>1 DEF Behind
      <3>3. CASE u \notin rev.listed
        <4>1. row = NoOwner
          BY <3>1, <3>3, ReconcileRow
        <4> QED
          BY <2>2, <2>3, <3>1, <3>2, <4>1 DEF Behind, NoOwner
      <3>4. CASE u \in rev.listed /\ old = NoOwner
        <4>1. row.addedIn = rev.version /\ row.status \in {"pending", "accepted"}
          BY <3>1, <3>4, ReconcileRow
        <4> QED
          BY <2>2, <2>3, <3>1, <3>2, <4>1 DEF Behind
      <3>5. CASE u \in rev.listed /\ old # NoOwner
        <4>1. /\ row.addedIn = old.addedIn
              /\ row.status \in {old.status, "accepted"}
          BY <3>1, <3>5, ReconcileRow
        <4>2. old.status \in {"pending", "accepted"} /\ old.addedIn \in Nat
          BY <3>1, <3>5 DEF RowsWellFormed, OwnerRow
        <4> QED
          BY <2>2, <2>3, <3>1, <3>2, <4>1, <4>2 DEF Behind
      <3> QED
        BY <3>3, <3>4, <3>5
    <2> QED
      BY <1>0, <2>2, <2>4
  <1>3. ASSUME NEW u \in Users, NEW g \in Garages, NEW v \in Versions,
               AcceptGarageOwnership(u, g, v)
        PROVE  \A h \in Garages : \A a \in acceptances'[h] :
                 Behind(a[2], owners'[h][a[1]], head'[h])
    <2>0. /\ owners' = [owners EXCEPT ![g] =
                         [@ EXCEPT ![u] = [status |-> "accepted", addedIn |-> v]]]
          /\ [status |-> "accepted", addedIn |-> v] \in OwnerRow
          /\ owners[g][u].status = "pending"
          /\ owners[g][u].addedIn = v
      BY <1>3, AcceptEffect
    <2>1. /\ owners[g][u].status = "pending" /\ owners[g][u].addedIn = v
          /\ head' = head
          /\ acceptances'[g] = acceptances[g] \cup {<<u, v>>}
          /\ owners'[g][u] = [status |-> "accepted", addedIn |-> v]
          /\ \A w \in Users \ {u} : owners'[g][w] = owners[g][w]
          /\ \A h \in Garages \ {g} :
               acceptances'[h] = acceptances[h] /\ owners'[h] = owners[h]
      BY <1>3, <2>0 DEF AcceptGarageOwnership, TypeOK
    <2>2. v \in Nat /\ head[g] \in Nat /\ v <= head[g]
      BY <2>1 DEF RowsWellFormed, TypeOK, Versions
    <2>3. ASSUME NEW a \in acceptances'[g]
          PROVE  Behind(a[2], owners'[g][a[1]], head'[g])
      BY <1>0, <2>1, <2>2 DEF Behind
    <2> QED
      BY <1>0, <2>1, <2>3
  <1>4. ASSUME NEW r \in Requests, RedeemGarageInvite(r)
        PROVE  \A h \in Garages : \A a \in acceptances'[h] :
                 Behind(a[2], owners'[h][a[1]], head'[h])
    <2>1. PICK i \in Invites, g \in Garages, u \in Users : Redeems(i, g, u)
      BY <1>4, RedeemEffect
    <2>2. /\ head' = head /\ acceptances' = acceptances
          /\ owners'[g][u] = RedeemerRow(g, u)
          /\ \A w \in Users \ {u} : owners'[g][w] = owners[g][w]
          /\ \A h \in Garages \ {g} : owners'[h] = owners[h]
      BY <2>1 DEF Redeems, TypeOK
    <2>3. /\ head[g] \in Nat
          /\ owners[g][u] \in OwnerRow
          /\ owners[g][u].status # "accepted"
      BY <2>1 DEF TypeOK, Redeems, IsAcceptedOwner
    <2>4. ASSUME NEW a \in acceptances[g], a[1] = u
          PROVE  Behind(a[2], RedeemerRow(g, u), head[g])
      BY <1>0, <2>3, <2>4 DEF Behind, RedeemerRow, RowsWellFormed, OwnerRow, NoOwner
    <2> QED
      BY <1>0, <2>2, <2>4
  <1>5. CASE UNCHANGED <<head, revisions, owners, acceptances>>
    BY <1>0, <1>5
  <1> QED
    BY <1>1, <1>2, <1>3, <1>4, <1>5, GarageSteps

-----------------------------------------------------------------------------
(* The theorems.                                                           *)

(* GarageInv is an inductive invariant of the garage handlers.             *)
LEMMA GarageInvInductive ==
  /\ Init => GarageInv
  /\ GarageInv /\ [Next]_vars => GarageInv'
  <1>1. Init => GarageInv
    <2> SUFFICES ASSUME Init PROVE GarageInv
      OBVIOUS
    <2>1. HeadIsNewestRevision /\ HeadSignerIsAcceptedOwner
      BY DEF Init, HeadIsNewestRevision, HeadSignerIsAcceptedOwner
    <2>2. AcceptancesBehindOwners
      BY DEF Init, AcceptancesBehindOwners
    <2> QED
      BY <2>1, <2>2, InitType, InitRows DEF GarageInv
  <1>2. GarageInv /\ [Next]_vars => GarageInv'
    BY NextType, NextRows, NextHead, NextSigner, NextAcceptances DEF GarageInv
  <1> QED
    BY <1>1, <1>2

(* GarageInv holds in every reachable state, for every set of users,       *)
(* garages, invites and requests and every bound on versions and limits.   *)
THEOREM GarageInvHolds == Spec => []GarageInv
  BY GarageInvInductive, PTL DEF Spec

(* Every row a handler writes is well typed (garage.go, garage_invite.go). *)
THEOREM GarageTypeCorrect == Spec => []TypeOK
  <1>1. GarageInv => TypeOK
    BY DEF GarageInv
  <1> QED
    BY <1>1, GarageInvHolds, PTL

(* Whatever owners race to append, the head of a garage is its newest      *)
(* revision (garage.go, AppendGarageRevision).                             *)
THEOREM HeadStaysNewest == Spec => []HeadIsNewestRevision
  <1>1. GarageInv => HeadIsNewestRevision
    BY DEF GarageInv
  <1> QED
    BY <1>1, GarageInvHolds, PTL

(* No race of revisions, acceptances and redemptions leaves a garage whose *)
(* head signer is not an accepted owner (garage.go,                        *)
(* reconcileGarageOwnersTx).                                               *)
THEOREM GarageNeverLocked == Spec => []HeadSignerIsAcceptedOwner
  <1>1. GarageInv => HeadSignerIsAcceptedOwner
    BY DEF GarageInv
  <1> QED
    BY <1>1, GarageInvHolds, PTL

(* An acceptance on file can never be used for a second invitation         *)
(* (garage.go, AcceptGarageOwnership).                                     *)
THEOREM AcceptanceIsSpent == Spec => []AcceptanceSettlesInvitation
  <1>1. GarageInv => AcceptanceSettlesInvitation
    BY DEF GarageInv, AcceptancesBehindOwners, AcceptanceSettlesInvitation,
           TypeOK, OwnerRow, Versions
  <1> QED
    BY <1>1, GarageInvHolds, PTL
-----------------------------------------------------------------------------
(* Invites: the counter and the redemption rows.                           *)

(* What makes the counter inductive: a cardinality says something only of  *)
(* a finite set.                                                           *)
RedemptionsFinite == \A i \in Invites : IsFiniteSet(redemptions[i])

(* Only a redemption writes a redemption row.                              *)
LEMMA RedemptionSteps ==
  ASSUME [Next]_vars
  PROVE  \/ \E r \in Requests : RedeemGarageInvite(r)
         \/ redemptions' = redemptions
  BY DEF Next, vars, CreateGarage, RequireAcceptedGarageOwner, RejectRequest,
         AppendGarageRevision, AcceptGarageOwnership, ReplayGarageOwnership,
         AnswerReplay, IssueGarageInvite, RevokeGarageInvite,
         ExpireGarageInvite, BeginRedeem

(* Every step but a redemption leaves the counter and the limit of an      *)
(* invite alone, and an invite is issued with its counter at zero.         *)
LEMMA CounterSteps ==
  ASSUME TypeOK, [Next]_vars, NEW i \in Invites
  PROVE  \/ \E r \in Requests : RedeemGarageInvite(r)
         \/ invites'[i] = invites[i]
         \/ /\ invites[i] = NoInvite
            /\ invites'[i].count = 0
            /\ invites'[i].limit \in RedemptionLimits
            /\ invites'[i] # NoInvite
         \/ /\ invites[i] # NoInvite
            /\ invites'[i].count = invites[i].count
            /\ invites'[i].limit = invites[i].limit
            /\ invites'[i] # NoInvite
  <1> DEFINE Fresh == /\ invites[i] = NoInvite
                      /\ invites'[i].count = 0
                      /\ invites'[i].limit \in RedemptionLimits
                      /\ invites'[i] # NoInvite
             Kept == /\ invites[i] # NoInvite
                     /\ invites'[i].count = invites[i].count
                     /\ invites'[i].limit = invites[i].limit
                     /\ invites'[i] # NoInvite
  <1> USE GarageAssumptions, NoInviteAssumption
  <1>1. ASSUME NEW r \in Requests, NEW j \in Invites,
               NEW limit \in RedemptionLimits, IssueGarageInvite(r, j, limit)
        PROVE  invites'[i] = invites[i] \/ Fresh
    <2>1. requests[r].garage \in Garages
      BY <1>1, RequestFields DEF IssueGarageInvite, TypeOK, OwnerOps
    <2>2. [garage |-> requests[r].garage, limit |-> limit, count |-> 0,
           revoked |-> FALSE, expired |-> FALSE] \in InviteRow
      BY <2>1 DEF InviteRow
    <2> QED
      BY <1>1, <2>2 DEF IssueGarageInvite, TypeOK
  <1>2. ASSUME NEW r \in Requests, NEW j \in Invites, RevokeGarageInvite(r, j)
        PROVE  invites'[i] = invites[i] \/ Kept
    <2>1. invites[j] \in InviteRow
      BY <1>2 DEF RevokeGarageInvite, TypeOK
    <2>2. [invites[j] EXCEPT !.revoked = TRUE] \in InviteRow
      BY <2>1 DEF InviteRow
    <2> QED
      BY <1>2, <2>1, <2>2 DEF RevokeGarageInvite, TypeOK, InviteRow
  <1>3. ASSUME NEW j \in Invites, ExpireGarageInvite(j)
        PROVE  invites'[i] = invites[i] \/ Kept
    <2>1. invites[j] \in InviteRow
      BY <1>3 DEF ExpireGarageInvite, TypeOK
    <2>2. [invites[j] EXCEPT !.expired = TRUE] \in InviteRow
      BY <2>1 DEF InviteRow
    <2> QED
      BY <1>3, <2>1, <2>2 DEF ExpireGarageInvite, TypeOK, InviteRow
  <1> QED
    BY <1>1, <1>2, <1>3
    DEF Next, vars, CreateGarage, RequireAcceptedGarageOwner, RejectRequest,
        AppendGarageRevision, AcceptGarageOwnership, ReplayGarageOwnership,
        AnswerReplay, BeginRedeem

(* Every step keeps redemption_count equal to the number of redemption     *)
(* rows and within max_redemptions.                                        *)
LEMMA NextRedemptions ==
  ASSUME TypeOK, RowsWellFormed, RedemptionsFinite, RedemptionsAreCounted,
         [Next]_vars
  PROVE  (RedemptionsFinite /\ RedemptionsAreCounted)'
  <1> USE GarageAssumptions
  <1>1. ASSUME NEW r \in Requests, RedeemGarageInvite(r)
        PROVE  (RedemptionsFinite /\ RedemptionsAreCounted)'
    <2>1. PICK j \in Invites, g \in Garages, u \in Users : Redeems(j, g, u)
      BY <1>1, RedeemEffect
    <2>2. /\ redemptions'[j] = redemptions[j] \cup {u}
          /\ u \notin redemptions[j]
          /\ IsFiniteSet(redemptions[j])
          /\ invites[j].count = Cardinality(redemptions[j])
          /\ \A i \in Invites \ {j} : /\ redemptions'[i] = redemptions[i]
                                      /\ invites'[i] = invites[i]
      BY <2>1 DEF Redeems, RedemptionsFinite, RedemptionsAreCounted, TypeOK
    <2>3. /\ IsFiniteSet(redemptions'[j])
          /\ Cardinality(redemptions'[j]) = Cardinality(redemptions[j]) + 1
      <3>1. /\ IsFiniteSet(redemptions[j] \cup {u})
            /\ Cardinality(redemptions[j] \cup {u}) =
                 IF u \in redemptions[j] THEN Cardinality(redemptions[j])
                 ELSE Cardinality(redemptions[j]) + 1
        BY <2>2, FS_AddElement, Zenon
      <3> QED
        BY <2>2, <3>1, Zenon
    <2>4. /\ invites[j] \in InviteRow
          /\ invites[j].count < invites[j].limit
          /\ invites'[j] = [invites[j] EXCEPT !.count = @ + 1]
      BY <2>1 DEF Redeems, TypeOK
    <2>5. /\ invites'[j] \in InviteRow
          /\ invites'[j].count = invites[j].count + 1
          /\ invites'[j].limit = invites[j].limit
          /\ invites'[j].count <= invites'[j].limit
      BY <2>4 DEF InviteRow
    <2>6. invites'[j] # NoInvite
      BY <2>5, NoInviteAssumption
    <2> QED
      BY <2>2, <2>3, <2>5, <2>6 DEF RedemptionsFinite, RedemptionsAreCounted
  <1>2. ASSUME redemptions' = redemptions,
               ~\E r \in Requests : RedeemGarageInvite(r)
        PROVE  (RedemptionsFinite /\ RedemptionsAreCounted)'
    <2>1. RedemptionsFinite'
      BY <1>2 DEF RedemptionsFinite
    <2>2. ASSUME NEW i \in Invites
          PROVE  IF invites'[i] = NoInvite
                 THEN redemptions'[i] = {}
                 ELSE /\ invites'[i].count = Cardinality(redemptions'[i])
                      /\ invites'[i].count <= invites'[i].limit
      <3>1. CASE invites'[i] = invites[i]
        BY <1>2, <3>1 DEF RedemptionsAreCounted
      <3>2. CASE /\ invites[i] = NoInvite
                 /\ invites'[i].count = 0
                 /\ invites'[i].limit \in RedemptionLimits
                 /\ invites'[i] # NoInvite
        <4>1. redemptions'[i] = {}
          BY <1>2, <3>2 DEF RedemptionsAreCounted
        <4>2. Cardinality(redemptions'[i]) = 0
          BY <4>1, FS_EmptySet, Zenon
        <4>3. invites'[i].limit \in Nat
          BY <3>2
        <4> QED
          BY <3>2, <4>1, <4>2, <4>3
      <3>3. CASE /\ invites[i] # NoInvite
                 /\ invites'[i].count = invites[i].count
                 /\ invites'[i].limit = invites[i].limit
                 /\ invites'[i] # NoInvite
        BY <1>2, <3>3 DEF RedemptionsAreCounted
      <3> QED
        BY <1>2, <3>1, <3>2, <3>3, CounterSteps
    <2> QED
      BY <2>1, <2>2 DEF RedemptionsAreCounted
  <1> QED
    BY <1>1, <1>2, RedemptionSteps

(* However redemptions of one invite race, the counter is exact and the    *)
(* limit is kept (garage_invite.go, RedeemGarageInvite: the limit is       *)
(* checked on a row read before the increment).                            *)
THEOREM RedemptionsStayCounted == Spec => []RedemptionsAreCounted
  <1>1. Init => RedemptionsFinite /\ RedemptionsAreCounted
    BY FS_EmptySet DEF Init, RedemptionsFinite, RedemptionsAreCounted
  <1>2. GarageInv /\ RedemptionsFinite /\ RedemptionsAreCounted /\ [Next]_vars
        => (RedemptionsFinite /\ RedemptionsAreCounted)'
    BY NextRedemptions DEF GarageInv
  <1> QED
    BY <1>1, <1>2, GarageInvHolds, PTL DEF Spec
-----------------------------------------------------------------------------
(* Where an owner row comes from.                                          *)

(* What explains the row of user u in garage g (OwnersAreAccountedFor, one *)
(* row at a time).                                                         *)
Accounted(g, u) ==
  LET row == owners[g][u] IN
  /\ row.status = "pending" =>
       \E rev \in revisions[g] :
         rev.version = row.addedIn /\ u \in rev.listed \ rev.accepted
  /\ row.status = "accepted" =>
       \/ <<u, row.addedIn>> \in acceptances[g]
       \/ \E i \in Invites :
            invites[i] # NoInvite /\ invites[i].garage = g /\ u \in redemptions[i]
       \/ \E rev \in revisions[g] :
            rev.version >= row.addedIn /\ u \in rev.accepted

(* No record that explains a row is ever lost: revisions, acceptances and  *)
(* redemptions only grow, and an invite stays with its garage.             *)
LEMMA RecordsStay ==
  ASSUME GarageInv, [Next]_vars, NEW g \in Garages
  PROVE  /\ revisions[g] \subseteq revisions'[g]
         /\ acceptances[g] \subseteq acceptances'[g]
         /\ \A u \in Users :
              (\E i \in Invites : /\ invites[i] # NoInvite /\ invites[i].garage = g
                                  /\ u \in redemptions[i])
              => (\E i \in Invites : /\ invites'[i] # NoInvite
                                     /\ invites'[i].garage = g
                                     /\ u \in redemptions'[i])
  <1> USE DEF GarageInv
  <1>1. ASSUME NEW u \in Users, NEW h \in Garages, CreateGarage(u, h)
        PROVE  revisions[g] \subseteq revisions'[g] /\ acceptances' = acceptances
    BY <1>1 DEF CreateGarage, HeadIsNewestRevision, TypeOK
  <1>2. ASSUME NEW r \in Requests, AppendGarageRevision(r)
        PROVE  revisions[g] \subseteq revisions'[g] /\ acceptances' = acceptances
    <2>1. PICK h \in Garages, rev \in Revision : Appends(h, rev)
      BY <1>2, AppendEffect
    <2> QED
      BY <2>1 DEF Appends, TypeOK
  <1>3. revisions[g] \subseteq revisions'[g] /\ acceptances[g] \subseteq acceptances'[g]
    BY <1>1, <1>2, GarageSteps DEF AcceptGarageOwnership, RedeemGarageInvite, TypeOK
  <1>4. \A i \in Invites : redemptions[i] \subseteq redemptions'[i]
    <2>1. ASSUME NEW r \in Requests, RedeemGarageInvite(r)
          PROVE  \A i \in Invites : redemptions[i] \subseteq redemptions'[i]
      <3>1. PICK j \in Invites, h \in Garages, u \in Users : Redeems(j, h, u)
        BY <2>1, RedeemEffect
      <3> QED
        BY <3>1 DEF Redeems, TypeOK
    <2> QED
      BY <2>1, RedemptionSteps
  <1>5. \A i \in Invites : invites[i] # NoInvite =>
          invites'[i] # NoInvite /\ invites'[i].garage = invites[i].garage
    BY RowsStay
  <1> QED
    BY <1>3, <1>4, <1>5

(* A row that a step leaves as it was stays accounted for.                 *)
LEMMA SameRowAccounted ==
  ASSUME GarageInv, [Next]_vars, NEW g \in Garages, NEW u \in Users,
         Accounted(g, u), owners'[g][u] = owners[g][u]
  PROVE  Accounted(g, u)'
  BY RecordsStay DEF Accounted

(* Every step leaves every owner row accounted for.                        *)
LEMMA NextAccounted ==
  ASSUME GarageInv, [Next]_vars, NEW g \in Garages, NEW u \in Users,
         Accounted(g, u)
  PROVE  Accounted(g, u)'
  <1> USE GarageAssumptions
  <1>0. TypeOK /\ RowsWellFormed
    BY DEF GarageInv
  <1>1. ASSUME NEW w \in Users, NEW h \in Garages, CreateGarage(w, h)
        PROVE  Accounted(g, u)'
    <2>1. CASE owners'[g][u] = owners[g][u]
      BY <2>1, SameRowAccounted
    <2>2. CASE owners'[g][u] # owners[g][u]
      <3>1. /\ owners'[g][u] = [status |-> "accepted", addedIn |-> 1]
            /\ revisions'[g] = {GenesisRevision(u)}
        BY <1>0, <1>1, <2>2 DEF CreateGarage, TypeOK
      <3> QED
        BY <3>1 DEF Accounted, GenesisRevision
    <2> QED
      BY <2>1, <2>2
  <1>2. ASSUME NEW r \in Requests, AppendGarageRevision(r)
        PROVE  Accounted(g, u)'
    <2>1. PICK h \in Garages, rev \in Revision :
            rev.version \in Versions /\ Appends(h, rev)
      BY <1>0, <1>2, AppendEffect
    <2>2. CASE g # h
      BY <1>0, <2>1, <2>2, SameRowAccounted DEF Appends, TypeOK
    <2>3. CASE g = h
      <3> DEFINE old == owners[g][u]
                 row == ReconcileOwners(owners[g], rev)[u]
      <3>1. /\ owners[g] \in [Users -> OwnerRow] /\ old \in OwnerRow
            /\ owners'[g][u] = row
            /\ rev \in revisions'[g]
        BY <1>0, <2>1, <2>3 DEF Appends, TypeOK
      <3>2. /\ rev.version \in Nat /\ head[g] \in Nat /\ head[g] < rev.version
            /\ old # NoOwner => old.addedIn <= head[g]
            /\ old.addedIn \in Nat
        <4>1. old # NoOwner => old.status # "none"
          BY <1>0 DEF RowsWellFormed
        <4>2. old # NoOwner => old.addedIn \in 1..head[g]
          BY <1>0, <4>1 DEF RowsWellFormed
        <4> QED
          BY <1>0, <2>1, <2>3, <3>1, <4>2
          DEF Appends, AdvancesHead, Versions, TypeOK, OwnerRow
      <3>3. CASE u \notin rev.listed
        BY <3>1, <3>3, ReconcileRow DEF Accounted, NoOwner
      <3>4. CASE u \in rev.listed /\ old = NoOwner
        <4>1. /\ row.addedIn = rev.version /\ row.status \in {"pending", "accepted"}
              /\ row.status = "pending" => u \notin rev.accepted
              /\ row.status = "accepted" => u \in rev.accepted
          BY <3>1, <3>4, ReconcileRow DEF NoOwner
        <4> QED
          BY <3>1, <3>2, <3>4, <4>1 DEF Accounted
      <3>5. CASE u \in rev.listed /\ old # NoOwner /\ row.status = old.status
        <4>1. row = old
          <5>1. row.addedIn = old.addedIn /\ row \in OwnerRow
            BY <3>1, <3>5, ReconcileRow, ReconcileType
          <5> QED
            BY <3>1, <3>5, <5>1 DEF OwnerRow
        <4> QED
          BY <3>1, <4>1, SameRowAccounted
      <3>6. CASE /\ u \in rev.listed /\ old # NoOwner
                 /\ row.status = "accepted" /\ u \in rev.accepted
        <4>1. row.addedIn = old.addedIn
          BY <3>1, <3>6, ReconcileRow
        <4> QED
          BY <3>1, <3>2, <3>6, <4>1 DEF Accounted
      <3> QED
        BY <3>1, <3>3, <3>4, <3>5, <3>6, ReconcileRow
    <2> QED
      BY <2>2, <2>3
  <1>3. ASSUME NEW w \in Users, NEW h \in Garages, NEW v \in Versions,
               AcceptGarageOwnership(w, h, v)
        PROVE  Accounted(g, u)'
    <2>1. owners' = [owners EXCEPT ![h] =
                      [@ EXCEPT ![w] = [status |-> "accepted", addedIn |-> v]]]
      BY <1>0, <1>3, AcceptEffect
    <2>2. CASE g = h /\ u = w
      <3>1. /\ owners'[g][u] = [status |-> "accepted", addedIn |-> v]
            /\ <<u, v>> \in acceptances'[g]
        BY <1>0, <1>3, <2>1, <2>2 DEF AcceptGarageOwnership, TypeOK
      <3> QED
        BY <3>1 DEF Accounted
    <2>3. CASE ~(g = h /\ u = w)
      BY <1>0, <2>1, <2>3, SameRowAccounted DEF TypeOK
    <2> QED
      BY <2>2, <2>3
  <1>4. ASSUME NEW r \in Requests, RedeemGarageInvite(r)
        PROVE  Accounted(g, u)'
    <2>1. PICK i \in Invites, h \in Garages, w \in Users : Redeems(i, h, w)
      BY <1>0, <1>4, RedeemEffect
    <2>2. CASE g = h /\ u = w
      <3>1. /\ owners'[g][u] = RedeemerRow(g, u)
            /\ u \in redemptions'[i]
        BY <1>0, <2>1, <2>2 DEF Redeems, TypeOK
      <3>2. invites'[i] # NoInvite /\ invites'[i].garage = g
        BY <1>0, <2>1, <2>2, RowsStay DEF Redeems
      <3> QED
        BY <3>1, <3>2 DEF Accounted, RedeemerRow
    <2>3. CASE ~(g = h /\ u = w)
      BY <1>0, <2>1, <2>3, SameRowAccounted DEF Redeems, TypeOK
    <2> QED
      BY <2>2, <2>3
  <1>5. CASE UNCHANGED <<head, revisions, owners, acceptances>>
    BY <1>5, SameRowAccounted
  <1> QED
    BY <1>1, <1>2, <1>3, <1>4, <1>5, GarageSteps

(* OwnersAreAccountedFor is inductive relative to GarageInv.               *)
LEMMA AccountedInductive ==
  /\ Init => OwnersAreAccountedFor
  /\ GarageInv /\ OwnersAreAccountedFor /\ [Next]_vars => OwnersAreAccountedFor'
  <1>1. OwnersAreAccountedFor <=> \A g \in Garages, u \in Users : Accounted(g, u)
    BY DEF OwnersAreAccountedFor, Accounted
  <1>2. Init => OwnersAreAccountedFor
    BY DEF Init, OwnersAreAccountedFor, NoOwner
  <1>3. OwnersAreAccountedFor' <=> \A g \in Garages, u \in Users : Accounted(g, u)'
    BY DEF OwnersAreAccountedFor, Accounted
  <1> QED
    BY <1>1, <1>2, <1>3, NextAccounted

(* Nobody is an owner without a record that says why (garage.go,           *)
(* reconcileGarageOwnersTx and AcceptGarageOwnership; garage_invite.go,    *)
(* RedeemGarageInvite).                                                    *)
THEOREM OwnersStayAccountedFor == Spec => []OwnersAreAccountedFor
  BY AccountedInductive, GarageInvHolds, PTL DEF Spec

-----------------------------------------------------------------------------
(* What a step may never do.                                               *)

(* No step turns an accepted owner into a pending one or rebinds the row   *)
(* it keeps (garage.go, reconcileGarageOwnersTx).                          *)
THEOREM AcceptedStaysAccepted == Spec => AcceptedNeverReset
  <1>1. ASSUME GarageInv, [Next]_vars, NEW g \in Garages, NEW u \in Users,
               IsAcceptedOwner(g, u), owners'[g][u] # NoOwner
        PROVE  owners'[g][u] = owners[g][u]
    <2>0. TypeOK /\ RowsWellFormed
      BY <1>1 DEF GarageInv
    <2>1. ASSUME NEW w \in Users, NEW h \in Garages, CreateGarage(w, h)
          PROVE  owners'[g][u] = owners[g][u]
      <3>1. g # h
        BY <1>1, <2>0, <2>1 DEF CreateGarage, RowsWellFormed, IsAcceptedOwner
      <3> QED
        BY <2>0, <2>1, <3>1 DEF CreateGarage, TypeOK
    <2>2. ASSUME NEW r \in Requests, AppendGarageRevision(r)
          PROVE  owners'[g][u] = owners[g][u]
      <3>1. PICK h \in Garages, rev \in Revision : Appends(h, rev)
        BY <2>0, <2>2, AppendEffect
      <3>2. CASE g # h
        BY <2>0, <3>1, <3>2 DEF Appends, TypeOK
      <3>3. CASE g = h
        <4>1. /\ owners[g] \in [Users -> OwnerRow]
              /\ owners'[g][u] = ReconcileOwners(owners[g], rev)[u]
          BY <2>0, <3>1, <3>3 DEF Appends, TypeOK
        <4>2. owners[g][u] \in OwnerRow /\ owners[g][u] # NoOwner
          BY <1>1, <4>1 DEF IsAcceptedOwner, NoOwner
        <4>3. u \in rev.listed
          BY <1>1, <4>1, ReconcileRow
        <4>4. /\ owners'[g][u] \in OwnerRow
              /\ owners'[g][u].addedIn = owners[g][u].addedIn
              /\ owners'[g][u].status = owners[g][u].status
          BY <1>1, <4>1, <4>2, <4>3, ReconcileRow, ReconcileType DEF IsAcceptedOwner
        <4> QED
          BY <4>2, <4>4 DEF OwnerRow
      <3> QED
        BY <3>2, <3>3
    <2>3. ASSUME NEW w \in Users, NEW h \in Garages, NEW v \in Versions,
                 AcceptGarageOwnership(w, h, v)
          PROVE  owners'[g][u] = owners[g][u]
      <3>1. /\ owners' = [owners EXCEPT ![h] =
                           [@ EXCEPT ![w] = [status |-> "accepted", addedIn |-> v]]]
            /\ owners[h][w].status = "pending"
        BY <2>0, <2>3, AcceptEffect
      <3> QED
        BY <1>1, <2>0, <3>1 DEF TypeOK, IsAcceptedOwner
    <2>4. ASSUME NEW r \in Requests, RedeemGarageInvite(r)
          PROVE  owners'[g][u] = owners[g][u]
      <3>1. PICK i \in Invites, h \in Garages, w \in Users : Redeems(i, h, w)
        BY <2>0, <2>4, RedeemEffect
      <3>2. ~(g = h /\ u = w)
        BY <1>1, <3>1 DEF Redeems
      <3> QED
        BY <2>0, <3>1, <3>2 DEF Redeems, TypeOK
    <2> QED
      BY <1>1, <2>1, <2>2, <2>3, <2>4, GarageSteps
  <1>2. GarageInv /\ [Next]_vars =>
          [\A g \in Garages, u \in Users :
             /\ IsAcceptedOwner(g, u)
             /\ owners'[g][u] # NoOwner
             => owners'[g][u] = owners[g][u]]_vars
    BY <1>1
  <1> QED
    BY <1>2, GarageInvHolds, PTL DEF Spec, AcceptedNeverReset

(* Whoever was not an owner becomes one only by a newer revision or by a   *)
(* redemption recorded in that very step, of an invite that is not revoked *)
(* (garage_invite.go, RedeemGarageInvite; garage.go,                       *)
(* AppendGarageRevision).                                                  *)
THEOREM EntryIsFresh == Spec => EntryNeedsFreshGrant
  <1>1. ASSUME GarageInv, [Next]_vars, NEW g \in Garages, NEW u \in Users,
               owners[g][u] = NoOwner, owners'[g][u] # NoOwner
        PROVE  \/ head'[g] > head[g]
               \/ \E i \in Invites :
                    /\ invites[i] # NoInvite
                    /\ invites[i].garage = g
                    /\ ~invites[i].revoked
                    /\ u \in redemptions'[i] \ redemptions[i]
    <2>0. TypeOK /\ RowsWellFormed
      BY <1>1 DEF GarageInv
    <2>1. ASSUME NEW w \in Users, NEW h \in Garages, CreateGarage(w, h)
          PROVE  head'[g] > head[g]
      BY <1>1, <2>0, <2>1 DEF CreateGarage, TypeOK
    <2>2. ASSUME NEW r \in Requests, AppendGarageRevision(r)
          PROVE  head'[g] > head[g]
      <3>1. PICK h \in Garages, rev \in Revision : Appends(h, rev)
        BY <2>0, <2>2, AppendEffect
      <3> QED
        BY <1>1, <2>0, <3>1 DEF Appends, AdvancesHead, TypeOK
    <2>3. ASSUME NEW w \in Users, NEW h \in Garages, NEW v \in Versions,
                 AcceptGarageOwnership(w, h, v)
          PROVE  FALSE
      <3>1. /\ owners' = [owners EXCEPT ![h] =
                           [@ EXCEPT ![w] = [status |-> "accepted", addedIn |-> v]]]
            /\ owners[h][w].status = "pending"
        BY <2>0, <2>3, AcceptEffect
      <3> QED
        BY <1>1, <2>0, <3>1 DEF TypeOK, NoOwner
    <2>4. ASSUME NEW r \in Requests, RedeemGarageInvite(r)
          PROVE  \E i \in Invites :
                   /\ invites[i] # NoInvite
                   /\ invites[i].garage = g
                   /\ ~invites[i].revoked
                   /\ u \in redemptions'[i] \ redemptions[i]
      <3>1. PICK i \in Invites, h \in Garages, w \in Users : Redeems(i, h, w)
        BY <2>0, <2>4, RedeemEffect
      <3>2. g = h /\ u = w
        BY <1>1, <2>0, <3>1 DEF Redeems, TypeOK
      <3> QED
        BY <2>0, <3>1, <3>2 DEF Redeems, TypeOK
    <2> QED
      BY <1>1, <2>1, <2>2, <2>3, <2>4, GarageSteps
  <1>2. GarageInv /\ [Next]_vars =>
          [\A g \in Garages, u \in Users :
             /\ owners[g][u] = NoOwner
             /\ owners'[g][u] # NoOwner
             => \/ head'[g] > head[g]
                \/ \E i \in Invites :
                     /\ invites[i] # NoInvite
                     /\ invites[i].garage = g
                     /\ ~invites[i].revoked
                     /\ u \in redemptions'[i] \ redemptions[i]]_vars
    BY <1>1
  <1> QED
    BY <1>2, GarageInvHolds, PTL DEF Spec, EntryNeedsFreshGrant

-----------------------------------------------------------------------------
(* Refinement.                                                             *)

(* Garages implement the abstract chain of revisions: a creation is        *)
(* Chain!Create, an append is Chain!Append, every other handler stutters.  *)
THEOREM GarageRefinesChain == Spec => RevisionsFormChain
  <1> DEFINE rec == [g \in Garages |-> {rev.version : rev \in revisions[g]}]
  <1>1. Init => Chain!Init
    BY DEF Init, Chain!Init
  <1>2. GarageInv /\ [Next]_vars => [Chain!Next]_Chain!chainVars
    <2> SUFFICES ASSUME GarageInv, [Next]_vars
                 PROVE  [Chain!Next]_Chain!chainVars
      OBVIOUS
    <2> USE GarageAssumptions
    <2>0. TypeOK /\ RowsWellFormed
      BY DEF GarageInv
    <2>1. ASSUME NEW u \in Users, NEW g \in Garages, CreateGarage(u, g)
          PROVE  Chain!Create(g)
      <3>1. rec' = [rec EXCEPT ![g] = {1}]
        <4>1. /\ revisions'[g] = {GenesisRevision(u)}
              /\ \A h \in Garages \ {g} : revisions'[h] = revisions[h]
          BY <2>0, <2>1 DEF CreateGarage, TypeOK
        <4>2. {rev.version : rev \in revisions'[g]} = {1}
          BY <4>1 DEF GenesisRevision
        <4> QED
          BY <4>1, <4>2
      <3> QED
        BY <2>1, <3>1 DEF Chain!Create, CreateGarage
    <2>2. ASSUME NEW r \in Requests, AppendGarageRevision(r)
          PROVE  \E g \in Garages, v \in Versions : Chain!Append(g, v)
      <3>1. PICK g \in Garages, rev \in Revision :
              head[g] # 0 /\ rev.version \in Versions /\ Appends(g, rev)
        BY <2>0, <2>2, AppendEffect
      <3>2. rec' = [rec EXCEPT ![g] = @ \cup {rev.version}]
        <4>1. /\ revisions'[g] = revisions[g] \cup {rev}
              /\ \A h \in Garages \ {g} : revisions'[h] = revisions[h]
          BY <2>0, <3>1 DEF Appends, TypeOK
        <4>2. {x.version : x \in revisions'[g]}
                = {x.version : x \in revisions[g]} \cup {rev.version}
          BY <4>1
        <4> QED
          BY <4>1, <4>2
      <3>3. Chain!Append(g, rev.version)
        BY <3>1, <3>2 DEF Chain!Append, Appends, AdvancesHead
      <3> QED
        BY <3>1, <3>3
    <2>3. CASE UNCHANGED <<head, revisions>>
      BY <2>3 DEF Chain!chainVars
    <2>4. \/ Chain!Next
          \/ UNCHANGED <<head, revisions>>
      BY <2>1, <2>2, GarageSteps
      DEF Chain!Next, Chain!Versions, Versions, AcceptGarageOwnership,
          RedeemGarageInvite
    <2> QED
      BY <2>3, <2>4
  <1> QED
    BY <1>1, <1>2, GarageInvHolds, PTL DEF Spec, RevisionsFormChain, Chain!Spec
=============================================================================
