-------------------------- MODULE EnrollmentProofs --------------------------
(***************************************************************************)
(* Proofs about Enrollment, for every set of requests and tokens, every    *)
(* cap, every policy and every bound on the clock and on restarts.         *)
(***************************************************************************)
EXTENDS Enrollment, FiniteSetTheorems, TLAPS

-----------------------------------------------------------------------------
(* Types.                                                                  *)

(* What a request carries at the stages where it is read.                  *)
LEMMA RequestFields ==
  ASSUME EnrollmentTypeOK
  PROVE  /\ \A e \in Enrollments :
              /\ Pending(e) => enrollments[e].token \in Tokens
              /\ enrollments[e].stage = "registering" => enrollments[e].at \in Nat
         /\ \A m \in Mints :
              /\ PendingMint(m) => mints[m].user \in Enrollments
              /\ mints[m].stage = "issuing" => mints[m].at \in Nat
  BY DEF EnrollmentTypeOK, Enrolling, Minting, New, Pending, PendingMint

(* A row made by issueInvite is well typed.                                *)
LEMMA NewInviteType ==
  ASSUME NEW scope \in Scopes, NEW creator \in Enrollments \cup {NoUser},
         NEW expires \in Nat
  PROVE  /\ NewInvite(scope, creator, expires) \in InviteRow
         /\ NewInvite(scope, creator, expires).usedBy = NoUser
         /\ NewInvite(scope, creator, expires).creator = creator
         /\ NewInvite(scope, creator, expires).scope = scope
         /\ NewInvite(scope, creator, expires).expires = expires
  BY DEF NewInvite, InviteRow

(* A consumed row keeps everything but used_by_client_app_id.              *)
LEMMA ConsumedRowType ==
  ASSUME NEW row \in InviteRow, NEW e \in Enrollments
  PROVE  LET new == [row EXCEPT !.usedBy = e] IN
         /\ new \in InviteRow
         /\ new.usedBy = e
         /\ new.scope = row.scope
         /\ new.expires = row.expires
         /\ new.creator = row.creator
  BY DEF InviteRow

-----------------------------------------------------------------------------
(* The steps that write a row of client_app_invites.                       *)

(* A token is given its row.                                               *)
Inserts(i, row) ==
  /\ row.usedBy = NoUser
  /\ row # NoInvite
  /\ invites[i] = NoInvite
  /\ invites' = [invites EXCEPT ![i] = row]
  /\ UNCHANGED <<clock, policy, accounts, enrollments>>

(* The command line mints.                                                 *)
CliMints(i, row) ==
  /\ i \in CliInvites
  /\ row.creator = NoUser
  /\ Inserts(i, row)
  /\ UNCHANGED <<boot, mints>>

(* A starting server mints.                                                *)
BootMints(i, row) ==
  /\ i \in BootInvites
  /\ boot.stage = "issue"
  /\ boot'.stage = "banner"
  /\ row.creator = NoUser
  /\ Inserts(i, row)
  /\ UNCHANGED mints

(* A user mints.                                                           *)
UserMints(m, i, row) ==
  /\ i \in UserInvites
  /\ mints[m].stage = "issuing"
  /\ BelowCap(mints[m].user, mints[m].at)
  /\ row.creator = mints[m].user
  /\ Inserts(i, row)
  /\ mints' = [mints EXCEPT ![m] = [stage |-> "issued"]]
  /\ UNCHANGED boot

(* An enrollment consumes its invite and makes its account.                *)
Registers(e, row) ==
  LET i == enrollments[e].token IN
  /\ enrollments[e].stage = "registering"
  /\ Active(i, enrollments[e].at)
  /\ row # NoInvite
  /\ row.usedBy = e
  /\ row.scope = invites[i].scope
  /\ row.expires = invites[i].expires
  /\ row.creator = invites[i].creator
  /\ invites' = [invites EXCEPT ![i] = row]
  /\ accounts' = accounts \cup {AccountRow(e, enrollments[e].at)}
  /\ enrollments' = [enrollments EXCEPT ![e] = [stage |-> "enrolled"]]
  /\ UNCHANGED <<clock, policy, boot, mints>>

(* Every step that writes an invite or an account is one of the four.      *)
LEMMA InviteSteps ==
  ASSUME EnrollmentTypeOK, [Next]_vars
  PROVE  \/ \E i \in Tokens, row \in InviteRow : CliMints(i, row)
         \/ \E i \in Tokens, row \in InviteRow : BootMints(i, row)
         \/ \E m \in Mints, i \in Tokens, row \in InviteRow : UserMints(m, i, row)
         \/ \E e \in Enrollments, row \in InviteRow : Registers(e, row)
         \/ UNCHANGED <<invites, accounts>>
  <1>0. clock \in Nat
    BY EnrollmentAssumptions DEF EnrollmentTypeOK
  <1>1. ASSUME NEW i \in CliInvites, NEW scope \in Scopes, NEW life \in Lifetimes,
               RunInviteCreate(i, scope, life)
        PROVE  \E row \in InviteRow : CliMints(i, row)
    <2>1. clock + life \in Nat
      BY <1>0, EnrollmentAssumptions
    <2>2. PICK row \in InviteRow :
            /\ row = NewInvite(scope, NoUser, clock + life)
            /\ row.usedBy = NoUser /\ row.creator = NoUser
      BY <2>1, NewInviteType
    <2> QED
      BY <1>1, <2>2, NoInviteAssumption DEF RunInviteCreate, CliMints, Inserts
  <1>2. ASSUME NEW i \in BootInvites, IssueBootstrapInvite(i)
        PROVE  \E row \in InviteRow : BootMints(i, row)
    <2>1. clock + BootLifetime \in Nat /\ "server_registration" \in Scopes
      BY <1>0, EnrollmentAssumptions DEF Scopes
    <2>2. PICK row \in InviteRow :
            /\ row = NewInvite("server_registration", NoUser, clock + BootLifetime)
            /\ row.usedBy = NoUser /\ row.creator = NoUser
      BY <2>1, NewInviteType
    <2> QED
      BY <1>2, <2>2, NoInviteAssumption DEF IssueBootstrapInvite, BootMints, Inserts
  <1>3. ASSUME NEW m \in Mints, NEW i \in UserInvites, NEW life \in Lifetimes,
               IssueInviteBy(m, i, life), invites' # invites
        PROVE  \E row \in InviteRow : UserMints(m, i, row)
    <2>0. mints[m].user \in Enrollments /\ mints[m].at \in Nat
      BY <1>3, RequestFields DEF IssueInviteBy, PendingMint
    <2>1. mints[m].at + life \in Nat /\ "server_registration" \in Scopes
      BY <2>0, EnrollmentAssumptions DEF Scopes
    <2>2. PICK row \in InviteRow :
            /\ row = NewInvite("server_registration", mints[m].user, mints[m].at + life)
            /\ row.usedBy = NoUser /\ row.creator = mints[m].user
      BY <2>0, <2>1, NewInviteType
    <2> QED
      BY <1>3, <2>2, NoInviteAssumption DEF IssueInviteBy, UserMints, Inserts
  <1>4. ASSUME NEW e \in Enrollments, RegisterClientApp(e),
               invites' # invites \/ accounts' # accounts
        PROVE  \E row \in InviteRow : Registers(e, row)
    <2> DEFINE i == enrollments[e].token
    <2>1. /\ enrollments[e].stage = "registering"
          /\ Active(i, enrollments[e].at)
          /\ invites' = [invites EXCEPT ![i].usedBy = e]
          /\ accounts' = accounts \cup {AccountRow(e, enrollments[e].at)}
          /\ enrollments' = [enrollments EXCEPT ![e] = [stage |-> "enrolled"]]
          /\ UNCHANGED <<clock, policy, boot, mints>>
      BY <1>4 DEF RegisterClientApp, Consumable
    <2>2. i \in Tokens
      BY <2>1, RequestFields DEF Pending
    <2>3. invites[i] \in InviteRow
      BY <2>1, <2>2 DEF Active, EnrollmentTypeOK
    <2> HIDE DEF i
    <2>4. PICK row \in InviteRow :
            /\ row = [invites[i] EXCEPT !.usedBy = e]
            /\ row.usedBy = e
            /\ row.scope = invites[i].scope
            /\ row.expires = invites[i].expires
            /\ row.creator = invites[i].creator
      BY <2>3, ConsumedRowType
    <2>5. invites' = [invites EXCEPT ![i] = row]
      BY <2>1, <2>4
    <2> QED
      BY <2>1, <2>4, <2>5, NoInviteAssumption DEF Registers, i
  <1> QED
    <2> USE DEF Tokens
    <2>1. CASE Tick \/ Start \/ Crash
      BY <2>1 DEF Tick, Start, Crash
    <2>2. CASE BootNext
      BY <2>2, <1>2 DEF BootNext, ReadAccountCount, ReadUnconsumedInviteCount, PrintBanner
    <2>3. CASE \E i \in CliInvites, scope \in Scopes, life \in Lifetimes :
                 RunInviteCreate(i, scope, life)
      BY <2>3, <1>1
    <2>4. CASE \E e \in Enrollments :
                 \/ \E i \in Tokens : LookupInvite(e, i)
                 \/ ReadEnrollmentClock(e)
                 \/ RegisterClientApp(e)
      BY <2>4, <1>4 DEF LookupInvite, ReadEnrollmentClock
    <2>5. CASE \E m \in Mints :
                 \/ \E u \in Enrollments : AuthorizeMint(m, u)
                 \/ ReadMintClock(m)
                 \/ \E i \in UserInvites, life \in Lifetimes : IssueInviteBy(m, i, life)
      BY <2>5, <1>3 DEF AuthorizeMint, ReadMintClock, IssueInviteBy
    <2>6. CASE UNCHANGED vars
      BY <2>6 DEF vars
    <2> QED
      BY <2>1, <2>2, <2>3, <2>4, <2>5, <2>6 DEF Next

(* A step takes every enrollment request on as follows; all but Crash      *)
(* touch at most one.                                                      *)
LEMMA EnrollmentSteps ==
  ASSUME EnrollmentTypeOK, [Next]_vars, NEW e \in Enrollments
  PROVE  \/ enrollments'[e] = enrollments[e]
         \/ \E i \in Tokens :
              /\ LookupInvite(e, i)
              /\ i \in ActiveRegistrations(clock)
              /\ enrollments'[e] = [stage |-> "found", token |-> i]
         \/ /\ ReadEnrollmentClock(e)
            /\ enrollments'[e] = [stage |-> "registering",
                                  token |-> enrollments[e].token, at |-> clock]
         \/ /\ enrollments'[e] = [stage |-> "enrolled"]
            /\ accounts' = accounts \cup {AccountRow(e, enrollments[e].at)}
            /\ enrollments[e].stage = "registering"
            /\ Active(enrollments[e].token, enrollments[e].at)
         \/ /\ enrollments[e].stage \in {"new", "found", "registering"}
            /\ \E why \in {"already_used", "expired", "scope_mismatch", "lost"} :
                 enrollments'[e] = [stage |-> why]
  <1>0. \A i, at : Refusal(i, at) \in {"already_used", "expired", "scope_mismatch"}
    BY DEF Refusal
  <1>1. CASE Crash
    BY <1>1 DEF Crash, Lost, Finished, EnrollmentTypeOK, Enrolling, New
  <1>2. ASSUME NEW d \in Enrollments, NEW i \in Tokens, LookupInvite(d, i)
        PROVE  \/ enrollments'[e] = enrollments[e]
               \/ /\ LookupInvite(e, i)
                  /\ i \in ActiveRegistrations(clock)
                  /\ enrollments'[e] = [stage |-> "found", token |-> i]
               \/ /\ enrollments[e].stage \in {"new", "found", "registering"}
                  /\ \E why \in {"already_used", "expired", "scope_mismatch", "lost"} :
                       enrollments'[e] = [stage |-> why]
    <2>1. CASE d # e
      BY <1>2, <2>1 DEF LookupInvite, EnrollmentTypeOK
    <2>2. CASE d = e /\ i \in ActiveRegistrations(clock)
      BY <1>2, <2>2 DEF LookupInvite, EnrollmentTypeOK
    <2>3. CASE d = e /\ i \notin ActiveRegistrations(clock)
      BY <1>0, <1>2, <2>3 DEF LookupInvite, EnrollmentTypeOK, New
    <2> QED
      BY <2>1, <2>2, <2>3
  <1>3. ASSUME NEW d \in Enrollments, ReadEnrollmentClock(d)
        PROVE  \/ enrollments'[e] = enrollments[e]
               \/ /\ ReadEnrollmentClock(e)
                  /\ enrollments'[e] = [stage |-> "registering",
                                        token |-> enrollments[e].token, at |-> clock]
    BY <1>3 DEF ReadEnrollmentClock, EnrollmentTypeOK
  <1>4. ASSUME NEW d \in Enrollments, RegisterClientApp(d)
        PROVE  \/ enrollments'[e] = enrollments[e]
               \/ /\ enrollments'[e] = [stage |-> "enrolled"]
                  /\ accounts' = accounts \cup {AccountRow(e, enrollments[e].at)}
                  /\ enrollments[e].stage = "registering"
                  /\ Active(enrollments[e].token, enrollments[e].at)
               \/ /\ enrollments[e].stage \in {"new", "found", "registering"}
                  /\ \E why \in {"already_used", "expired", "scope_mismatch", "lost"} :
                       enrollments'[e] = [stage |-> why]
    <2>1. CASE d # e
      BY <1>4, <2>1 DEF RegisterClientApp, EnrollmentTypeOK
    <2>2. CASE d = e
      BY <1>0, <1>4, <2>2 DEF RegisterClientApp, Consumable, EnrollmentTypeOK
    <2> QED
      BY <2>1, <2>2
  <1> QED
    BY <1>1, <1>2, <1>3, <1>4
    DEF Next, vars, Tick, Start, BootNext, ReadAccountCount, ReadUnconsumedInviteCount,
        IssueBootstrapInvite, PrintBanner, RunInviteCreate, AuthorizeMint,
        ReadMintClock, IssueInviteBy

(* The same, by the fields of the request.                                 *)
LEMMA EnrollmentStages ==
  ASSUME EnrollmentTypeOK, [Next]_vars, NEW e \in Enrollments
  PROVE  \/ enrollments'[e] = enrollments[e]
         \/ /\ enrollments'[e].stage = "found"
            /\ boot' = boot /\ boot.stage = "serving" /\ enrollments[e].stage = "new"
            /\ enrollments'[e].token \in ActiveRegistrations(clock)
         \/ /\ enrollments'[e].stage = "registering"
            /\ boot' = boot /\ enrollments[e].stage = "found"
            /\ enrollments'[e].token = enrollments[e].token
            /\ enrollments'[e].at = clock /\ clock' = clock + 1
         \/ /\ enrollments'[e].stage = "enrolled"
            /\ accounts' = accounts \cup {AccountRow(e, enrollments[e].at)}
            /\ enrollments[e].stage = "registering"
            /\ Active(enrollments[e].token, enrollments[e].at)
         \/ /\ enrollments[e].stage \in {"new", "found", "registering"}
            /\ enrollments'[e].stage
                 \in {"already_used", "expired", "scope_mismatch", "lost"}
  <1>1. ASSUME NEW i \in Tokens, LookupInvite(e, i), i \in ActiveRegistrations(clock),
               enrollments'[e] = [stage |-> "found", token |-> i]
        PROVE  /\ enrollments'[e].stage = "found"
               /\ boot' = boot /\ boot.stage = "serving" /\ enrollments[e].stage = "new"
               /\ enrollments'[e].token \in ActiveRegistrations(clock)
    BY <1>1 DEF LookupInvite, New
  <1>2. ASSUME ReadEnrollmentClock(e),
               enrollments'[e] = [stage |-> "registering",
                                  token |-> enrollments[e].token, at |-> clock]
        PROVE  /\ enrollments'[e].stage = "registering"
               /\ boot' = boot /\ enrollments[e].stage = "found"
               /\ enrollments'[e].token = enrollments[e].token
               /\ enrollments'[e].at = clock /\ clock' = clock + 1
    BY <1>2 DEF ReadEnrollmentClock
  <1>3. ASSUME NEW why, enrollments'[e] = [stage |-> why]
        PROVE  enrollments'[e].stage = why
    BY <1>3
  <1> QED
    BY <1>1, <1>2, <1>3, EnrollmentSteps

(* A step takes every request for an invite on as follows.                 *)
LEMMA MintSteps ==
  ASSUME EnrollmentTypeOK, [Next]_vars, NEW m \in Mints
  PROVE  \/ mints'[m] = mints[m]
         \/ \E u \in Enrollments :
              /\ AuthorizeMint(m, u)
              /\ MayMint(u)
              /\ mints'[m] = [stage |-> "authorized", user |-> u]
         \/ /\ ReadMintClock(m)
            /\ mints'[m] = [stage |-> "issuing", user |-> mints[m].user, at |-> clock]
         \/ \E why \in {"issued", "limit_reached", "forbidden", "lost"} :
              mints'[m] = [stage |-> why]
  <1>1. CASE Crash
    BY <1>1 DEF Crash, Lost, EnrollmentTypeOK
  <1>2. ASSUME NEW d \in Mints, NEW u \in Enrollments, AuthorizeMint(d, u)
        PROVE  \/ mints'[m] = mints[m]
               \/ /\ AuthorizeMint(m, u)
                  /\ MayMint(u)
                  /\ mints'[m] = [stage |-> "authorized", user |-> u]
               \/ mints'[m] = [stage |-> "forbidden"]
    <2>1. CASE d # m
      BY <1>2, <2>1 DEF AuthorizeMint, EnrollmentTypeOK
    <2>2. CASE d = m /\ MayMint(u)
      BY <1>2, <2>2 DEF AuthorizeMint, EnrollmentTypeOK
    <2>3. CASE d = m /\ ~MayMint(u)
      BY <1>2, <2>3 DEF AuthorizeMint, EnrollmentTypeOK
    <2> QED
      BY <2>1, <2>2, <2>3
  <1>3. ASSUME NEW d \in Mints, ReadMintClock(d)
        PROVE  \/ mints'[m] = mints[m]
               \/ /\ ReadMintClock(m)
                  /\ mints'[m] = [stage |-> "issuing", user |-> mints[m].user, at |-> clock]
    BY <1>3 DEF ReadMintClock, EnrollmentTypeOK
  <1>4. ASSUME NEW d \in Mints, NEW i \in UserInvites, NEW life \in Lifetimes,
               IssueInviteBy(d, i, life)
        PROVE  \/ mints'[m] = mints[m]
               \/ \E why \in {"issued", "limit_reached"} : mints'[m] = [stage |-> why]
    BY <1>4 DEF IssueInviteBy, EnrollmentTypeOK
  <1> QED
    BY <1>1, <1>2, <1>3, <1>4
    DEF Next, vars, Tick, Start, BootNext, ReadAccountCount, ReadUnconsumedInviteCount,
        IssueBootstrapInvite, PrintBanner, RunInviteCreate, LookupInvite,
        ReadEnrollmentClock, RegisterClientApp

(* The same, by the fields of the request.                                 *)
LEMMA MintStages ==
  ASSUME EnrollmentTypeOK, [Next]_vars, NEW m \in Mints
  PROVE  \/ mints'[m] = mints[m]
         \/ /\ mints'[m].stage = "authorized"
            /\ boot' = boot /\ boot.stage = "serving"
            /\ UNCHANGED <<accounts, invites>>
            /\ \E a \in accounts : a.user = mints'[m].user
            /\ MayMint(mints'[m].user)
         \/ /\ mints'[m].stage = "issuing"
            /\ boot' = boot /\ mints[m].stage = "authorized"
            /\ mints'[m].user = mints[m].user /\ mints'[m].at = clock
         \/ mints'[m].stage \in {"issued", "limit_reached", "forbidden", "lost"}
  <1>1. ASSUME NEW u \in Enrollments, AuthorizeMint(m, u), MayMint(u),
               mints'[m] = [stage |-> "authorized", user |-> u]
        PROVE  /\ mints'[m].stage = "authorized"
               /\ boot' = boot /\ boot.stage = "serving"
               /\ UNCHANGED <<accounts, invites>>
               /\ \E a \in accounts : a.user = mints'[m].user
               /\ MayMint(mints'[m].user)
    <2>1. mints'[m].stage = "authorized" /\ mints'[m].user = u
      BY <1>1
    <2> QED
      BY <1>1, <2>1 DEF AuthorizeMint
  <1>2. ASSUME ReadMintClock(m),
               mints'[m] = [stage |-> "issuing", user |-> mints[m].user, at |-> clock]
        PROVE  /\ mints'[m].stage = "issuing"
               /\ boot' = boot /\ mints[m].stage = "authorized"
               /\ mints'[m].user = mints[m].user /\ mints'[m].at = clock
    BY <1>2 DEF ReadMintClock
  <1>3. ASSUME NEW why, mints'[m] = [stage |-> why]
        PROVE  mints'[m].stage = why
    BY <1>3
  <1> QED
    BY <1>1, <1>2, <1>3, MintSteps

(* The clock only goes forward, and the policy of a deployment is fixed.   *)
LEMMA ClockSteps ==
  ASSUME EnrollmentTypeOK, [Next]_vars
  PROVE  /\ clock \in Nat /\ clock' \in 0..MaxTime /\ clock' \in Nat
         /\ clock <= clock'
         /\ policy' = policy
  <1>1. /\ clock' = clock \/ (clock < MaxTime /\ clock' = clock + 1)
        /\ policy' = policy
    <2>1. CASE Tick \/ Start \/ Crash
      BY <2>1 DEF Tick, Start, Crash
    <2>2. CASE BootNext
      BY <2>2 DEF BootNext, ReadAccountCount, ReadUnconsumedInviteCount,
                  IssueBootstrapInvite, PrintBanner
    <2>3. CASE \E i \in CliInvites, scope \in Scopes, life \in Lifetimes :
                 RunInviteCreate(i, scope, life)
      BY <2>3 DEF RunInviteCreate
    <2>4. CASE \E e \in Enrollments :
                 \/ \E i \in Tokens : LookupInvite(e, i)
                 \/ ReadEnrollmentClock(e)
                 \/ RegisterClientApp(e)
      BY <2>4 DEF LookupInvite, ReadEnrollmentClock, RegisterClientApp
    <2>5. CASE \E m \in Mints :
                 \/ \E u \in Enrollments : AuthorizeMint(m, u)
                 \/ ReadMintClock(m)
                 \/ \E i \in UserInvites, life \in Lifetimes : IssueInviteBy(m, i, life)
      BY <2>5 DEF AuthorizeMint, ReadMintClock, IssueInviteBy
    <2>6. CASE UNCHANGED vars
      BY <2>6 DEF vars
    <2> QED
      BY <2>1, <2>2, <2>3, <2>4, <2>5, <2>6 DEF Next
  <1>2. clock \in 0..MaxTime
    BY DEF EnrollmentTypeOK
  <1> QED
    BY <1>1, <1>2, EnrollmentAssumptions

(* Every step keeps the types.                                             *)
LEMMA NextEnrollmentType ==
  ASSUME EnrollmentTypeOK, [Next]_vars
  PROVE  EnrollmentTypeOK'
  <1>1. clock' \in 0..MaxTime /\ policy' \in Policies
    BY ClockSteps DEF EnrollmentTypeOK
  <1>2. /\ boot' \in Booting
        /\ starts' \in 0..MaxStarts
        /\ known' \subseteq Tokens
    <2> DEFINE Typed == /\ boot' \in Booting
                        /\ starts' \in 0..MaxStarts
                        /\ known' \subseteq Tokens
    <2>0. ASSUME UNCHANGED <<boot, starts, known>>
          PROVE  Typed
      BY <2>0 DEF EnrollmentTypeOK
    <2>1. ASSUME Start
          PROVE  Typed
      BY <2>1, EnrollmentAssumptions DEF Start, BootStep, Booting, EnrollmentTypeOK
    <2>2. ASSUME Crash
          PROVE  Typed
      BY <2>2 DEF Crash, Booting, EnrollmentTypeOK
    <2>3. ASSUME BootNext
          PROVE  Typed
      <3>1. CASE ReadAccountCount
        BY <3>1 DEF ReadAccountCount, BootStep, Booting, EnrollmentTypeOK
      <3>2. CASE ReadUnconsumedInviteCount
        BY <3>2 DEF ReadUnconsumedInviteCount, BootStep, Booting, EnrollmentTypeOK
      <3>3. ASSUME NEW i \in BootInvites, IssueBootstrapInvite(i)
            PROVE  Typed
        BY <3>3 DEF IssueBootstrapInvite, Booting, EnrollmentTypeOK
      <3>4. CASE PrintBanner
        <4>1. boot.token \in Tokens
          BY <3>4 DEF PrintBanner, BootStep, EnrollmentTypeOK, Booting, Tokens
        <4> QED
          BY <3>4, <4>1 DEF PrintBanner, BootStep, Booting, EnrollmentTypeOK
      <3> QED
        BY <2>3, <3>1, <3>2, <3>3, <3>4 DEF BootNext
    <2>4. ASSUME NEW i \in Tokens, known' = known \cup {i}, UNCHANGED <<boot, starts>>
          PROVE  Typed
      BY <2>4 DEF EnrollmentTypeOK
    <2> HIDE DEF Typed
    <2>5. Typed
      BY <2>0, <2>1, <2>2, <2>3, <2>4
      DEF Next, vars, Tick, RunInviteCreate, LookupInvite, ReadEnrollmentClock,
          RegisterClientApp, AuthorizeMint, ReadMintClock, IssueInviteBy, Tokens
    <2> QED
      BY <2>5 DEF Typed
  <1>3. invites' \in [Tokens -> InviteRow \cup {NoInvite}] /\ accounts' \subseteq Account
    <2>1. ASSUME NEW i \in Tokens, NEW row \in InviteRow, Inserts(i, row)
          PROVE  invites' \in [Tokens -> InviteRow \cup {NoInvite}] /\ accounts' \subseteq Account
      BY <2>1 DEF Inserts, EnrollmentTypeOK
    <2>2. ASSUME NEW e \in Enrollments, NEW row \in InviteRow, Registers(e, row)
          PROVE  invites' \in [Tokens -> InviteRow \cup {NoInvite}] /\ accounts' \subseteq Account
      <3>1. AccountRow(e, enrollments[e].at) \in Account
        BY <2>2, RequestFields DEF Registers, AccountRow, Account
      <3> QED
        BY <2>2, <3>1 DEF Registers, EnrollmentTypeOK
    <2>3. CASE UNCHANGED <<invites, accounts>>
      BY <2>3 DEF EnrollmentTypeOK
    <2> QED
      BY <2>1, <2>2, <2>3, InviteSteps DEF CliMints, BootMints, UserMints
  <1>4. enrollments' \in [Enrollments -> {New} \cup Enrolling]
    <2>1. enrollments' = [e \in Enrollments |-> enrollments'[e]]
      BY DEF Next, vars, Tick, Start, Crash, BootNext, ReadAccountCount,
             ReadUnconsumedInviteCount, IssueBootstrapInvite, PrintBanner,
             RunInviteCreate, LookupInvite, ReadEnrollmentClock, RegisterClientApp,
             AuthorizeMint, ReadMintClock, IssueInviteBy, EnrollmentTypeOK
    <2>2. ASSUME NEW e \in Enrollments
          PROVE  enrollments'[e] \in {New} \cup Enrolling
      <3>1. CASE enrollments'[e] = enrollments[e]
        BY <3>1 DEF EnrollmentTypeOK
      <3>2. ASSUME NEW i \in Tokens, enrollments'[e] = [stage |-> "found", token |-> i]
            PROVE  enrollments'[e] \in Enrolling
        BY <3>2 DEF Enrolling
      <3>3. ASSUME ReadEnrollmentClock(e),
                   enrollments'[e] = [stage |-> "registering",
                                      token |-> enrollments[e].token, at |-> clock]
            PROVE  enrollments'[e] \in Enrolling
        <4>1. enrollments[e].token \in Tokens /\ clock \in Nat
          BY <3>3, RequestFields, ClockSteps DEF ReadEnrollmentClock, Pending
        <4> QED
          BY <3>3, <4>1 DEF Enrolling
      <3>4. ASSUME NEW why \in {"enrolled", "already_used", "expired", "scope_mismatch",
                                "lost"},
                   enrollments'[e] = [stage |-> why]
            PROVE  enrollments'[e] \in Enrolling
        BY <3>4 DEF Enrolling
      <3> QED
        BY <3>1, <3>2, <3>3, <3>4, EnrollmentSteps
    <2> QED
      BY <2>1, <2>2
  <1>5. mints' \in [Mints -> {New} \cup Minting]
    <2>1. mints' = [m \in Mints |-> mints'[m]]
      BY DEF Next, vars, Tick, Start, Crash, BootNext, ReadAccountCount,
             ReadUnconsumedInviteCount, IssueBootstrapInvite, PrintBanner,
             RunInviteCreate, LookupInvite, ReadEnrollmentClock, RegisterClientApp,
             AuthorizeMint, ReadMintClock, IssueInviteBy, EnrollmentTypeOK
    <2>2. ASSUME NEW m \in Mints
          PROVE  mints'[m] \in {New} \cup Minting
      <3>1. CASE mints'[m] = mints[m]
        BY <3>1 DEF EnrollmentTypeOK
      <3>2. ASSUME NEW u \in Enrollments, mints'[m] = [stage |-> "authorized", user |-> u]
            PROVE  mints'[m] \in Minting
        BY <3>2 DEF Minting
      <3>3. ASSUME ReadMintClock(m),
                   mints'[m] = [stage |-> "issuing", user |-> mints[m].user, at |-> clock]
            PROVE  mints'[m] \in Minting
        <4>1. mints[m].user \in Enrollments /\ clock \in Nat
          BY <3>3, RequestFields, ClockSteps DEF ReadMintClock, PendingMint
        <4> QED
          BY <3>3, <4>1 DEF Minting
      <3>4. ASSUME NEW why \in {"issued", "limit_reached", "forbidden", "lost"},
                   mints'[m] = [stage |-> why]
            PROVE  mints'[m] \in Minting
        BY <3>4 DEF Minting
      <3> QED
        BY <3>1, <3>2, <3>3, <3>4, MintSteps
    <2> QED
      BY <2>1, <2>2
  <1> QED
    BY <1>1, <1>2, <1>3, <1>4, <1>5 DEF EnrollmentTypeOK

-----------------------------------------------------------------------------
(* Rows, requests and the server process.                                  *)

(* An invite keeps its row, its scope, its creator and its expiry, and once*)
(* used stays used by the same account.                                    *)
LEMMA RowsStay ==
  ASSUME EnrollmentTypeOK, [Next]_vars, NEW i \in Tokens, invites[i] # NoInvite
  PROVE  /\ invites'[i] # NoInvite
         /\ invites'[i].scope = invites[i].scope
         /\ invites'[i].creator = invites[i].creator
         /\ invites'[i].expires = invites[i].expires
         /\ invites[i].usedBy # NoUser => invites'[i].usedBy = invites[i].usedBy
  <1>1. ASSUME NEW j \in Tokens, NEW row \in InviteRow, Inserts(j, row)
        PROVE  invites'[i] = invites[i]
    BY <1>1 DEF Inserts, EnrollmentTypeOK
  <1>2. ASSUME NEW e \in Enrollments, NEW row \in InviteRow, Registers(e, row)
        PROVE  /\ invites'[i] # NoInvite
               /\ invites'[i].scope = invites[i].scope
               /\ invites'[i].creator = invites[i].creator
               /\ invites'[i].expires = invites[i].expires
               /\ invites[i].usedBy # NoUser => invites'[i].usedBy = invites[i].usedBy
    BY <1>2 DEF Registers, Active, EnrollmentTypeOK
  <1> QED
    BY <1>1, <1>2, InviteSteps DEF CliMints, BootMints, UserMints

(* A serving process goes on serving until it dies, and its requests die   *)
(* with it.                                                                *)
LEMMA ServingSteps ==
  ASSUME EnrollmentTypeOK, [Next]_vars, boot.stage = "serving"
  PROVE  \/ boot' = boot
         \/ /\ \A e \in Enrollments : ~Pending(e)'
            /\ \A m \in Mints : ~PendingMint(m)'
  <1>1. CASE Crash
    BY <1>1 DEF Crash, Lost, Finished, EnrollmentTypeOK, Pending, PendingMint,
                Enrolling, Minting, New
  <1> QED
    BY <1>1
    DEF Next, vars, Tick, Start, BootNext, BootStep, ReadAccountCount,
        ReadUnconsumedInviteCount, IssueBootstrapInvite, PrintBanner, RunInviteCreate,
        LookupInvite, ReadEnrollmentClock, RegisterClientApp, AuthorizeMint,
        ReadMintClock, IssueInviteBy

(* A request that is in flight after a step was so before, or has just been*)
(* let in by a serving process.                                            *)
LEMMA NextRequestsNeedServer ==
  ASSUME EnrollmentTypeOK, RequestsNeedServer, [Next]_vars
  PROVE  RequestsNeedServer'
  <1> SUFFICES ASSUME boot'.stage # "serving"
               PROVE  /\ \A e \in Enrollments : ~Pending(e)'
                      /\ \A m \in Mints : ~PendingMint(m)'
    BY DEF RequestsNeedServer, Pending, PendingMint
  <1>1. CASE boot.stage = "serving"
    BY <1>1, ServingSteps
  <1>2. CASE boot.stage # "serving"
    <2>1. ASSUME NEW e \in Enrollments
          PROVE  ~Pending(e)'
      BY <1>2, EnrollmentStages DEF RequestsNeedServer, Pending
    <2>2. ASSUME NEW m \in Mints
          PROVE  ~PendingMint(m)'
      BY <1>2, MintStages DEF RequestsNeedServer, PendingMint
    <2> QED
      BY <2>1, <2>2
  <1> QED
    BY <1>1, <1>2

(* The invite of an enrollment in flight is one that lets people register. *)
LEMMA NextLookedUp ==
  ASSUME EnrollmentTypeOK, LookedUp, [Next]_vars
  PROVE  LookedUp'
  <1> SUFFICES ASSUME NEW e \in Enrollments, Pending(e)'
               PROVE  /\ invites'[enrollments'[e].token] # NoInvite
                      /\ invites'[enrollments'[e].token].scope = "server_registration"
    BY DEF LookedUp, Pending
  <1>1. PICK i \in Tokens : /\ enrollments'[e].token = i
                            /\ invites[i] # NoInvite
                            /\ invites[i].scope = "server_registration"
    <2>1. CASE Pending(e) /\ enrollments'[e].token = enrollments[e].token
      BY <2>1, RequestFields DEF LookedUp
    <2>2. CASE enrollments'[e].token \in ActiveRegistrations(clock)
      BY <2>2 DEF ActiveRegistrations, Active
    <2> QED
      BY <2>1, <2>2, EnrollmentStages DEF Pending
  <1> QED
    BY <1>1, RowsStay

(* Readings of the clock stay behind it.                                   *)
LEMMA NextReadingsArePast ==
  ASSUME EnrollmentTypeOK, ReadingsArePast, [Next]_vars
  PROVE  ReadingsArePast'
  <1>0. clock \in Nat /\ clock' \in Nat /\ clock <= clock'
    BY ClockSteps
  <1>1. ASSUME NEW e \in Enrollments, enrollments'[e].stage = "registering"
        PROVE  enrollments'[e].at < clock'
    <2>1. CASE enrollments'[e] = enrollments[e]
      <3>1. enrollments[e].at \in Nat /\ enrollments[e].at < clock
        BY <1>1, <2>1, RequestFields DEF ReadingsArePast
      <3> QED
        BY <1>0, <2>1, <3>1
    <2>2. CASE enrollments'[e].at = clock /\ clock' = clock + 1
      BY <1>0, <2>2
    <2> QED
      BY <1>1, <2>1, <2>2, EnrollmentStages
  <1>2. ASSUME NEW m \in Mints, mints'[m].stage = "issuing"
        PROVE  mints'[m].at <= clock'
    <2>1. CASE mints'[m] = mints[m]
      <3>1. mints[m].at \in Nat /\ mints[m].at <= clock
        BY <1>2, <2>1, RequestFields DEF ReadingsArePast
      <3> QED
        BY <1>0, <2>1, <3>1
    <2>2. CASE mints'[m].at = clock
      BY <1>0, <2>2
    <2> QED
      BY <1>2, <2>1, <2>2, MintStages
  <1>3. ASSUME NEW a \in accounts'
        PROVE  a.created < clock'
    <2>1. CASE a \in accounts
      <3>1. a.created \in Nat /\ a.created < clock
        BY <2>1 DEF ReadingsArePast, EnrollmentTypeOK, Account
      <3> QED
        BY <1>0, <3>1
    <2>2. ASSUME NEW e \in Enrollments, NEW row \in InviteRow, Registers(e, row),
                 a \notin accounts
          PROVE  a.created < clock'
      <3>1. a.created = enrollments[e].at
        BY <2>2 DEF Registers, AccountRow
      <3>2. enrollments[e].at \in Nat /\ enrollments[e].at < clock
        BY <2>2, RequestFields DEF Registers, ReadingsArePast
      <3> QED
        BY <1>0, <3>1, <3>2
    <2> QED
      BY <1>3, <2>1, <2>2, InviteSteps DEF CliMints, BootMints, UserMints, Inserts
  <1> QED
    BY <1>1, <1>2, <1>3 DEF ReadingsArePast

-----------------------------------------------------------------------------
(* Accounts and the invites they consumed.                                 *)

(* Once enrolled, a request stays so, and an account is not deleted.       *)
LEMMA EnrolledStays ==
  ASSUME EnrollmentTypeOK, [Next]_vars
  PROVE  /\ accounts \subseteq accounts'
         /\ \A e \in Enrollments :
              /\ enrollments[e].stage = "enrolled" => enrollments'[e].stage = "enrolled"
              /\ enrollments'[e].stage = "enrolled" =>
                   \/ enrollments[e].stage = "enrolled"
                   \/ \E a \in accounts' : a.user = e
  <1>1. accounts \subseteq accounts'
    BY InviteSteps DEF CliMints, BootMints, UserMints, Inserts, Registers
  <1>2. ASSUME NEW e \in Enrollments
        PROVE  /\ enrollments[e].stage = "enrolled" => enrollments'[e].stage = "enrolled"
               /\ enrollments'[e].stage = "enrolled" =>
                    \/ enrollments[e].stage = "enrolled"
                    \/ \E a \in accounts' : a.user = e
    <2>1. \A at : AccountRow(e, at).user = e
      BY DEF AccountRow
    <2> QED
      BY <2>1, EnrollmentStages
  <1> QED
    BY <1>1, <1>2

(* A transaction that consumes an invite makes the only account for it.    *)
LEMMA NextAccountsMatchInvites ==
  ASSUME EnrollmentTypeOK, LookedUp, AccountsMatchInvites, [Next]_vars
  PROVE  AccountsMatchInvites'
  <1>0. \A a \in accounts : a.user \in Enrollments
    BY DEF EnrollmentTypeOK, Account
  <1>1. ASSUME NEW k \in Tokens, NEW row \in InviteRow, Inserts(k, row)
        PROVE  AccountsMatchInvites'
    <2>1. UNCHANGED <<accounts, enrollments>>
      BY <1>1 DEF Inserts
    <2>2. \A i \in Tokens, e \in Enrollments : UsedBy(i, e)' <=> UsedBy(i, e)
      BY <1>1, EnrollmentAssumptions DEF Inserts, UsedBy, EnrollmentTypeOK
    <2>3. \A a \in accounts : \E i \in Tokens : Admits(i, a)'
      BY <1>0, RowsStay, <2>2 DEF AccountsMatchInvites, Admits, UsedBy
    <2> QED
      BY <2>1, <2>2, <2>3 DEF AccountsMatchInvites
  <1>2. ASSUME NEW d \in Enrollments, NEW row \in InviteRow, Registers(d, row)
        PROVE  AccountsMatchInvites'
    <2>0. PICK k \in Tokens, new \in Account :
            k = enrollments[d].token /\ new = AccountRow(d, enrollments[d].at)
      BY <1>2, RequestFields DEF Registers, Pending, Account, AccountRow
    <2>1. enrollments[d].stage = "registering"
      BY <1>2 DEF Registers
    <2>2. \A i \in Tokens, e \in Enrollments :
            UsedBy(i, e)' <=> UsedBy(i, e) \/ (i = k /\ e = d)
      BY <1>2, <2>0, EnrollmentAssumptions
      DEF Registers, UsedBy, Active, EnrollmentTypeOK
    <2>3. /\ enrollments'[d].stage = "enrolled"
          /\ \A e \in Enrollments : e # d => enrollments'[e] = enrollments[e]
          /\ new \in accounts' /\ new.user = d /\ new.created = enrollments[d].at
          /\ \A a \in accounts' : a = new \/ a \in accounts
      BY <1>2, <2>0 DEF Registers, EnrollmentTypeOK, AccountRow
    <2>4. \A i \in Tokens : ~UsedBy(i, d)
      BY <2>1 DEF AccountsMatchInvites
    <2>5. Admits(k, new)'
      <3>1. invites'[k] = row /\ row.expires = invites[k].expires
            /\ row.scope = "server_registration"
        BY <1>2, <2>0 DEF Registers, LookedUp, Pending, EnrollmentTypeOK
      <3>2. enrollments[d].at < row.expires
        <4>1. invites[k].expires > enrollments[d].at /\ row.expires \in Nat
          BY <1>2, <2>0 DEF Registers, Active, InviteRow
        <4>2. enrollments[d].at \in Nat
          BY <2>1, RequestFields
        <4> QED
          BY <3>1, <4>1, <4>2
      <3>3. UsedBy(k, d)'
        BY <2>2
      <3> QED
        BY <2>3, <3>1, <3>2, <3>3 DEF Admits, UsedBy
    <2>6. \A a \in accounts : \E i \in Tokens : Admits(i, a)'
      BY <1>0, RowsStay, <2>2 DEF AccountsMatchInvites, Admits, UsedBy
    <2>7. \A a \in accounts' : /\ enrollments'[a.user].stage = "enrolled"
                               /\ \E i \in Tokens : Admits(i, a)'
      BY <1>0, <2>1, <2>3, <2>5, <2>6 DEF AccountsMatchInvites
    <2>8. \A e \in Enrollments :
            /\ \A i \in Tokens : UsedBy(i, e)' => enrollments'[e].stage = "enrolled"
            /\ enrollments'[e].stage = "enrolled" => \E a \in accounts' : a.user = e
      BY <2>2, <2>3, EnrolledStays DEF AccountsMatchInvites
    <2>9. \A i, j \in Tokens, e \in Enrollments :
            UsedBy(i, e)' /\ UsedBy(j, e)' => i = j
      BY <2>2, <2>4 DEF AccountsMatchInvites
    <2> QED
      BY <2>7, <2>8, <2>9 DEF AccountsMatchInvites
  <1>3. CASE UNCHANGED <<invites, accounts>>
    <2>1. \A i \in Tokens : \A e : UsedBy(i, e)' <=> UsedBy(i, e)
      BY <1>3 DEF UsedBy
    <2>2. \A i \in Tokens : \A a : Admits(i, a)' <=> Admits(i, a)
      BY <1>3 DEF Admits, UsedBy
    <2> QED
      BY <1>0, <1>3, <2>1, <2>2, EnrolledStays DEF AccountsMatchInvites
  <1> QED
    BY <1>1, <1>2, <1>3, InviteSteps DEF CliMints, BootMints, UserMints

(* What is kept about single rows says what EachInviteAdmitsOne counts.    *)
LEMMA MatchingAdmitsOne ==
  ASSUME EnrollmentTypeOK, AccountsMatchInvites
  PROVE  EachInviteAdmitsOne
  <1>1. ASSUME NEW a \in accounts
        PROVE  Cardinality({i \in Tokens : /\ invites[i] # NoInvite
                                           /\ invites[i].usedBy = a.user
                                           /\ invites[i].scope = "server_registration"
                                           /\ a.created < invites[i].expires}) = 1
    <2>1. a.user \in Enrollments
      BY DEF EnrollmentTypeOK, Account
    <2>2. PICK k \in Tokens : Admits(k, a)
      BY DEF AccountsMatchInvites
    <2>3. \A i \in Tokens : Admits(i, a) => i = k
      BY <2>1, <2>2 DEF AccountsMatchInvites, Admits
    <2>4. {i \in Tokens : /\ invites[i] # NoInvite
                          /\ invites[i].usedBy = a.user
                          /\ invites[i].scope = "server_registration"
                          /\ a.created < invites[i].expires} = {k}
      BY <2>2, <2>3 DEF Admits, UsedBy
    <2>5. Cardinality({k}) = 1
      BY FS_Singleton, Zenon
    <2> QED
      BY <2>4, <2>5
  <1>2. ASSUME NEW i \in Tokens, invites[i] # NoInvite, invites[i].usedBy # NoUser
        PROVE  \E a \in accounts : a.user = invites[i].usedBy
    <2>1. invites[i].usedBy \in Enrollments
      BY <1>2 DEF EnrollmentTypeOK, InviteRow
    <2> QED
      BY <1>2, <2>1 DEF AccountsMatchInvites, UsedBy
  <1> QED
    BY <1>1, <1>2 DEF EachInviteAdmitsOne, AccountsMatchInvites

-----------------------------------------------------------------------------
(* The cap.                                                                *)

(* What a user holds after a step was held, at any earlier reading of the  *)
(* clock too, or is new.                                                   *)
LEMMA HeldBefore ==
  ASSUME EnrollmentTypeOK, [Next]_vars, NEW u \in Enrollments, NEW at \in Nat,
         at <= clock, NEW i \in Tokens, i \in HeldBy(u, clock)', invites[i] # NoInvite
  PROVE  i \in HeldBy(u, at)
  <1>1. /\ invites[i].creator = u
        /\ invites[i].scope = "server_registration"
        /\ invites[i].expires > clock'
        /\ invites[i].usedBy = NoUser
    BY RowsStay DEF HeldBy, ActiveRegistrations, Active
  <1>2. invites[i].expires \in Nat
    BY DEF EnrollmentTypeOK, InviteRow
  <1>3. invites[i].expires > at
    BY <1>1, <1>2, ClockSteps
  <1> QED
    BY <1>1, <1>3 DEF HeldBy, ActiveRegistrations, Active

(* What a user holds is a finite set of tokens.                            *)
LEMMA HeldIsFinite ==
  ASSUME NEW u, NEW at
  PROVE  HeldBy(u, at) \subseteq Tokens /\ IsFiniteSet(HeldBy(u, at))
  <1>1. HeldBy(u, at) \subseteq Tokens
    BY DEF HeldBy, ActiveRegistrations
  <1>2. IsFiniteSet(Tokens)
    BY EnrollmentAssumptions
  <1> QED
    BY <1>1, <1>2, FS_Subset

(* Counting with an old reading of the clock counts too many, never too    *)
(* few: invites only leave the count as time passes.                       *)
LEMMA NextOutstandingWithinCap ==
  ASSUME EnrollmentTypeOK, ReadingsArePast, OutstandingWithinCap, [Next]_vars
  PROVE  OutstandingWithinCap'
  <1> SUFFICES ASSUME NEW u \in Enrollments
               PROVE  Cardinality(HeldBy(u, clock)') <= Cap
    BY DEF OutstandingWithinCap
  <1>0. clock \in Nat /\ clock <= clock /\ Cap \in Nat
    BY ClockSteps, EnrollmentAssumptions
  <1>1. CASE \A i \in HeldBy(u, clock)' : invites[i] # NoInvite
    <2>1. HeldBy(u, clock)' \subseteq HeldBy(u, clock)
      <3>1. HeldBy(u, clock)' \subseteq Tokens
        BY DEF HeldBy, ActiveRegistrations
      <3> QED
        BY <1>0, <1>1, <3>1, HeldBefore
    <2>2. /\ Cardinality(HeldBy(u, clock)') <= Cardinality(HeldBy(u, clock))
          /\ Cardinality(HeldBy(u, clock)) \in Nat
          /\ Cardinality(HeldBy(u, clock)') \in Nat
      BY <2>1, HeldIsFinite, FS_Subset, FS_CardinalityType
    <2> QED
      BY <1>0, <2>2 DEF OutstandingWithinCap
  <1>2. ASSUME NEW m \in Mints, NEW i \in Tokens, NEW row \in InviteRow,
               UserMints(m, i, row), mints[m].user = u
        PROVE  Cardinality(HeldBy(u, clock)') <= Cap
    <2>1. PICK at \in Nat : at = mints[m].at /\ at <= clock
      BY <1>2, RequestFields DEF UserMints, ReadingsArePast
    <2>2. HeldBy(u, clock)' \subseteq HeldBy(u, at) \cup {i}
      <3>1. HeldBy(u, clock)' \subseteq Tokens
        BY DEF HeldBy, ActiveRegistrations
      <3>2. ASSUME NEW j \in Tokens, j \in HeldBy(u, clock)', j # i
            PROVE  invites[j] # NoInvite
        BY <1>2, <3>2
        DEF UserMints, Inserts, EnrollmentTypeOK, HeldBy, ActiveRegistrations, Active
      <3> QED
        BY <2>1, <3>1, <3>2, HeldBefore
    <2>3. IsFiniteSet(HeldBy(u, at)) /\ Cardinality(HeldBy(u, at)) < Cap
      BY <1>2, <2>1, HeldIsFinite DEF UserMints, BelowCap
    <2>4. /\ IsFiniteSet(HeldBy(u, at) \cup {i})
          /\ Cardinality(HeldBy(u, at) \cup {i}) <= Cap
      <3>1. Cardinality(HeldBy(u, at)) \in Nat
        BY <2>3, FS_CardinalityType
      <3>2. /\ IsFiniteSet(HeldBy(u, at) \cup {i})
            /\ \/ Cardinality(HeldBy(u, at) \cup {i}) = Cardinality(HeldBy(u, at))
               \/ Cardinality(HeldBy(u, at) \cup {i}) = Cardinality(HeldBy(u, at)) + 1
        BY <2>3, FS_AddElement, Zenon
      <3> QED
        BY <1>0, <2>3, <3>1, <3>2
    <2>5. /\ Cardinality(HeldBy(u, clock)') <= Cardinality(HeldBy(u, at) \cup {i})
          /\ Cardinality(HeldBy(u, at) \cup {i}) \in Nat
          /\ Cardinality(HeldBy(u, clock)') \in Nat
      BY <2>2, <2>4, FS_Subset, FS_CardinalityType
    <2> QED
      BY <1>0, <2>4, <2>5
  <1>3. ASSUME NEW i \in Tokens, NEW row \in InviteRow, Inserts(i, row), row.creator # u
        PROVE  \A j \in HeldBy(u, clock)' : invites[j] # NoInvite
    BY <1>3 DEF Inserts, EnrollmentTypeOK, HeldBy, ActiveRegistrations, Active
  <1>4. ASSUME NEW e \in Enrollments, NEW row \in InviteRow, Registers(e, row)
        PROVE  \A j \in HeldBy(u, clock)' : invites[j] # NoInvite
    BY <1>4 DEF Registers, EnrollmentTypeOK, HeldBy, ActiveRegistrations, Active
  <1>5. ASSUME UNCHANGED invites
        PROVE  \A j \in HeldBy(u, clock)' : invites[j] # NoInvite
    BY <1>5 DEF HeldBy, ActiveRegistrations, Active
  <1>6. u # NoUser
    BY EnrollmentAssumptions
  <1> QED
    BY <1>1, <1>2, <1>3, <1>4, <1>5, <1>6, InviteSteps DEF CliMints, BootMints, UserMints

-----------------------------------------------------------------------------
(* Who founded the server, and who mints.                                  *)

(* Whoever mints has an account.                                           *)
LEMMA NextMintersHaveAccounts ==
  ASSUME EnrollmentTypeOK, MintersHaveAccounts, [Next]_vars
  PROVE  MintersHaveAccounts'
  <1>1. ASSUME NEW m \in Mints, PendingMint(m)'
        PROVE  \E a \in accounts' : a.user = mints'[m].user
    BY <1>1, MintStages, EnrolledStays DEF MintersHaveAccounts, PendingMint
  <1>2. ASSUME NEW i \in UserInvites, invites'[i] # NoInvite
        PROVE  \E a \in accounts' : a.user = invites'[i].creator
    <2>1. CASE invites[i] # NoInvite
      BY <2>1, RowsStay, EnrolledStays DEF MintersHaveAccounts, Tokens
    <2>2. ASSUME NEW m \in Mints, NEW j \in Tokens, NEW row \in InviteRow,
                 UserMints(m, j, row), invites[i] = NoInvite
          PROVE  \E a \in accounts' : a.user = invites'[i].creator
      <3>1. invites'[i] = row /\ row.creator = mints[m].user
        BY <1>2, <2>2 DEF UserMints, Inserts, EnrollmentTypeOK, Tokens
      <3>2. PendingMint(m)
        BY <2>2 DEF UserMints, PendingMint
      <3> QED
        BY <3>1, <3>2, EnrolledStays DEF MintersHaveAccounts
    <2>3. ASSUME NEW j \in Tokens, NEW row \in InviteRow,
                 CliMints(j, row) \/ BootMints(j, row)
          PROVE  invites[i] # NoInvite
      BY <1>2, <2>3, EnrollmentAssumptions
      DEF CliMints, BootMints, Inserts, EnrollmentTypeOK, Tokens
    <2>4. ASSUME NEW e \in Enrollments, NEW row \in InviteRow, Registers(e, row)
          PROVE  invites[i] # NoInvite
      BY <1>2, <2>4 DEF Registers, EnrollmentTypeOK, Active, Tokens
    <2> QED
      BY <1>2, <2>1, <2>2, <2>3, <2>4, InviteSteps
  <1> QED
    BY <1>1, <1>2 DEF MintersHaveAccounts, PendingMint

(* Tokens of the command line stay unminted only if they were.             *)
LEMMA OnlyBootBefore ==
  ASSUME EnrollmentTypeOK, [Next]_vars, OnlyBootInvites'
  PROVE  OnlyBootInvites
  BY RowsStay DEF OnlyBootInvites, Tokens

(* An invite that counts after a step counted before, or is new.           *)
LEMMA ActiveBefore ==
  ASSUME EnrollmentTypeOK, [Next]_vars, NEW i \in Tokens,
         i \in ActiveRegistrations(clock)', invites[i] # NoInvite
  PROVE  i \in ActiveRegistrations(clock)
  <1>1. /\ invites[i].scope = "server_registration"
        /\ invites[i].expires > clock'
        /\ invites[i].usedBy = NoUser
    BY RowsStay DEF ActiveRegistrations, Active
  <1>2. invites[i].expires \in Nat
    BY DEF EnrollmentTypeOK, InviteRow
  <1>3. invites[i].expires > clock
    BY <1>1, <1>2, ClockSteps
  <1> QED
    BY <1>1, <1>3 DEF ActiveRegistrations, Active

(* An invite that can be claimed after a step could be before, or is new.  *)
LEMMA ClaimedBefore ==
  ASSUME EnrollmentTypeOK, [Next]_vars, NEW i \in Tokens, Claimed(i)'
  PROVE  Claimed(i) \/ (invites[i] = NoInvite /\ invites'[i] # NoInvite)
  <1>1. CASE i \in ActiveRegistrations(clock)'
    BY <1>1, ActiveBefore DEF Claimed, ActiveRegistrations, Active
  <1>2. ASSUME NEW e \in Enrollments, Pending(e)', enrollments'[e].token = i
        PROVE  Claimed(i)
    BY <1>2, EnrollmentStages DEF Claimed, Pending
  <1> QED
    BY <1>1, <1>2 DEF Claimed, Pending

(* Which tokens are new after a step.                                      *)
LEMMA NewRows ==
  ASSUME EnrollmentTypeOK, RequestsNeedServer, [Next]_vars, OnlyBootInvites',
         NEW i \in Tokens, invites[i] = NoInvite, invites'[i] # NoInvite
  PROVE  \/ /\ i \in BootInvites
            /\ boot.stage = "issue" /\ boot'.stage = "banner"
            /\ \A j \in Tokens : invites[j] = NoInvite /\ invites'[j] # NoInvite => j = i
            /\ UNCHANGED <<accounts, enrollments>>
         \/ /\ i \in UserInvites
            /\ boot' = boot /\ boot.stage = "serving"
            /\ \E m \in Mints : PendingMint(m) /\ invites'[i].creator = mints[m].user
  <1>1. ASSUME NEW k \in Tokens, NEW row \in InviteRow, BootMints(k, row)
        PROVE  /\ i \in BootInvites
               /\ boot.stage = "issue" /\ boot'.stage = "banner"
               /\ \A j \in Tokens : invites[j] = NoInvite /\ invites'[j] # NoInvite => j = i
               /\ UNCHANGED <<accounts, enrollments>>
    BY <1>1 DEF BootMints, Inserts, EnrollmentTypeOK
  <1>2. ASSUME NEW m \in Mints, NEW k \in Tokens, NEW row \in InviteRow,
               UserMints(m, k, row)
        PROVE  /\ i \in UserInvites
               /\ boot' = boot /\ boot.stage = "serving"
               /\ PendingMint(m) /\ invites'[i].creator = mints[m].user
    <2>1. i = k /\ invites'[i] = row
      BY <1>2 DEF UserMints, Inserts, EnrollmentTypeOK
    <2>2. PendingMint(m)
      BY <1>2 DEF UserMints, PendingMint
    <2> QED
      BY <1>2, <2>1, <2>2 DEF UserMints, RequestsNeedServer
  <1>3. ASSUME NEW k \in Tokens, NEW row \in InviteRow, CliMints(k, row)
        PROVE  FALSE
    BY <1>3 DEF CliMints, Inserts, OnlyBootInvites, EnrollmentTypeOK
  <1>4. ASSUME NEW e \in Enrollments, NEW row \in InviteRow, Registers(e, row)
        PROVE  FALSE
    BY <1>4 DEF Registers, Active, EnrollmentTypeOK
  <1> QED
    BY <1>1, <1>2, <1>3, <1>4, InviteSteps

(* The server has looked for an unconsumed invite just before it issues    *)
(* one.                                                                    *)
LEMMA IssueStage ==
  ASSUME [Next]_vars, boot'.stage = "issue"
  PROVE  \/ boot.stage = "issue"
         \/ ActiveRegistrations(clock) = {} /\ UNCHANGED <<invites, clock>>
  <1>1. CASE ReadUnconsumedInviteCount
    BY <1>1 DEF ReadUnconsumedInviteCount, UnconsumedInvites, BootStep
  <1>2. CASE ReadAccountCount \/ PrintBanner \/ Start \/ Crash
    BY <1>2 DEF ReadAccountCount, PrintBanner, Start, Crash, BootStep
  <1>3. ASSUME NEW i \in BootInvites, IssueBootstrapInvite(i)
        PROVE  boot.stage = "issue"
    BY <1>3 DEF IssueBootstrapInvite
  <1>4. CASE UNCHANGED boot
    BY <1>4
  <1> QED
    BY <1>1, <1>2, <1>3, <1>4
    DEF Next, vars, Tick, BootNext, RunInviteCreate, LookupInvite, ReadEnrollmentClock,
        RegisterClientApp, AuthorizeMint, ReadMintClock, IssueInviteBy

(* No later account is as old as the founding one.                         *)
LEMMA FoundingStays ==
  ASSUME EnrollmentTypeOK, LookedUp, ReadingsArePast, [Next]_vars,
         NEW a \in accounts, Founding(a)
  PROVE  a \in accounts' /\ Founding(a)'
  <1>1. ASSUME NEW b \in accounts'
        PROVE  b = a \/ a.created < b.created
    <2>1. CASE b \in accounts
      BY <2>1 DEF Founding
    <2>2. ASSUME NEW d \in Enrollments, NEW row \in InviteRow, Registers(d, row),
                 b \notin accounts
          PROVE  a.created < b.created
      <3>1. b.created = enrollments[d].at
        BY <2>2 DEF Registers, AccountRow
      <3>2. a.created < enrollments[d].at
        BY <2>2 DEF Registers, Active, Founding
      <3> QED
        BY <3>1, <3>2
    <2> QED
      BY <1>1, <2>1, <2>2, InviteSteps DEF CliMints, BootMints, UserMints, Inserts
  <1>2. ASSUME NEW e \in Enrollments, enrollments'[e].stage = "registering"
        PROVE  \/ invites'[enrollments'[e].token].usedBy # NoUser
               \/ a.created < enrollments'[e].at
    <2>1. CASE enrollments'[e] = enrollments[e]
      <3>1. enrollments[e].token \in Tokens /\ invites[enrollments[e].token] # NoInvite
        BY <1>2, <2>1, RequestFields DEF LookedUp, Pending
      <3> QED
        BY <1>2, <2>1, <3>1, RowsStay DEF Founding
    <2>2. CASE enrollments'[e].at = clock
      BY <2>2 DEF ReadingsArePast
    <2> QED
      BY <1>2, <2>1, <2>2, EnrollmentStages
  <1> QED
    BY <1>1, <1>2, EnrolledStays DEF Founding

(* At most one of the server's own invites can found it, whenever it was   *)
(* restarted.                                                              *)
LEMMA NextFoundedByOne ==
  ASSUME EnrollmentTypeOK, RequestsNeedServer, LookedUp, ReadingsArePast,
         MintersHaveAccounts, FoundedByOne, [Next]_vars
  PROVE  FoundedByOne'
  <1> SUFFICES ASSUME OnlyBootInvites'
               PROVE  /\ boot'.stage = "issue" => ActiveRegistrations(clock)' = {}
                      /\ accounts' = {} => \A i, j \in Tokens :
                                            Claimed(i)' /\ Claimed(j)' => i = j
                      /\ accounts' # {} => \E a \in accounts' : Founding(a)'
    BY DEF FoundedByOne, Founding
  <1>0. OnlyBootInvites
    BY OnlyBootBefore
  <1>1. ASSUME boot'.stage = "issue"
        PROVE  ActiveRegistrations(clock)' = {}
    <2>1. CASE boot.stage = "issue"
      <3>1. ASSUME NEW i \in Tokens, i \in ActiveRegistrations(clock)'
            PROVE  FALSE
        <4>1. invites'[i] # NoInvite
          BY <3>1 DEF ActiveRegistrations, Active
        <4>2. invites[i] # NoInvite
          BY <1>1, <2>1, <4>1, NewRows
        <4> QED
          BY <1>0, <2>1, <3>1, <4>2, ActiveBefore DEF FoundedByOne
      <3> QED
        BY <3>1 DEF ActiveRegistrations
    <2>2. CASE ActiveRegistrations(clock) = {} /\ UNCHANGED <<invites, clock>>
      BY <2>2 DEF ActiveRegistrations, Active
    <2> QED
      BY <1>1, <2>1, <2>2, IssueStage
  <1>2. ASSUME accounts' = {}, NEW i \in Tokens, NEW j \in Tokens, Claimed(i)', Claimed(j)'
        PROVE  i = j
    <2>1. accounts = {}
      BY <1>2, EnrolledStays
    <2>2. CASE Claimed(i) /\ Claimed(j)
      BY <1>0, <2>1, <2>2 DEF FoundedByOne
    <2>3. ASSUME NEW k \in Tokens, invites[k] = NoInvite, invites'[k] # NoInvite
          PROVE  /\ \A l \in Tokens : invites[l] = NoInvite /\ invites'[l] # NoInvite => l = k
                 /\ \A l \in Tokens : ~Claimed(l)
      <3>1. \A m \in Mints : ~PendingMint(m)
        BY <2>1 DEF MintersHaveAccounts
      <3>2. /\ boot.stage = "issue"
            /\ \A l \in Tokens : invites[l] = NoInvite /\ invites'[l] # NoInvite => l = k
        BY <2>3, <3>1, NewRows
      <3>3. ActiveRegistrations(clock) = {} /\ \A e \in Enrollments : ~Pending(e)
        BY <1>0, <3>2 DEF FoundedByOne, RequestsNeedServer
      <3> QED
        BY <3>2, <3>3 DEF Claimed
    <2> QED
      BY <1>2, <2>2, <2>3, ClaimedBefore
  <1>3. ASSUME accounts' # {}
        PROVE  \E a \in accounts' : Founding(a)'
    <2>1. CASE accounts # {}
      BY <1>0, <2>1, FoundingStays DEF FoundedByOne
    <2>2. ASSUME NEW d \in Enrollments, NEW row \in InviteRow, Registers(d, row),
                 accounts = {}
          PROVE  \E a \in accounts' : Founding(a)'
      <3>0. PICK k \in Tokens, new \in Account :
              k = enrollments[d].token /\ new = AccountRow(d, enrollments[d].at)
        BY <2>2, RequestFields DEF Registers, Pending, Account, AccountRow
      <3>1. accounts' = {new}
        BY <2>2, <3>0 DEF Registers
      <3>2. invites'[k].usedBy # NoUser
        BY <2>2, <3>0, EnrollmentAssumptions DEF Registers, EnrollmentTypeOK
      <3>3. ASSUME NEW e \in Enrollments, enrollments'[e].stage = "registering"
            PROVE  enrollments'[e].token = k
        <4>1. enrollments'[e] = enrollments[e] /\ Pending(e) /\ Pending(d)
          BY <2>2, <3>3 DEF Registers, EnrollmentTypeOK, Pending
        <4>2. Claimed(k) /\ Claimed(enrollments[e].token) /\ enrollments[e].token \in Tokens
          BY <3>0, <4>1, RequestFields DEF Claimed
        <4> QED
          BY <1>0, <2>2, <4>1, <4>2 DEF FoundedByOne
      <3>4. Founding(new)'
        BY <3>1, <3>2, <3>3 DEF Founding
      <3> QED
        BY <3>1, <3>4
    <2> QED
      BY <1>3, <2>1, <2>2, InviteSteps DEF CliMints, BootMints, UserMints, Inserts
  <1> QED
    BY <1>1, <1>2, <1>3

(* The query of IsFoundingAdmin finds the only oldest account.             *)
LEMMA OldestAccount ==
  ASSUME NEW S, S \subseteq Account, NEW a \in S,
         \A b \in S : b = a \/ a.created < b.created
  PROVE  (CHOOSE x \in S : \A b \in S : x.created <= b.created) = a
  <1> DEFINE Oldest(x) == \A b \in S : x.created <= b.created
             c == CHOOSE x \in S : Oldest(x)
  <1>1. \A x \in S : x.created \in Nat
    BY DEF Account
  <1>2. Oldest(a)
    BY <1>1
  <1> HIDE DEF Oldest
  <1>3. c \in S /\ Oldest(c)
    BY <1>2
  <1> HIDE DEF c
  <1>4. c = a
    BY <1>1, <1>3 DEF Oldest
  <1> QED
    BY <1>4 DEF c, Oldest

(* The founding account is the administrator's, and a step leaves it so.   *)
LEMMA AdminStays ==
  ASSUME EnrollmentTypeOK, LookedUp, ReadingsArePast, FoundedByOne, [Next]_vars,
         OnlyBootInvites, accounts # {}
  PROVE  FoundingAdmin' = FoundingAdmin
  <1>1. PICK a \in accounts : Founding(a)
    BY DEF FoundedByOne
  <1>2. a \in accounts' /\ \A b \in accounts' : b = a \/ a.created < b.created
    BY <1>1, FoundingStays DEF Founding
  <1>3. accounts \subseteq Account /\ accounts' \subseteq Account
    BY NextEnrollmentType DEF EnrollmentTypeOK
  <1>4. (CHOOSE x \in accounts : \A b \in accounts : x.created <= b.created) = a
    BY <1>1, <1>3, OldestAccount DEF Founding
  <1>5. (CHOOSE x \in accounts' : \A b \in accounts' : x.created <= b.created) = a
    <2>1. PICK S : S = accounts'
      OBVIOUS
    <2>2. (CHOOSE x \in S : \A b \in S : x.created <= b.created) = a
      BY <1>2, <1>3, <2>1, OldestAccount
    <2> QED
      BY <2>1, <2>2
  <1>6. FoundingAdmin = a.user
    BY <1>4 DEF FoundingAdmin
  <1>7. FoundingAdmin' = a.user
    BY <1>2, <1>5 DEF FoundingAdmin
  <1> QED
    BY <1>6, <1>7

(* Under admin-only nobody but the administrator gets to mint.             *)
LEMMA NextAdminAlone ==
  ASSUME EnrollmentTypeOK, RequestsNeedServer, LookedUp, ReadingsArePast,
         MintersHaveAccounts, FoundedByOne, AdminAlone, [Next]_vars
  PROVE  AdminAlone'
  <1> SUFFICES ASSUME policy' = "admin-only", OnlyBootInvites'
               PROVE  /\ \A m \in Mints : PendingMint(m)' => mints'[m].user = FoundingAdmin'
                      /\ \A i \in UserInvites : invites'[i] # NoInvite =>
                           invites'[i].creator = FoundingAdmin'
    BY DEF AdminAlone, PendingMint
  <1>0. policy = "admin-only" /\ OnlyBootInvites
    BY OnlyBootBefore, ClockSteps
  <1>1. ASSUME NEW m \in Mints, PendingMint(m)'
        PROVE  mints'[m].user = FoundingAdmin'
    <2>1. CASE PendingMint(m) /\ mints'[m].user = mints[m].user
      <3>1. accounts # {}
        BY <2>1 DEF MintersHaveAccounts
      <3> QED
        BY <1>0, <2>1, <3>1, AdminStays DEF AdminAlone
    <2>2. CASE /\ \E a \in accounts : a.user = mints'[m].user
               /\ MayMint(mints'[m].user)
      <3>1. accounts # {}
        BY <2>2
      <3> QED
        BY <1>0, <2>2, <3>1, AdminStays DEF MayMint
    <2> QED
      BY <1>1, <2>1, <2>2, MintStages DEF PendingMint
  <1>2. ASSUME NEW i \in UserInvites, invites'[i] # NoInvite
        PROVE  invites'[i].creator = FoundingAdmin'
    <2>0. i \in Tokens /\ i \notin BootInvites
      BY EnrollmentAssumptions DEF Tokens
    <2>1. CASE invites[i] # NoInvite
      <3>1. accounts # {}
        BY <2>1 DEF MintersHaveAccounts
      <3>2. invites'[i].creator = invites[i].creator
        BY <2>0, <2>1, RowsStay
      <3> QED
        BY <1>0, <2>1, <3>1, <3>2, AdminStays DEF AdminAlone
    <2>2. CASE invites[i] = NoInvite
      <3>1. PICK m \in Mints : PendingMint(m) /\ invites'[i].creator = mints[m].user
        BY <1>2, <2>0, <2>2, NewRows
      <3>2. accounts # {}
        BY <3>1 DEF MintersHaveAccounts
      <3> QED
        BY <1>0, <3>1, <3>2, AdminStays DEF AdminAlone
    <2> QED
      BY <2>1, <2>2
  <1> QED
    BY <1>1, <1>2

-----------------------------------------------------------------------------
(* The theorems.                                                           *)

(* What a new deployment satisfies.                                        *)
LEMMA InitEnrollmentInv ==
  ASSUME Init
  PROVE  EnrollmentInv
  <1>1. EnrollmentTypeOK
    BY EnrollmentAssumptions DEF Init, EnrollmentTypeOK, Booting
  <1>2. /\ \A e \in Enrollments : enrollments[e].stage = "new"
        /\ \A m \in Mints : mints[m].stage = "new"
        /\ \A i \in Tokens : invites[i] = NoInvite
        /\ accounts = {}
        /\ boot.stage = "down"
    BY DEF Init, New
  <1>3. OutstandingWithinCap
    <2>1. \A u : HeldBy(u, clock) = {}
      BY <1>2 DEF HeldBy, ActiveRegistrations, Active
    <2>2. Cardinality({}) = 0
      BY FS_EmptySet, Zenon
    <2> QED
      BY <2>1, <2>2, EnrollmentAssumptions DEF OutstandingWithinCap
  <1>4. FoundedByOne /\ AdminAlone /\ MintersHaveAccounts
    BY <1>2
    DEF FoundedByOne, AdminAlone, MintersHaveAccounts, Claimed, ActiveRegistrations,
        Active, Pending, PendingMint, Tokens
  <1> QED
    BY <1>1, <1>2, <1>3, <1>4
    DEF EnrollmentInv, RequestsNeedServer, LookedUp, ReadingsArePast,
        AccountsMatchInvites, UsedBy, Pending, PendingMint

(* Enrollments, mints, restarts, crashes and the passing of time keep the  *)
(* inductive invariant of the registration invites.                        *)
THEOREM EnrollmentInvHolds == Spec => []EnrollmentInv
  <1>1. Init => EnrollmentInv
    BY InitEnrollmentInv
  <1>2. EnrollmentInv /\ [Next]_vars => EnrollmentInv'
    <2> SUFFICES ASSUME EnrollmentInv, [Next]_vars
                 PROVE  EnrollmentInv'
      OBVIOUS
    <2> USE DEF EnrollmentInv
    <2>1. EnrollmentTypeOK' /\ RequestsNeedServer' /\ LookedUp' /\ ReadingsArePast'
      BY NextEnrollmentType, NextRequestsNeedServer, NextLookedUp, NextReadingsArePast
    <2>2. AccountsMatchInvites' /\ OutstandingWithinCap' /\ MintersHaveAccounts'
      BY NextAccountsMatchInvites, NextOutstandingWithinCap, NextMintersHaveAccounts
    <2>3. FoundedByOne' /\ AdminAlone'
      BY NextFoundedByOne, NextAdminAlone
    <2> QED
      BY <2>1, <2>2, <2>3
  <1> QED
    BY <1>1, <1>2, PTL DEF Spec

(* RegisterClientApp is all or nothing: every account has consumed exactly *)
(* one invite, a registration invite that had not expired at created_at,   *)
(* and every consumed invite has its account.                              *)
THEOREM InvitesAdmitOneEach == Spec => []EachInviteAdmitsOne
  <1>1. EnrollmentInv => EachInviteAdmitsOne
    BY MatchingAdmitsOne DEF EnrollmentInv
  <1> QED
    BY <1>1, EnrollmentInvHolds, PTL

(* IssueInviteBy keeps every user within maxOutstandingClientAppInvites,   *)
(* however many requests count at once and however old their clock readings*)
(* are.                                                                    *)
THEOREM OutstandingStaysWithinCap == Spec => []OutstandingWithinCap
  <1>1. EnrollmentInv => OutstandingWithinCap
    BY DEF EnrollmentInv
  <1> QED
    BY <1>1, EnrollmentInvHolds, PTL

(* Under admin-only, on a server founded through its own bootstrap invite, *)
(* every invite minted through the API is the founding administrator's, and*)
(* no enrollment that commits late takes the role over.                    *)
THEOREM AdminAloneMints == Spec => []AdminMintsAlone
  <1>1. EnrollmentInv => AdminMintsAlone
    BY DEF EnrollmentInv, AdminAlone, AdminMintsAlone
  <1> QED
    BY <1>1, EnrollmentInvHolds, PTL
=============================================================================
