-------------------------- MODULE LifecycleProofs --------------------------
(***************************************************************************)
(* Proofs about Store, IdentityCA and their composition Lifecycle, for     *)
(* every number of processes that open the store or load the CA, and every *)
(* collection of builds.                                                   *)
(***************************************************************************)
EXTENDS Lifecycle, TLAPS

-----------------------------------------------------------------------------
(* Commits and the versions they applied.                                  *)

(* The versions that the first n commits of s applied.                     *)
Versions(s, n) ==
    {s[j].of : j \in {k \in 1..n : s[k].kind = "migration"}}

(* What a commit adds to the versions applied.                             *)
VersionsOf(c) == IF c.kind = "migration" THEN {c.of} ELSE {}

(* Appending a commit changes the versions of no earlier prefix.           *)
LEMMA VersionsOfAppend ==
  ASSUME NEW s \in Seq(Commit), NEW c \in Commit
  PROVE  /\ Append(s, c) \in Seq(Commit)
         /\ Len(Append(s, c)) = Len(s) + 1
         /\ \A n \in 0..Len(s) : Versions(Append(s, c), n) = Versions(s, n)
         /\ Versions(Append(s, c), Len(s) + 1) = Versions(s, Len(s)) \cup VersionsOf(c)
  <1>1. PICK t : t = Append(s, c)
    OBVIOUS
  <1>2. /\ t \in Seq(Commit)
        /\ Len(t) = Len(s) + 1
        /\ \A i \in 1..Len(s) : t[i] = s[i]
        /\ t[Len(s) + 1] = c
    BY <1>1
  <1>3. \A n \in 0..Len(s) : Versions(t, n) = Versions(s, n)
    BY <1>2 DEF Versions
  <1>4. Versions(t, Len(s) + 1) = Versions(s, Len(s)) \cup VersionsOf(c)
    BY <1>2 DEF Versions, VersionsOf
  <1> QED
    BY <1>1, <1>2, <1>3, <1>4

(* Nor does cutting off later commits.                                     *)
LEMMA VersionsOfPrefix ==
  ASSUME NEW s \in Seq(Commit), NEW m \in 0..Len(s)
  PROVE  /\ SubSeq(s, 1, m) \in Seq(Commit)
         /\ Len(SubSeq(s, 1, m)) = m
         /\ \A i \in 1..m : SubSeq(s, 1, m)[i] = s[i]
         /\ \A n \in 0..m : Versions(SubSeq(s, 1, m), n) = Versions(s, n)
  <1>1. PICK t : t = SubSeq(s, 1, m)
    OBVIOUS
  <1>2. t \in Seq(Commit) /\ Len(t) = m /\ \A i \in 1..m : t[i] = s[i]
    BY <1>1
  <1>3. \A n \in 0..m : Versions(t, n) = Versions(s, n)
    BY <1>2 DEF Versions
  <1> QED
    BY <1>1, <1>2, <1>3

(* The rows of schema_migrations are what all the commits applied.         *)
LEMMA VersionsOfAll ==
  ASSUME NEW s \in Seq(Commit)
  PROVE  {c.of : c \in {d \in Range(s) : d.kind = "migration"}} = Versions(s, Len(s))
  BY DEF Versions, Range

(* The largest of an initial stretch of the naturals.                      *)
LEMMA MaxOfInitial ==
  ASSUME NEW n \in Nat
  PROVE  Max(1..n \cup {0}) = n
  <1>1. /\ n \in 1..n \cup {0}
        /\ \A y \in 1..n \cup {0} : n >= y
        /\ \A x \in 1..n \cup {0} : (\A y \in 1..n \cup {0} : x >= y) => x = n
    OBVIOUS
  <1> QED
    BY <1>1 DEF Max

(* The two claims about the versions, of a sequence of commits.            *)
Gapless(s) ==
    \A i \in 1..Len(s) :
        s[i].kind = "migration" => Versions(s, i - 1) = 1..(s[i].of - 1)

Initial(s) ==
    \A n \in 0..Len(s) : \E v \in 0..n : Versions(s, n) = 1..v

(* c applies no version, or the one after those of s.                      *)
Continues(s, c) ==
    c.kind = "migration" =>
        /\ c.of \notin Versions(s, Len(s))
        /\ 1..(c.of - 1) \subseteq Versions(s, Len(s))

(* A version that is applied only after all below it keeps the schema that *)
(* of a build.                                                             *)
LEMMA GaplessAppend ==
  ASSUME NEW s \in Seq(Commit), NEW c \in Commit, Gapless(s), Initial(s), Continues(s, c)
  PROVE  Gapless(Append(s, c)) /\ Initial(Append(s, c))
  <1>0. PICK t \in Seq(Commit) :
          /\ t = Append(s, c) /\ Len(t) = Len(s) + 1
          /\ \A n \in 0..Len(s) : Versions(t, n) = Versions(s, n)
          /\ Versions(t, Len(s) + 1) = Versions(s, Len(s)) \cup VersionsOf(c)
    BY VersionsOfAppend
  <1>1. (\A i \in 1..Len(s) : t[i] = s[i]) /\ t[Len(s) + 1] = c
    BY <1>0
  <1>2. PICK v \in 0..Len(s) : Versions(s, Len(s)) = 1..v
    BY DEF Initial
  <1>3. ASSUME c.kind = "migration"
        PROVE  c.of = v + 1
    <2>1. PICK k \in Nat \ {0} : k = c.of
      BY DEF Commit
    <2>2. k \notin 1..v /\ 1..(k - 1) \subseteq 1..v
      BY <1>2, <1>3, <2>1 DEF Continues
    <2>3. v + 1 \notin 1..(k - 1)
      BY <2>2
    <2> QED
      BY <2>1, <2>2, <2>3
  <1>4. Gapless(t)
    <2>1. ASSUME NEW i \in 1..Len(t), t[i].kind = "migration"
          PROVE  Versions(t, i - 1) = 1..(t[i].of - 1)
      <3>1. CASE i \in 1..Len(s)
        BY <1>0, <1>1, <2>1, <3>1 DEF Gapless
      <3>2. CASE i = Len(s) + 1
        BY <1>0, <1>1, <1>2, <1>3, <2>1, <3>2
      <3> QED
        BY <1>0, <3>1, <3>2
    <2> QED
      BY <2>1 DEF Gapless
  <1>5. Initial(t)
    <2>1. Versions(t, Len(s) + 1) = 1..v \/ Versions(t, Len(s) + 1) = 1..(v + 1)
      <3>1. 1..v \cup {v + 1} = 1..(v + 1)
        OBVIOUS
      <3>2. VersionsOf(c) = {} \/ VersionsOf(c) = {v + 1}
        BY <1>3 DEF VersionsOf
      <3> QED
        BY <1>0, <1>2, <3>1, <3>2
    <2>2. ASSUME NEW n \in 0..Len(t)
          PROVE  \E w \in 0..n : Versions(t, n) = 1..w
      <3>1. CASE n \in 0..Len(s)
        BY <1>0, <3>1 DEF Initial
      <3>2. CASE n = Len(s) + 1
        BY <2>1, <3>2
      <3> QED
        BY <1>0, <3>1, <3>2
    <2> QED
      BY <2>2 DEF Initial
  <1> QED
    BY <1>0, <1>4, <1>5

(* Both claims are about prefixes.                                         *)
LEMMA GaplessPrefix ==
  ASSUME NEW s \in Seq(Commit), NEW m \in 0..Len(s), Gapless(s), Initial(s)
  PROVE  Gapless(SubSeq(s, 1, m)) /\ Initial(SubSeq(s, 1, m))
  <1>1. PICK t \in Seq(Commit) :
          /\ t = SubSeq(s, 1, m) /\ Len(t) = m
          /\ \A i \in 1..m : t[i] = s[i]
          /\ \A n \in 0..m : Versions(t, n) = Versions(s, n)
    BY VersionsOfPrefix
  <1>2. Gapless(t) /\ Initial(t)
    BY <1>1 DEF Gapless, Initial
  <1> QED
    BY <1>1, <1>2

-----------------------------------------------------------------------------
(* The store: what a step of a process does to it.                         *)

(* The invariant in terms of the sequence of commits.                      *)
LEMMA StoreFacts ==
  ASSUME StoreInv
  PROVE  /\ commits \in Seq(Commit)
         /\ Gapless(commits) /\ Initial(commits)
         /\ Applied = Versions(commits, Len(commits))
         /\ \E n \in Nat : Applied = 1..n /\ LatestMigration = n
  <1>1. commits \in Seq(Commit)
    BY DEF StoreInv, StoreTypeOK
  <1>2. Gapless(commits)
    BY <1>1 DEF StoreInv, MigrationsAreGapless, AppliedBefore, Gapless, Versions
  <1>3. Initial(commits)
    <2>1. ASSUME NEW n \in 0..Len(commits)
          PROVE  \E v \in 0..n : Versions(commits, n) = 1..v
      <3>1. PICK i \in 1..(Len(commits) + 1) : i - 1 = n
        BY <1>1, <2>1
      <3> QED
        BY <3>1 DEF StoreInv, AppliedIsInitial, AppliedBefore, Versions
    <2> QED
      BY <2>1 DEF Initial
  <1>4. Applied = Versions(commits, Len(commits))
    BY <1>1, VersionsOfAll DEF Applied
  <1>5. PICK n \in Nat : Applied = 1..n
    BY <1>1, <1>3, <1>4 DEF Initial
  <1>6. LatestMigration = n
    BY <1>5, MaxOfInitial DEF LatestMigration
  <1> QED
    BY <1>1, <1>2, <1>3, <1>4, <1>5, <1>6

(* The commits a step of a process may leave.                              *)
CommitsMove ==
    \/ commits' = commits
    \/ \E c \in Commit : commits' = Append(commits, c) /\ Continues(commits, c)

(* Nothing is taken back by a step, and the schema stays that of a build.  *)
LEMMA CommitsGrow ==
  ASSUME StoreInv, CommitsMove
  PROVE  /\ commits' \in Seq(Commit)
         /\ MigrationsAreGapless' /\ AppliedIsInitial'
         /\ Applied \subseteq Applied'
         /\ LatestMigration \in Nat /\ LatestMigration' \in Nat
         /\ LatestMigration' >= LatestMigration
         /\ \A c : Contains(commits, c) => Contains(commits', c)
  <1>1. PICK s \in Seq(Commit) :
          /\ s = commits /\ Gapless(s) /\ Initial(s)
          /\ Applied = Versions(s, Len(s))
    BY StoreFacts
  <1>2. PICK t \in Seq(Commit) :
          /\ t = commits' /\ Gapless(t) /\ Initial(t)
          /\ Versions(s, Len(s)) \subseteq Versions(t, Len(t))
          /\ \A c : Contains(s, c) => Contains(t, c)
    <2>1. CASE commits' = commits
      BY <1>1, <2>1
    <2>2. ASSUME NEW c \in Commit, commits' = Append(commits, c), Continues(commits, c)
          PROVE  \E t \in Seq(Commit) :
                   /\ t = commits' /\ Gapless(t) /\ Initial(t)
                   /\ Versions(s, Len(s)) \subseteq Versions(t, Len(t))
                   /\ \A d : Contains(s, d) => Contains(t, d)
      <3>1. PICK t \in Seq(Commit) : t = Append(s, c) /\ Len(t) = Len(s) + 1
        BY VersionsOfAppend
      <3>2. Gapless(t) /\ Initial(t)
        BY <1>1, <2>2, <3>1, GaplessAppend
      <3>3. Versions(s, Len(s)) \subseteq Versions(t, Len(t))
        BY <3>1, VersionsOfAppend
      <3>4. \A d : Contains(s, d) => Contains(t, d)
        BY <3>1 DEF Contains
      <3> QED
        BY <1>1, <2>2, <3>1, <3>2, <3>3, <3>4
    <2> QED
      BY <2>1, <2>2 DEF CommitsMove
  <1>3. MigrationsAreGapless'
    BY <1>2 DEF MigrationsAreGapless, AppliedBefore, Gapless, Versions
  <1>4. AppliedIsInitial'
    <2>1. ASSUME NEW i \in 1..(Len(t) + 1)
          PROVE  \E n \in 0..(i - 1) : AppliedBefore(i)' = 1..n
      <3>1. i - 1 \in 0..Len(t)
        BY <2>1
      <3>2. AppliedBefore(i)' = Versions(t, i - 1)
        BY <1>2 DEF AppliedBefore, Versions
      <3> QED
        BY <1>2, <3>1, <3>2 DEF Initial
    <2> QED
      BY <1>2, <2>1 DEF AppliedIsInitial
  <1>5. Applied' = Versions(t, Len(t))
    BY <1>2, VersionsOfAll DEF Applied
  <1>6. /\ LatestMigration \in Nat /\ LatestMigration' \in Nat
        /\ LatestMigration' >= LatestMigration
    <2>1. PICK n \in Nat : Applied = 1..n /\ LatestMigration = n
      BY StoreFacts
    <2>2. PICK m \in Nat : Applied' = 1..m
      BY <1>2, <1>5 DEF Initial
    <2>3. LatestMigration' = m
      BY <2>2, MaxOfInitial DEF LatestMigration
    <2>4. 1..n \subseteq 1..m
      BY <1>1, <1>2, <1>5, <2>1, <2>2
    <2>5. n = 0 \/ n \in 1..m
      BY <2>4
    <2> QED
      BY <2>1, <2>3, <2>5
  <1> QED
    BY <1>1, <1>2, <1>3, <1>4, <1>5, <1>6

(* A build has a number of migrations, and a closed process has none.      *)
LEMMA BinaryIsNat == \A b \in Binaries \cup {0} : b \in Nat
  <1>1. \A b \in Binaries : b \in Nat
    BY BinariesAssumption
  <1>2. 0 \in Nat
    OBVIOUS
  <1> QED
    BY <1>1, <1>2, Zenon

(* A process moves to a row that its loop has earned.                      *)
LEMMA OpenerMoves ==
  ASSUME StoreInv, CommitsMove, NEW p \in Openers,
         NEW o \in Opener, opener' = [opener EXCEPT ![p] = o],
         o.pc = "down" => o = Closed,
         o.pc \in {"opening", "checking", "applying"} =>
           o.at \in 1..o.binary /\ 1..(o.at - 1) \subseteq Applied',
         o.pc \in {"open", "ready"} => 1..o.binary \subseteq Applied' /\ o.binary # 0,
         o.pc = "ready" => Contains(commits', PolicySnapshot(o.binary)),
         o.pc # "failed" => o.why = "none",
         o.why = "future" => LatestMigration' > o.binary,
         o.why = "race" => 1..o.at \subseteq Applied'
  PROVE  StoreInv'
  <1>0. opener \in [Openers -> Opener] /\ opener' \in [Openers -> Opener]
    BY DEF StoreInv, StoreTypeOK
  <1>1. StoreTypeOK'
    BY <1>0, CommitsGrow DEF StoreTypeOK
  <1>2. ASSUME NEW q \in Openers
        PROVE  LoopHasPassed(q)' /\ FailureIsExplained(q)'
    <2>1. CASE q = p
      <3>1. opener'[q] = o
        BY <1>0, <2>1
      <3> QED
        BY <3>1 DEF LoopHasPassed, FailureIsExplained
    <2>2. CASE q # p
      <3>1. opener'[q] = opener[q]
        BY <1>0, <2>2
      <3>2. opener[q].binary \in Nat
        <4>1. opener[q] \in Opener
          BY <1>0
        <4>2. opener[q].binary \in Binaries \cup {0}
          BY <4>1 DEF Opener
        <4> QED
          BY <4>2, BinaryIsNat
      <3>3. LoopHasPassed(q) /\ FailureIsExplained(q)
        BY DEF StoreInv
      <3>4. LoopHasPassed(q)'
        BY <3>1, <3>3, CommitsGrow DEF LoopHasPassed
      <3>5. FailureIsExplained(q)'
        BY <3>1, <3>2, <3>3, CommitsGrow DEF FailureIsExplained
      <3> QED
        BY <3>4, <3>5
    <2> QED
      BY <2>1, <2>2
  <1> QED
    BY <1>1, <1>2, CommitsGrow DEF StoreInv

(* The fields of a process, and what its loop has passed.                  *)
LEMMA OpenerFields ==
  ASSUME StoreInv, NEW p \in Openers
  PROVE  /\ opener \in [Openers -> Opener]
         /\ opener[p] \in Opener
         /\ opener[p].binary \in Binaries \cup {0} /\ opener[p].binary \in Nat
         /\ opener[p].at \in Nat
         /\ LoopHasPassed(p)
  <1>1. opener \in [Openers -> Opener] /\ opener[p] \in Opener
    BY DEF StoreInv, StoreTypeOK
  <1>2. opener[p].binary \in Binaries \cup {0} /\ opener[p].at \in Nat
    BY <1>1 DEF Opener
  <1>3. opener[p].binary \in Nat
    BY <1>2, BinaryIsNat
  <1> QED
    BY <1>1, <1>2, <1>3 DEF StoreInv

(* Open begins with the first migration.                                   *)
LEMMA OpenStep ==
  ASSUME StoreInv, NEW p \in Openers, NEW b \in Binaries, Open(p, b)
  PROVE  StoreInv'
  <1>1. PICK o : o = [pc |-> "opening", binary |-> b, at |-> 1, why |-> "none"]
    OBVIOUS
  <1>2. b \in Nat \ {0} /\ b \in Binaries \cup {0}
    BY BinariesAssumption
  <1>3. o \in Opener
    BY <1>1, <1>2 DEF Opener, OpenerStates, Reasons
  <1>4. o.pc = "opening" /\ o.binary = b /\ o.at = 1 /\ o.why = "none"
    BY <1>1
  <1>5. 1 \in 1..b /\ 1..(1 - 1) = {}
    BY <1>2
  <1>6. opener' = [opener EXCEPT ![p] = o] /\ CommitsMove
    BY <1>1 DEF Open, CommitsMove
  <1>7. o.at \in 1..o.binary /\ 1..(o.at - 1) \subseteq Applied'
    BY <1>4, <1>5
  <1> QED
    BY <1>3, <1>4, <1>6, <1>7, OpenerMoves

(* LeaveStore forgets a process and nothing else.                          *)
LEMMA LeaveStoreStep ==
  ASSUME StoreInv, NEW p \in Openers, LeaveStore(p)
  PROVE  StoreInv'
  <1>1. PICK o : o = Closed
    OBVIOUS
  <1>2. o \in Opener /\ o.pc = "down" /\ o.why = "none"
    BY <1>1 DEF Opener, Closed, OpenerStates, Reasons
  <1>3. opener' = [opener EXCEPT ![p] = o] /\ CommitsMove
    BY <1>1 DEF LeaveStore, CommitsMove
  <1> QED
    BY <1>1, <1>2, <1>3, OpenerMoves

(* The check before the loop refuses for a newer database, or begins.      *)
LEMMA RejectFutureMigrationStep ==
  ASSUME StoreInv, NEW p \in Openers, RejectFutureMigration(p)
  PROVE  StoreInv'
  <1>0. opener[p].pc = "opening" /\ CommitsMove /\ Applied' = Applied
        /\ LatestMigration' = LatestMigration
    BY DEF RejectFutureMigration, CommitsMove, Applied, LatestMigration
  <1>1. CASE LatestMigration > opener[p].binary
    <2>1. PICK o : o = [opener[p] EXCEPT !.pc = "failed", !.why = "future"]
      OBVIOUS
    <2>2. /\ o \in Opener
          /\ o.pc = "failed" /\ o.why = "future"
          /\ o.binary = opener[p].binary
      BY <2>1, OpenerFields DEF Opener, OpenerStates, Reasons
    <2>3. opener' = [opener EXCEPT ![p] = o]
      BY <1>1, <2>1, OpenerFields DEF RejectFutureMigration, FailOpen
    <2> QED
      BY <1>0, <1>1, <2>2, <2>3, OpenerMoves
  <1>2. CASE ~(LatestMigration > opener[p].binary)
    <2>1. PICK o : o = [opener[p] EXCEPT !.pc = "checking"]
      OBVIOUS
    <2>2. /\ o \in Opener
          /\ o.pc = "checking" /\ o.why = opener[p].why
          /\ o.binary = opener[p].binary /\ o.at = opener[p].at
      BY <2>1, OpenerFields DEF Opener, OpenerStates
    <2>3. opener' = [opener EXCEPT ![p] = o]
      BY <1>2, <2>1, OpenerFields DEF RejectFutureMigration
    <2>4. /\ o.at \in 1..o.binary /\ 1..(o.at - 1) \subseteq Applied'
          /\ o.why = "none"
      BY <1>0, <2>2, OpenerFields DEF LoopHasPassed
    <2> QED
      BY <1>0, <2>2, <2>3, <2>4, OpenerMoves
  <1> QED
    BY <1>1, <1>2

(* The loop goes on, or ends, once its version is applied.                 *)
LEMMA NextMigrationStep ==
  ASSUME StoreInv, NEW p \in Openers, CommitsMove, NextMigration(p),
         opener[p].pc \in {"checking", "applying"}, opener[p].at \in Applied'
  PROVE  StoreInv'
  <1>0. /\ opener[p].at \in 1..opener[p].binary /\ opener[p].why = "none"
        /\ 1..(opener[p].at - 1) \subseteq Applied'
    BY OpenerFields, CommitsGrow DEF LoopHasPassed
  <1>1. 1..opener[p].at \subseteq Applied'
    <2>1. 1..opener[p].at = 1..(opener[p].at - 1) \cup {opener[p].at}
      BY <1>0, OpenerFields
    <2> QED
      BY <1>0, <2>1
  <1>2. CASE opener[p].at >= opener[p].binary
    <2>1. PICK o : o = [opener[p] EXCEPT !.pc = "open"]
      OBVIOUS
    <2>2. /\ o \in Opener
          /\ o.pc = "open" /\ o.why = opener[p].why
          /\ o.binary = opener[p].binary /\ o.at = opener[p].at
      BY <2>1, OpenerFields DEF Opener, OpenerStates
    <2>3. opener' = [opener EXCEPT ![p] = o]
      BY <1>2, <2>1, OpenerFields DEF NextMigration
    <2>4. opener[p].at = opener[p].binary /\ opener[p].binary # 0
      BY <1>0, <1>2, OpenerFields
    <2> QED
      BY <1>0, <1>1, <2>2, <2>3, <2>4, OpenerMoves
  <1>3. CASE ~(opener[p].at >= opener[p].binary)
    <2>0. PICK n \in Nat : n = opener[p].at + 1
      BY OpenerFields
    <2>1. PICK o : o = [opener[p] EXCEPT !.pc = "checking", !.at = n]
      OBVIOUS
    <2>2. /\ o \in Opener
          /\ o.pc = "checking" /\ o.why = opener[p].why
          /\ o.binary = opener[p].binary /\ o.at = n
      BY <2>1, OpenerFields DEF Opener, OpenerStates
    <2>3. opener' = [opener EXCEPT ![p] = o]
      BY <1>3, <2>0, <2>1, OpenerFields DEF NextMigration, Opener
    <2>4. n \in 1..opener[p].binary /\ n - 1 = opener[p].at
      BY <1>0, <1>3, <2>0, OpenerFields
    <2> QED
      BY <1>0, <1>1, <2>2, <2>3, <2>4, OpenerMoves
  <1> QED
    BY <1>2, <1>3

(* migrationApplied looks the version up.                                  *)
LEMMA MigrationAppliedStep ==
  ASSUME StoreInv, NEW p \in Openers, MigrationApplied(p)
  PROVE  StoreInv'
  <1>0. opener[p].pc = "checking" /\ CommitsMove /\ Applied' = Applied
    BY DEF MigrationApplied, CommitsMove, Applied
  <1>1. CASE opener[p].at \in Applied
    BY <1>0, <1>1, NextMigrationStep DEF MigrationApplied
  <1>2. CASE opener[p].at \notin Applied
    <2>1. PICK o : o = [opener[p] EXCEPT !.pc = "applying"]
      OBVIOUS
    <2>2. /\ o \in Opener
          /\ o.pc = "applying" /\ o.why = opener[p].why
          /\ o.binary = opener[p].binary /\ o.at = opener[p].at
      BY <2>1, OpenerFields DEF Opener, OpenerStates
    <2>3. opener' = [opener EXCEPT ![p] = o]
      BY <1>2, <2>1, OpenerFields DEF MigrationApplied
    <2>4. /\ o.at \in 1..o.binary /\ 1..(o.at - 1) \subseteq Applied'
          /\ o.why = "none"
      BY <1>0, <2>2, OpenerFields DEF LoopHasPassed
    <2> QED
      BY <1>0, <2>2, <2>3, <2>4, OpenerMoves
  <1> QED
    BY <1>1, <1>2

(* applyMigration commits the version its loop is at, or finds it applied  *)
(* by another process.                                                     *)
LEMMA ApplyMigrationStep ==
  ASSUME StoreInv, NEW p \in Openers, ApplyMigration(p)
  PROVE  StoreInv'
  <1>0. /\ opener[p].pc = "applying" /\ opener[p].at \in 1..opener[p].binary
        /\ 1..(opener[p].at - 1) \subseteq Applied
    BY OpenerFields DEF ApplyMigration, LoopHasPassed
  <1>1. CASE opener[p].at \in Applied
    <2>1. PICK o : o = [opener[p] EXCEPT !.pc = "failed", !.why = "race"]
      OBVIOUS
    <2>2. /\ o \in Opener
          /\ o.pc = "failed" /\ o.why = "race" /\ o.at = opener[p].at
      BY <2>1, OpenerFields DEF Opener, OpenerStates, Reasons
    <2>3. opener' = [opener EXCEPT ![p] = o]
      BY <1>1, <2>1, OpenerFields DEF ApplyMigration, FailOpen
    <2>4. CommitsMove /\ Applied' = Applied
      BY <1>1 DEF ApplyMigration, CommitsMove, Applied
    <2>5. 1..opener[p].at = 1..(opener[p].at - 1) \cup {opener[p].at}
      BY <1>0, OpenerFields
    <2>6. 1..o.at \subseteq Applied'
      BY <1>0, <1>1, <2>2, <2>4, <2>5
    <2> QED
      BY <2>2, <2>3, <2>4, <2>6, OpenerMoves
  <1>2. CASE opener[p].at \notin Applied
    <2>1. PICK c \in Commit : /\ c = Migration(opener[p].at)
                              /\ c.kind = "migration" /\ c.of = opener[p].at
      <3>1. opener[p].at \in Nat \ {0}
        BY <1>0, OpenerFields
      <3>2. PICK n \in Nat \ {0} : n = opener[p].at
        BY <3>1
      <3>3. PICK d : d = [kind |-> "migration", of |-> n]
        OBVIOUS
      <3>4. d \in Commit /\ d.kind = "migration" /\ d.of = n
        BY <3>3 DEF Commit
      <3> QED
        BY <3>2, <3>3, <3>4 DEF Migration
    <2>2. commits' = Append(commits, c) /\ NextMigration(p)
      BY <1>2, <2>1 DEF ApplyMigration
    <2>3. Continues(commits, c)
      BY <1>0, <1>2, <2>1, StoreFacts DEF Continues
    <2>4. CommitsMove
      BY <2>2, <2>3 DEF CommitsMove
    <2>5. opener[p].at \in Applied'
      <3>1. commits' \in Seq(Commit)
        BY <2>4, CommitsGrow
      <3>2. c \in Range(commits')
        BY <2>2, StoreFacts DEF Range
      <3> QED
        BY <2>1, <3>2 DEF Applied
    <2> QED
      BY <1>0, <2>2, <2>4, <2>5, NextMigrationStep
  <1> QED
    BY <1>1, <1>2

(* INSERT OR IGNORE leaves the snapshot of the build on file.              *)
LEMMA EnsureServerPolicySnapshotStep ==
  ASSUME StoreInv, NEW p \in Openers, EnsureServerPolicySnapshot(p)
  PROVE  StoreInv'
  <1>0. /\ opener[p].pc = "open" /\ opener[p].binary # 0 /\ opener[p].why = "none"
        /\ 1..opener[p].binary \subseteq Applied
    BY OpenerFields DEF EnsureServerPolicySnapshot, LoopHasPassed
  <1>1. PICK c \in Commit : c = PolicySnapshot(opener[p].binary) /\ c.kind = "policy"
    <2>1. opener[p].binary \in Nat \ {0}
      BY <1>0, OpenerFields
    <2>2. PICK n \in Nat \ {0} : n = opener[p].binary
      BY <2>1
    <2>3. PICK d : d = [kind |-> "policy", of |-> n]
      OBVIOUS
    <2>4. d \in Commit /\ d.kind = "policy"
      BY <2>3 DEF Commit
    <2> QED
      BY <2>2, <2>3, <2>4 DEF PolicySnapshot
  <1>2. commits' = IF Contains(commits, c) THEN commits ELSE Append(commits, c)
    BY <1>1 DEF EnsureServerPolicySnapshot
  <1>3. CommitsMove
    BY <1>1, <1>2 DEF CommitsMove, Continues
  <1>4. Contains(commits', c)
    <2>1. CASE Contains(commits, c)
      BY <1>2, <2>1
    <2>2. CASE commits' = Append(commits, c)
      BY <2>2, StoreFacts DEF Contains
    <2> QED
      BY <1>2, <2>1, <2>2
  <1>5. PICK o : o = [opener[p] EXCEPT !.pc = "ready"]
    OBVIOUS
  <1>6. /\ o \in Opener
        /\ o.pc = "ready" /\ o.why = opener[p].why /\ o.binary = opener[p].binary
    BY <1>5, OpenerFields DEF Opener, OpenerStates
  <1>7. opener' = [opener EXCEPT ![p] = o]
    BY <1>5, OpenerFields DEF EnsureServerPolicySnapshot
  <1>8. 1..o.binary \subseteq Applied'
    BY <1>0, <1>3, <1>6, CommitsGrow
  <1> QED
    BY <1>0, <1>1, <1>3, <1>4, <1>6, <1>7, <1>8, OpenerMoves

(* A power loss cuts off commits, and every process with them.             *)
LEMMA StorePowerLossStep ==
  ASSUME StoreInv, StorePowerLoss
  PROVE  StoreInv'
  <1>1. PICK m \in 0..Len(commits) : commits' = SubSeq(commits, 1, m)
    BY DEF StorePowerLoss
  <1>2. PICK t \in Seq(Commit) : t = commits' /\ Gapless(t) /\ Initial(t)
    BY <1>1, StoreFacts, VersionsOfPrefix, GaplessPrefix
  <1>3. MigrationsAreGapless'
    BY <1>2 DEF MigrationsAreGapless, AppliedBefore, Gapless, Versions
  <1>4. AppliedIsInitial'
    <2>1. ASSUME NEW i \in 1..(Len(t) + 1)
          PROVE  \E n \in 0..(i - 1) : AppliedBefore(i)' = 1..n
      <3>1. i - 1 \in 0..Len(t)
        BY <2>1
      <3>2. AppliedBefore(i)' = Versions(t, i - 1)
        BY <1>2 DEF AppliedBefore, Versions
      <3> QED
        BY <1>2, <3>1, <3>2 DEF Initial
    <2> QED
      BY <1>2, <2>1 DEF AppliedIsInitial
  <1>5. opener' = [p \in Openers |-> Closed]
    BY DEF StorePowerLoss
  <1>6. Closed \in Opener /\ Closed.pc = "down" /\ Closed.why = "none"
    BY DEF Closed, Opener, OpenerStates, Reasons
  <1>7. StoreTypeOK'
    BY <1>2, <1>5, <1>6 DEF StoreTypeOK
  <1>8. ASSUME NEW p \in Openers
        PROVE  LoopHasPassed(p)' /\ FailureIsExplained(p)'
    <2>1. opener'[p] = Closed
      BY <1>5
    <2> QED
      BY <1>6, <2>1 DEF LoopHasPassed, FailureIsExplained
  <1> QED
    BY <1>3, <1>4, <1>7, <1>8 DEF StoreInv

(* What does not touch the store.                                          *)
LEMMA StoreUnchanged ==
  ASSUME StoreInv, UNCHANGED storeVars
  PROVE  StoreInv'
  <1>1. commits' = commits /\ opener' = opener
    BY DEF storeVars
  <1>2. Applied' = Applied /\ LatestMigration' = LatestMigration
    BY <1>1 DEF Applied, LatestMigration
  <1>3. StoreTypeOK' /\ MigrationsAreGapless' /\ AppliedIsInitial'
    BY <1>1, CommitsGrow DEF StoreInv, StoreTypeOK, CommitsMove
  <1>4. \A p \in Openers : LoopHasPassed(p)' /\ FailureIsExplained(p)'
    BY <1>1, <1>2 DEF StoreInv, LoopHasPassed, FailureIsExplained
  <1> QED
    BY <1>3, <1>4 DEF StoreInv

(* A store without commits.                                                *)
LEMMA InitStoreInv ==
  ASSUME StoreInit
  PROVE  StoreInv
  <1>1. /\ commits = <<>> /\ commits \in Seq(Commit) /\ Len(commits) = 0
        /\ opener = [p \in Openers |-> Closed]
    BY DEF StoreInit
  <1>2. Closed \in Opener /\ Closed.pc = "down" /\ Closed.why = "none"
    BY DEF Closed, Opener, OpenerStates, Reasons
  <1>3. StoreTypeOK
    BY <1>1, <1>2 DEF StoreTypeOK
  <1>4. MigrationsAreGapless
    BY <1>1 DEF MigrationsAreGapless
  <1>5. AppliedIsInitial
    <2>1. AppliedBefore(1) = 1..0
      BY DEF AppliedBefore
    <2> QED
      BY <1>1, <2>1 DEF AppliedIsInitial
  <1>6. ASSUME NEW p \in Openers
        PROVE  LoopHasPassed(p) /\ FailureIsExplained(p)
    <2>1. opener[p] = Closed
      BY <1>1
    <2> QED
      BY <1>2, <2>1 DEF LoopHasPassed, FailureIsExplained
  <1> QED
    BY <1>3, <1>4, <1>5, <1>6 DEF StoreInv

-----------------------------------------------------------------------------
(* The certificate authority.                                              *)

(* What a reader finds in a sound directory.                               *)
LEMMA DirectoryContents ==
  ASSUME CATypeOK, DirectoryIsSound
  PROVE  /\ entries \in Seq(Entry)
         /\ Exists("key") <=> Len(entries) >= 1
         /\ Exists("cert") <=> Len(entries) = 2
         /\ Exists("key") => Found("key") = entries[1] /\ VisibleKey = entries[1].key
         /\ Exists("cert") => Found("cert") = entries[2]
         /\ synced >= 1 => DurableKey = entries[1].key
  <1>0. entries \in Seq(Entry) /\ Len(entries) \in Nat /\ synced \in 0..Len(entries)
    BY DEF CATypeOK
  <1>1. Len(entries) = 0 => Renames("key") = {} /\ Renames("cert") = {}
    BY <1>0 DEF Renames
  <1>2. Len(entries) = 1 => Renames("key") = {1} /\ Renames("cert") = {}
    BY <1>0 DEF Renames, DirectoryIsSound
  <1>3. Len(entries) = 2 => Renames("key") = {1} /\ Renames("cert") = {2}
    BY <1>0 DEF Renames, DirectoryIsSound
  <1>4. Len(entries) = 0 \/ Len(entries) = 1 \/ Len(entries) = 2
    <2>1. Len(entries) <= 2
      BY DEF DirectoryIsSound
    <2>2. \A n \in Nat : n <= 2 => n = 0 \/ n = 1 \/ n = 2
      OBVIOUS
    <2> QED
      BY <1>0, <2>1, <2>2, Zenon
  <1>5. \A n \in Nat : \A S : S = {n} => (CHOOSE i \in S : \A j \in S : j <= i) = n
    OBVIOUS
  <1>6. Exists("key") <=> Len(entries) >= 1
    BY <1>1, <1>2, <1>3, <1>4 DEF Exists
  <1>7. Exists("cert") <=> Len(entries) = 2
    BY <1>1, <1>2, <1>3, <1>4 DEF Exists
  <1>8. Exists("key") => Renames("key") = {1}
    BY <1>2, <1>3, <1>4, <1>6
  <1>9. Exists("key") => Found("key") = entries[1]
    BY <1>5, <1>8 DEF Found
  <1>10. Exists("cert") => Found("cert") = entries[2]
    BY <1>3, <1>5, <1>7 DEF Found
  <1>11. Exists("key") => VisibleKey = entries[1].key
    BY <1>9 DEF VisibleKey
  <1>12. ASSUME synced >= 1
         PROVE  DurableKey = entries[1].key
    <2>1. {i \in Renames("key") : i <= synced} = {1}
      BY <1>0, <1>6, <1>8, <1>12
    <2> QED
      BY <1>5, <2>1 DEF DurableKey
  <1> QED
    BY <1>0, <1>6, <1>7, <1>9, <1>10, <1>11, <1>12

(* The key on file is the one an fsync of the directory last covered.      *)
LEMMA AnchorIsOnFile ==
  ASSUME CAInv
  PROVE  CreatedKeySurvives
  <1>1. ASSUME anchor # NoKey
        PROVE  VisibleKey = anchor /\ DurableKey = anchor
    <2>1. synced >= 1 /\ entries[1].key = anchor /\ Len(entries) >= 1
      BY <1>1 DEF CAInv, AnchorIsSynced, CATypeOK
    <2> QED
      BY <2>1, DirectoryContents DEF CAInv
  <1> QED
    BY <1>1 DEF CreatedKeySurvives

(* GenerateKey runs only on an empty directory, and finds a key.           *)
LEMMA FreshKeyExists ==
  ASSUME CAInv, entries = <<>>
  PROVE  FreshKey \in Keys
  <1>1. anchor = NoKey
    BY DEF CAInv, AnchorIsSynced, CATypeOK
  <1>2. \E k \in Keys : k \notin {anchor} \cup {entries[i].key : i \in DOMAIN entries}
    BY <1>1, KeysAssumption
  <1> QED
    BY <1>2 DEF FreshKey

(* What a row has to say of a directory.                                   *)
Knows(c, es) ==
    /\ c.why = "none"
    /\ c.pc # "failed"
    /\ c.pc \in {"flush", "rename"} /\ c.file = "key" => es = <<>> /\ c.key \in Keys
    /\ c.pc \in {"flush", "rename"} /\ c.file = "cert" => Len(es) = 1
    /\ c.pc = "rename" => c.flushed
    /\ c.pc = "syncDir" => Len(es) = IF c.file = "key" THEN 1 ELSE 2
    /\ c.pc = "loadCert" => Len(es) >= 1
    /\ c.pc = "ready" => Len(es) = 2
    /\ es # <<>> /\ c.pc \in {"flush", "rename", "syncDir", "loadCert", "ready"} =>
         c.key = es[1].key

(* A process that is alone in the middle moves on, and the directory is as *)
(* it was.                                                                 *)
LEMMA UserMoves ==
  ASSUME CAInv, NEW u \in CAUsers, NEW c \in CAUser, caUser' = [caUser EXCEPT ![u] = c],
         UNCHANGED <<entries, synced, anchor>>, Knows(c, entries),
         c.pc \in CAInTheMiddle =>
           \A v \in CAUsers \ {u} : caUser[v].pc \notin CAInTheMiddle
  PROVE  CAInv'
  <1>0. caUser \in [CAUsers -> CAUser] /\ caUser' \in [CAUsers -> CAUser]
    BY DEF CAInv, CATypeOK
  <1>1. CATypeOK'
    BY <1>0 DEF CAInv, CATypeOK
  <1>2. DirectoryIsSound' /\ AnchorIsSynced'
    BY DEF CAInv, DirectoryIsSound, AnchorIsSynced
  <1>3. caUser'[u] = c /\ \A v \in CAUsers \ {u} : caUser'[v] = caUser[v]
    BY <1>0
  <1>4. OneInTheMiddle'
    BY <1>3 DEF CAInv, OneInTheMiddle
  <1>5. ASSUME NEW v \in CAUsers
        PROVE  UserKnows(v)'
    <2>1. Knows(caUser'[v], entries)
      BY <1>3 DEF CAInv, UserKnows, Knows
    <2> QED
      BY <2>1 DEF UserKnows, Knows
  <1> QED
    BY <1>1, <1>2, <1>4, <1>5 DEF CAInv

(* The row of a process, and what it knows.                                *)
LEMMA UserFields ==
  ASSUME CAInv, NEW u \in CAUsers
  PROVE  /\ caUser \in [CAUsers -> CAUser]
         /\ caUser[u] \in CAUser
         /\ Knows(caUser[u], entries)
         /\ Idle \in CAUser /\ Idle.pc = "idle" /\ Idle.why = "none"
         /\ caUser[u].pc \in CAInTheMiddle =>
              \A v \in CAUsers \ {u} : caUser[v].pc \notin CAInTheMiddle
  <1>1. caUser \in [CAUsers -> CAUser] /\ caUser[u] \in CAUser
    BY DEF CAInv, CATypeOK
  <1>2. Knows(caUser[u], entries)
    BY DEF CAInv, UserKnows, Knows
  <1>3. Idle \in CAUser /\ Idle.pc = "idle" /\ Idle.why = "none"
    BY DEF Idle, CAUser, CAStates
  <1>4. caUser[u].pc \in CAInTheMiddle =>
          \A v \in CAUsers \ {u} : caUser[v].pc \notin CAInTheMiddle
    BY DEF CAInv, OneInTheMiddle
  <1> QED
    BY <1>1, <1>2, <1>3, <1>4

(* LoadOrCreate is entered by one process at a time.                       *)
LEMMA StartCAStep ==
  ASSUME CAInv, NEW u \in CAUsers, StartCA(u)
  PROVE  CAInv'
  <1>1. PICK c : c = [Idle EXCEPT !.pc = "loadKey"]
    OBVIOUS
  <1>2. c \in CAUser /\ c.pc = "loadKey" /\ c.why = "none"
    BY <1>1, UserFields DEF CAUser, CAStates
  <1>3. /\ caUser' = [caUser EXCEPT ![u] = c]
        /\ UNCHANGED <<entries, synced, anchor>>
        /\ \A v \in CAUsers \ {u} : caUser[v].pc \notin CAInTheMiddle
    BY <1>1 DEF StartCA
  <1>4. Knows(c, entries)
    BY <1>2 DEF Knows
  <1> QED
    BY <1>2, <1>3, <1>4, UserMoves

(* A process leaves what it renamed behind.                                *)
LEMMA LeaveCAStep ==
  ASSUME CAInv, NEW u \in CAUsers, LeaveCA(u)
  PROVE  CAInv'
  <1>1. PICK c : c = Idle
    OBVIOUS
  <1>2. c \in CAUser /\ c.pc = "idle" /\ c.why = "none" /\ c.pc \notin CAInTheMiddle
    BY <1>1, UserFields DEF CAInTheMiddle
  <1>3. caUser' = [caUser EXCEPT ![u] = c] /\ UNCHANGED <<entries, synced, anchor>>
    BY <1>1 DEF LeaveCA
  <1>4. Knows(c, entries)
    BY <1>2 DEF Knows
  <1> QED
    BY <1>2, <1>3, <1>4, UserMoves

(* LoadOrGenerate finds the key whole, or none and makes one.              *)
LEMMA LoadKeyStep ==
  ASSUME CAInv, NEW u \in CAUsers, LoadKey(u)
  PROVE  CAInv'
  <1>0. /\ caUser[u].pc = "loadKey" /\ caUser[u].pc \in CAInTheMiddle
        /\ UNCHANGED <<entries, synced, anchor>>
        /\ entries \in Seq(Entry)
    BY DEF LoadKey, CAInTheMiddle, CAInv, CATypeOK
  <1>1. CASE ~Exists("key")
    <2>0. entries = <<>>
      BY <1>0, <1>1, DirectoryContents DEF CAInv
    <2>1. PICK k \in Keys : k = FreshKey
      BY <2>0, FreshKeyExists
    <2>2. PICK c : c = [caUser[u] EXCEPT !.pc = "flush", !.key = k, !.file = "key"]
      OBVIOUS
    <2>3. /\ c \in CAUser /\ c.pc = "flush" /\ c.file = "key" /\ c.key = k
          /\ c.why = caUser[u].why
      BY <2>2, UserFields DEF CAUser, CAStates
    <2>4. caUser' = [caUser EXCEPT ![u] = c]
      BY <1>1, <2>1, <2>2, UserFields DEF LoadKey
    <2>5. Knows(c, entries)
      BY <2>0, <2>3, UserFields DEF Knows
    <2> QED
      BY <1>0, <2>3, <2>4, <2>5, UserFields, UserMoves
  <1>2. CASE Exists("key")
    <2>0. /\ Len(entries) >= 1 /\ Found("key") = entries[1] /\ ~entries[1].torn
          /\ entries[1].key \in Keys
      <3>1. Len(entries) >= 1 /\ Found("key") = entries[1]
        BY <1>2, DirectoryContents DEF CAInv
      <3>2. 1 \in DOMAIN entries /\ entries[1] \in Entry
        BY <1>0, <3>1
      <3> QED
        BY <3>1, <3>2 DEF CAInv, DirectoryIsSound, Entry
    <2>1. PICK k \in Keys : k = entries[1].key
      BY <2>0
    <2>2. PICK c : c = [caUser[u] EXCEPT !.pc = "loadCert", !.key = k]
      OBVIOUS
    <2>3. /\ c \in CAUser /\ c.pc = "loadCert" /\ c.key = k
          /\ c.why = caUser[u].why
      BY <2>2, UserFields DEF CAUser, CAStates
    <2>4. caUser' = [caUser EXCEPT ![u] = c]
      BY <1>2, <2>0, <2>1, <2>2, UserFields DEF LoadKey
    <2>5. Knows(c, entries)
      BY <2>0, <2>1, <2>3, UserFields DEF Knows
    <2> QED
      BY <1>0, <2>3, <2>4, <2>5, UserFields, UserMoves
  <1> QED
    BY <1>1, <1>2

(* The certificate on file is whole and matches the key, or one is made.   *)
LEMMA LoadCertStep ==
  ASSUME CAInv, NEW u \in CAUsers, LoadCert(u)
  PROVE  CAInv'
  <1>0. /\ caUser[u].pc = "loadCert" /\ caUser[u].pc \in CAInTheMiddle
        /\ UNCHANGED <<entries, synced, anchor>>
        /\ entries \in Seq(Entry)
        /\ Len(entries) >= 1 /\ Len(entries) <= 2
        /\ caUser[u].key = entries[1].key
    BY UserFields DEF LoadCert, CAInTheMiddle, CAInv, CATypeOK, DirectoryIsSound, Knows
  <1>1. CASE ~Exists("cert")
    <2>0. Len(entries) = 1
      <3>1. Len(entries) # 2
        BY <1>1, DirectoryContents DEF CAInv
      <3>2. Len(entries) \in Nat
        BY <1>0
      <3>3. \A n \in Nat : n >= 1 /\ n <= 2 /\ n # 2 => n = 1
        OBVIOUS
      <3> QED
        BY <1>0, <3>1, <3>2, <3>3, Zenon
    <2>1. PICK c : c = [caUser[u] EXCEPT !.pc = "flush", !.file = "cert", !.flushed = FALSE]
      OBVIOUS
    <2>2. /\ c \in CAUser /\ c.pc = "flush" /\ c.file = "cert" /\ c.key = caUser[u].key
          /\ c.why = caUser[u].why
      BY <2>1, UserFields DEF CAUser, CAStates
    <2>3. caUser' = [caUser EXCEPT ![u] = c]
      BY <1>1, <2>1, UserFields DEF LoadCert, GenerateSelfSignedCA
    <2>4. Knows(c, entries)
      BY <1>0, <2>0, <2>2, UserFields DEF Knows
    <2> QED
      BY <1>0, <2>2, <2>3, <2>4, UserFields, UserMoves
  <1>2. CASE Exists("cert")
    <2>0. /\ Len(entries) = 2 /\ Found("cert") = entries[2] /\ ~entries[2].torn
          /\ entries[2].key = entries[1].key
      BY <1>0, <1>2, DirectoryContents DEF CAInv, DirectoryIsSound
    <2>1. PICK k \in Keys \cup {NoKey} : k = caUser[u].key
      BY UserFields DEF CAUser
    <2>2. PICK c : c = [Idle EXCEPT !.pc = "ready", !.key = k]
      OBVIOUS
    <2>3. c \in CAUser /\ c.pc = "ready" /\ c.key = k /\ c.why = "none"
      BY <2>2, UserFields DEF CAUser, CAStates
    <2>4. caUser' = [caUser EXCEPT ![u] = c]
      BY <1>0, <1>2, <2>0, <2>1, <2>2 DEF LoadCert, CAReady
    <2>5. Knows(c, entries)
      BY <1>0, <2>0, <2>1, <2>3 DEF Knows
    <2>6. c.pc \notin CAInTheMiddle
      BY <2>3 DEF CAInTheMiddle
    <2> QED
      BY <1>0, <2>3, <2>4, <2>5, <2>6, UserMoves
  <1> QED
    BY <1>1, <1>2

(* The temporary file is flushed before it is renamed.                     *)
LEMMA SyncFileStep ==
  ASSUME CAInv, NEW u \in CAUsers, SyncFile(u)
  PROVE  CAInv'
  <1>0. /\ caUser[u].pc = "flush" /\ caUser[u].pc \in CAInTheMiddle
        /\ UNCHANGED <<entries, synced, anchor>>
    BY DEF SyncFile, CAInTheMiddle
  <1>1. PICK c : c = [caUser[u] EXCEPT !.pc = "rename", !.flushed = TRUE]
    OBVIOUS
  <1>2. /\ c \in CAUser /\ c.pc = "rename" /\ c.file = caUser[u].file
        /\ c.key = caUser[u].key /\ c.why = caUser[u].why
    BY <1>1, UserFields DEF CAUser, CAStates
  <1>3. c.flushed
    BY <1>1, UserFields DEF CAUser
  <1>4. caUser' = [caUser EXCEPT ![u] = c]
    BY <1>1, UserFields DEF SyncFile
  <1>5. Knows(c, entries)
    BY <1>0, <1>2, <1>3, UserFields DEF Knows
  <1> QED
    BY <1>0, <1>2, <1>4, <1>5, UserFields, UserMoves

(* A rename puts the key into an empty directory, or its certificate beside*)
(* the key; no other process has the CA yet.                               *)
LEMMA RenameStep ==
  ASSUME CAInv, NEW u \in CAUsers, Rename(u)
  PROVE  CAInv'
  <1>0. /\ caUser[u].pc = "rename" /\ caUser[u].pc \in CAInTheMiddle
        /\ synced' = synced /\ anchor' = anchor
        /\ entries \in Seq(Entry) /\ synced \in 0..Len(entries)
        /\ anchor \in Keys \cup {NoKey}
    BY DEF Rename, CAInTheMiddle, CAInv, CATypeOK
  <1>1. caUser[u] \in CAUser /\ caUser[u].flushed /\ caUser[u].file \in {"key", "cert"}
    BY <1>0, UserFields DEF CAUser, Knows
  <1>2. PICK k \in Keys :
          /\ k = caUser[u].key
          /\ \/ caUser[u].file = "key" /\ entries = <<>>
             \/ caUser[u].file = "cert" /\ Len(entries) = 1 /\ k = entries[1].key
    <2>1. CASE caUser[u].file = "key"
      BY <1>0, <2>1, UserFields DEF Knows
    <2>2. CASE caUser[u].file = "cert"
      <3>1. Len(entries) = 1 /\ caUser[u].key = entries[1].key
        BY <1>0, <2>2, UserFields DEF Knows
      <3>2. entries[1] \in Entry
        <4>1. 1 \in 1..Len(entries)
          BY <3>1
        <4> QED
          BY <1>0, <4>1
      <3>3. caUser[u].key \in Keys
        BY <3>1, <3>2 DEF Entry
      <3> QED
        BY <2>2, <3>1, <3>3
    <2> QED
      BY <1>1, <2>1, <2>2
  <1>3. PICK e : e = [file |-> caUser[u].file, key |-> caUser[u].key,
                      flushed |-> caUser[u].flushed, torn |-> FALSE]
    OBVIOUS
  <1>4. e \in Entry /\ e.file = caUser[u].file /\ e.key = k
    BY <1>1, <1>2, <1>3 DEF Entry, CAUser
  <1>5. e.flushed /\ ~e.torn
    <2>1. e.flushed = caUser[u].flushed /\ e.torn = FALSE
      BY <1>3, Zenon
    <2> QED
      BY <1>1, <2>1
  <1>6. PICK es \in Seq(Entry) : es = entries' /\ es = Append(entries, e)
    <2>1. entries' = Append(entries, e)
      BY <1>3 DEF Rename
    <2>2. Append(entries, e) \in Seq(Entry)
      BY <1>0, <1>4
    <2> QED
      BY <2>1, <2>2, Zenon
  <1>7. /\ Len(es) = Len(entries) + 1
        /\ \A i \in 1..Len(entries) : es[i] = entries[i]
        /\ es[Len(entries) + 1] = e
    BY <1>0, <1>4, <1>6
  <1>8. /\ Len(es) = IF e.file = "key" THEN 1 ELSE 2
        /\ es[1].file = "key" /\ es[1].key = k
        /\ Len(es) = 2 => es[2].file = "cert" /\ es[2].key = k
    <2>1. CASE caUser[u].file = "key" /\ entries = <<>>
      BY <1>4, <1>7, <2>1
    <2>2. CASE caUser[u].file = "cert" /\ Len(entries) = 1 /\ k = entries[1].key
      BY <1>4, <1>7, <2>2 DEF CAInv, DirectoryIsSound
    <2> QED
      BY <1>2, <2>1, <2>2
  <1>9. \A i \in DOMAIN es : es[i].flushed /\ ~es[i].torn
    BY <1>0, <1>5, <1>6, <1>7 DEF CAInv, DirectoryIsSound
  <1>10. DirectoryIsSound'
    BY <1>4, <1>6, <1>8, <1>9 DEF DirectoryIsSound
  <1>11. AnchorIsSynced'
    <2>1. ASSUME anchor # NoKey
          PROVE  synced >= 1 /\ es[1].key = anchor
      <3>1. synced >= 1 /\ entries[1].key = anchor
        BY <2>1 DEF CAInv, AnchorIsSynced
      <3> QED
        BY <1>0, <1>7, <3>1
    <2> QED
      BY <1>0, <1>6, <2>1 DEF AnchorIsSynced
  <1>12. PICK c : c = [caUser[u] EXCEPT !.pc = "syncDir"]
    OBVIOUS
  <1>13. /\ c \in CAUser /\ c.pc = "syncDir" /\ c.file = caUser[u].file
         /\ c.key = caUser[u].key /\ c.why = caUser[u].why
    BY <1>12, UserFields DEF CAUser, CAStates
  <1>14. /\ caUser' \in [CAUsers -> CAUser] /\ caUser'[u] = c
         /\ \A v \in CAUsers \ {u} : caUser'[v] = caUser[v]
    BY <1>12, <1>13, UserFields DEF Rename
  <1>15. CATypeOK'
    BY <1>0, <1>6, <1>7, <1>14 DEF CATypeOK
  <1>16. OneInTheMiddle'
    BY <1>0, <1>14, UserFields DEF OneInTheMiddle
  <1>17. ASSUME NEW v \in CAUsers
         PROVE  UserKnows(v)'
    <2>1. CASE v = u
      <3>1. Knows(c, es)
        BY <1>0, <1>2, <1>4, <1>8, <1>13, UserFields DEF Knows
      <3> QED
        BY <1>6, <1>14, <2>1, <3>1 DEF UserKnows, Knows
    <2>2. CASE v # u
      <3>1. Len(entries) # 2
        BY <1>2
      <3>2. Knows(caUser[v], entries) /\ caUser[v].pc \in CAStates
        BY UserFields DEF CAUser
      <3>3. caUser[v].pc = "idle" /\ caUser[v].why = "none"
        BY <1>0, <2>2, <3>1, <3>2, UserFields DEF Knows, CAStates, CAInTheMiddle
      <3> QED
        BY <1>14, <2>2, <3>3 DEF UserKnows
    <2> QED
      BY <2>1, <2>2
  <1> QED
    BY <1>10, <1>11, <1>15, <1>16, <1>17 DEF CAInv

(* An fsync of the directory makes what it holds the server's.             *)
LEMMA SyncDirStep ==
  ASSUME CAInv, NEW u \in CAUsers, SyncDir(u)
  PROVE  CAInv'
  <1>0. /\ caUser[u].pc = "syncDir" /\ caUser[u].pc \in CAInTheMiddle
        /\ entries' = entries /\ synced' = Len(entries) /\ anchor' = caUser[u].key
        /\ entries \in Seq(Entry)
    BY DEF SyncDir, CAInTheMiddle, CAInv, CATypeOK
  <1>1. /\ Len(entries) = IF caUser[u].file = "key" THEN 1 ELSE 2
        /\ caUser[u].key = entries[1].key /\ caUser[u].why = "none"
    BY <1>0, UserFields DEF Knows
  <1>2. PICK k \in Keys \cup {NoKey} : k = caUser[u].key
    BY UserFields DEF CAUser
  <1>3. PICK c \in CAUser : /\ caUser' = [caUser EXCEPT ![u] = c]
                            /\ c.key = k /\ c.why = "none"
                            /\ c.pc = IF caUser[u].file = "key" THEN "loadCert" ELSE "ready"
    <2>1. CASE caUser[u].file = "key"
      <3>1. PICK c : c = [caUser[u] EXCEPT !.pc = "loadCert"]
        OBVIOUS
      <3>2. c \in CAUser /\ c.pc = "loadCert" /\ c.key = k /\ c.why = "none"
        BY <1>1, <1>2, <3>1, UserFields DEF CAUser, CAStates
      <3>3. caUser' = [caUser EXCEPT ![u] = c]
        BY <2>1, <3>1, UserFields DEF SyncDir
      <3> QED
        BY <2>1, <3>2, <3>3
    <2>2. CASE caUser[u].file # "key"
      <3>1. PICK c : c = [Idle EXCEPT !.pc = "ready", !.key = k]
        OBVIOUS
      <3>2. c \in CAUser /\ c.pc = "ready" /\ c.key = k /\ c.why = "none"
        BY <3>1, UserFields DEF CAUser, CAStates
      <3>3. caUser' = [caUser EXCEPT ![u] = c]
        BY <1>2, <2>2, <3>1 DEF SyncDir, CAReady
      <3> QED
        BY <2>2, <3>2, <3>3
    <2> QED
      BY <2>1, <2>2
  <1>4. Knows(c, entries)
    BY <1>1, <1>2, <1>3 DEF Knows
  <1>5. /\ caUser' \in [CAUsers -> CAUser] /\ caUser'[u] = c
        /\ \A v \in CAUsers \ {u} : caUser'[v] = caUser[v]
    BY <1>3, UserFields
  <1>6. CATypeOK'
    BY <1>0, <1>2, <1>5 DEF CATypeOK
  <1>7. DirectoryIsSound'
    BY <1>0 DEF CAInv, DirectoryIsSound
  <1>8. AnchorIsSynced'
    BY <1>0, <1>1 DEF AnchorIsSynced
  <1>9. OneInTheMiddle'
    BY <1>0, <1>5, UserFields DEF OneInTheMiddle
  <1>10. ASSUME NEW v \in CAUsers
         PROVE  UserKnows(v)'
    <2>1. Knows(caUser'[v], entries)
      BY <1>4, <1>5, UserFields
    <2> QED
      BY <1>0, <2>1 DEF UserKnows, Knows
  <1> QED
    BY <1>6, <1>7, <1>8, <1>9, <1>10 DEF CAInv

(* A power loss keeps a prefix of the renames, at least the synced ones,   *)
(* and tears none of them.                                                 *)
LEMMA CAPowerLossStep ==
  ASSUME CAInv, CAPowerLoss
  PROVE  CAInv'
  <1>0. entries \in Seq(Entry) /\ synced \in 0..Len(entries) /\ Len(entries) \in Nat
    BY DEF CAInv, CATypeOK
  <1>1. PICK n \in synced..Len(entries) :
          /\ entries' = [i \in 1..n |-> [entries[i] EXCEPT !.torn = ~entries[i].flushed]]
          /\ synced' = n
    BY DEF CAPowerLoss
  <1>2. n \in Nat /\ n <= Len(entries) /\ synced <= n
    BY <1>0
  <1>3. ASSUME NEW i \in 1..n
        PROVE  /\ entries'[i] \in Entry
               /\ entries'[i].file = entries[i].file /\ entries'[i].key = entries[i].key
               /\ entries'[i].flushed /\ ~entries'[i].torn
    <2>1. PICK e \in Entry : e = entries[i] /\ e.flushed
      BY <1>0, <1>2 DEF CAInv, DirectoryIsSound
    <2>2. PICK b \in BOOLEAN : b = ~e.flushed
      BY Zenon
    <2>3. PICK d : d = [e EXCEPT !.torn = b] /\ d = entries'[i]
      BY <1>1, <2>1, <2>2, Zenon
    <2>4. d \in Entry /\ d.file = e.file /\ d.key = e.key
      BY <2>3 DEF Entry
    <2>5. d.flushed = e.flushed /\ d.torn = b
      BY <2>3, Zenon DEF Entry
    <2> QED
      BY <2>1, <2>2, <2>3, <2>4, <2>5
  <1>4. entries' \in Seq(Entry) /\ Len(entries') = n /\ DOMAIN entries' = 1..n
    BY <1>1, <1>2, <1>3
  <1>5. caUser' = [u \in CAUsers |-> Idle] /\ anchor' = anchor
    BY DEF CAPowerLoss
  <1>6. Idle \in CAUser /\ Idle.pc = "idle" /\ Idle.why = "none"
    BY DEF Idle, CAUser, CAStates
  <1>7. CATypeOK'
    BY <1>1, <1>2, <1>4, <1>5, <1>6 DEF CAInv, CATypeOK
  <1>8. DirectoryIsSound'
    BY <1>0, <1>2, <1>3, <1>4 DEF CAInv, DirectoryIsSound
  <1>9. AnchorIsSynced'
    BY <1>0, <1>1, <1>2, <1>3, <1>5 DEF CAInv, AnchorIsSynced
  <1>10. \A u \in CAUsers : caUser'[u].pc = "idle" /\ caUser'[u].why = "none"
    BY <1>5, <1>6
  <1>11. OneInTheMiddle'
    BY <1>10 DEF OneInTheMiddle, CAInTheMiddle
  <1>12. \A u \in CAUsers : UserKnows(u)'
    BY <1>10 DEF UserKnows
  <1> QED
    BY <1>7, <1>8, <1>9, <1>11, <1>12 DEF CAInv

(* What does not touch the identity directory.                             *)
LEMMA CAUnchanged ==
  ASSUME CAInv, UNCHANGED caVars
  PROVE  CAInv'
  BY DEF CAInv, CATypeOK, DirectoryIsSound, AnchorIsSynced, OneInTheMiddle, UserKnows, caVars

(* An empty directory.                                                     *)
LEMMA InitCAInv ==
  ASSUME CAInit
  PROVE  CAInv
  <1>1. /\ entries = <<>> /\ entries \in Seq(Entry) /\ Len(entries) = 0
        /\ DOMAIN entries = {} /\ synced = 0 /\ anchor = NoKey
        /\ caUser = [u \in CAUsers |-> Idle]
    BY DEF CAInit
  <1>2. Idle \in CAUser /\ Idle.pc = "idle" /\ Idle.why = "none"
    BY DEF Idle, CAUser, CAStates
  <1>3. CATypeOK
    BY <1>1, <1>2 DEF CATypeOK
  <1>4. DirectoryIsSound /\ AnchorIsSynced
    BY <1>1 DEF DirectoryIsSound, AnchorIsSynced
  <1>5. \A u \in CAUsers : caUser[u].pc = "idle" /\ caUser[u].why = "none"
    BY <1>1, <1>2
  <1>6. OneInTheMiddle
    BY <1>5 DEF OneInTheMiddle, CAInTheMiddle
  <1>7. \A u \in CAUsers : UserKnows(u)
    BY <1>5 DEF UserKnows
  <1> QED
    BY <1>3, <1>4, <1>6, <1>7 DEF CAInv

-----------------------------------------------------------------------------
(* The server and the commands beside it.                                  *)

(* A step of a process on the store.                                       *)
LEMMA StoreStepKeeps ==
  ASSUME StoreInv, NEW p \in Openers,
         \/ \E b \in Binaries : Open(p, b)
         \/ StoreStep(p)
         \/ EnsureServerPolicySnapshot(p)
         \/ LeaveStore(p)
  PROVE  /\ StoreInv'
         /\ \A q \in Openers \ {p} : opener'[q] = opener[q]
  <1>1. StoreInv'
    BY OpenStep, RejectFutureMigrationStep, MigrationAppliedStep, ApplyMigrationStep,
       EnsureServerPolicySnapshotStep, LeaveStoreStep
    DEF StoreStep
  <1>2. \A q \in Openers \ {p} : opener'[q] = opener[q]
    BY OpenerFields
    DEF Open, StoreStep, RejectFutureMigration, MigrationApplied, ApplyMigration, FailOpen,
        NextMigration, EnsureServerPolicySnapshot, LeaveStore
  <1> QED
    BY <1>1, <1>2

(* A step of a process on the identity directory.                          *)
LEMMA CAStepKeeps ==
  ASSUME CAInv, NEW u \in CAUsers, StartCA(u) \/ CAStep(u) \/ LeaveCA(u)
  PROVE  /\ CAInv'
         /\ \A v \in CAUsers \ {u} : caUser'[v] = caUser[v]
  <1>1. CAInv'
    BY StartCAStep, LoadKeyStep, LoadCertStep, SyncFileStep, RenameStep, SyncDirStep,
       LeaveCAStep
    DEF CAStep
  <1>2. \A v \in CAUsers \ {u} : caUser'[v] = caUser[v]
    BY UserFields
    DEF StartCA, CAStep, LoadKey, LoadCert, SyncFile, Rename, SyncDir, LeaveCA, CAFails,
        CAReady, GenerateSelfSignedCA
  <1> QED
    BY <1>1, <1>2

(* The steps of the server process that end it, and those that only it and *)
(* its goroutines see.                                                     *)
Leaves ==
    /\ LeaveStore(Server)
    /\ LeaveCA(Server)
    /\ srv'.pc = "down"
    /\ srv' \in ServerState

Serves ==
    /\ UNCHANGED <<storeVars, caVars>>
    /\ srv' \in ServerState
    /\ srv'.pc \in Running
    /\ srv.pc \in Running \/ caUser[Server].pc = "ready"

(* What a step of the composition is, for the store and the CA.            *)
LEMMA ServerSteps ==
  ASSUME srv \in ServerState, Next
  PROVE  \/ \E b \in Binaries :
               /\ Open(Server, b) /\ UNCHANGED caVars
               /\ srv.pc = "down" /\ srv'.pc = "starting" /\ srv' \in ServerState
         \/ /\ srv.pc = "starting" /\ UNCHANGED <<caVars, srv>>
            /\ StoreStep(Server) \/ EnsureServerPolicySnapshot(Server)
         \/ /\ srv.pc = "starting" /\ UNCHANGED <<storeVars, srv>>
            /\ opener[Server].pc = "ready"
            /\ StartCA(Server) \/ CAStep(Server)
         \/ Leaves
         \/ Serves
         \/ \E p \in Openers \ {Server} : InviteCommand(p)
         \/ \E u \in CAUsers \ {Server} : CACommand(u)
         \/ PowerLoss
  <1>0. Down \in ServerState /\ Down.pc = "down"
    BY LifecycleAssumption DEF Down, ServerState, Running, SignalBuffer
  <1>1. ASSUME NEW b \in Binaries, RunServe(b)
        PROVE  srv' \in ServerState /\ srv'.pc = "starting"
    BY <1>0, <1>1 DEF RunServe, ServerState
  <1>2. ASSUME NEW cut \in BOOLEAN, ServerLeaves(cut)
        PROVE  Leaves
    BY <1>0, <1>2 DEF ServerLeaves, Leaves, ServerState
  <1>3. CASE AbandonStart \/ SecondSignal \/ KillServer
    BY <1>2, <1>3 DEF AbandonStart, SecondSignal, KillServer
  <1>4. CASE ExitServer
    <2>1. PICK cut \in BOOLEAN : cut = (srv.running > 0 /\ srv.hook # "expired")
      BY Zenon
    <2>2. ServerLeaves(cut)
      BY <1>4, <2>1, Zenon DEF ExitServer
    <2> QED
      BY <1>2, <2>2
  <1>5. CASE EnterServe \/ PublishServer \/ Listen \/ ListenAndServeReturns
    BY <1>5
    DEF EnterServe, PublishServer, Listen, ListenAndServeReturns, Serves, ServerState, Running
  <1>6. CASE SignalArrives \/ FirstSignal
    <2>1. CASE SignalArrives
      BY <2>1 DEF SignalArrives, Serves, ServerState, SignalBuffer
    <2>2. CASE FirstSignal
      <3>1. PICK n \in 0..SignalBuffer : n = srv.signals - 1
        BY <2>2 DEF FirstSignal, ServerState, SignalBuffer
      <3>2. srv' = [srv EXCEPT !.signals = n, !.cancelled = TRUE]
        BY <2>2, <3>1 DEF FirstSignal, ServerState
      <3> QED
        BY <2>2, <3>2 DEF FirstSignal, Serves, ServerState
    <2> QED
      BY <1>6, <2>1, <2>2
  <1>7. CASE ShutdownHook \/ Drain
    BY <1>7
    DEF ShutdownHook, Drain, Serves, ServerState
  <1>8. CASE RequestArrives \/ RequestEnds
    BY <1>8, LifecycleAssumption
    DEF RequestArrives, RequestEnds, Serves, ServerState, Running
  <1> QED
    BY <1>1, <1>3, <1>4, <1>5, <1>6, <1>7, <1>8
    DEF Next, RunServe, ServerOpensStore, ServerLoadsCA, InviteCommand, CACommand

(* The server goes through the store, then the CA, then serves, and the    *)
(* commands beside it leave its rows alone.                                *)
LEMMA NextLifecycle ==
  ASSUME LifecycleInv, Next
  PROVE  LifecycleInv'
  <1>0. /\ StoreInv /\ CAInv /\ srv \in ServerState /\ ServerIsInOrder
        /\ Server \in Openers /\ Server \in CAUsers
    BY LifecycleAssumption DEF LifecycleInv, LifecycleTypeOK
  <1>1. opener \in [Openers -> Opener] /\ caUser \in [CAUsers -> CAUser]
    BY <1>0, OpenerFields, UserFields
  <1>2. SUFFICES StoreInv' /\ CAInv' /\ srv' \in ServerState /\ ServerIsInOrder'
    BY DEF LifecycleInv, LifecycleTypeOK, StoreInv, CAInv
  <1>3. ASSUME NEW b \in Binaries, Open(Server, b), UNCHANGED caVars, srv.pc = "down",
               srv'.pc = "starting", srv' \in ServerState
        PROVE  StoreInv' /\ CAInv' /\ srv' \in ServerState /\ ServerIsInOrder'
    <2>1. StoreInv' /\ CAInv'
      BY <1>0, <1>3, StoreStepKeeps, CAUnchanged
    <2>2. caUser'[Server].pc = "idle"
      BY <1>0, <1>3 DEF ServerIsInOrder, caVars
    <2> QED
      BY <1>3, <2>1, <2>2 DEF ServerIsInOrder, Running
  <1>4. ASSUME srv.pc = "starting", UNCHANGED <<caVars, srv>>,
               StoreStep(Server) \/ EnsureServerPolicySnapshot(Server)
        PROVE  StoreInv' /\ CAInv' /\ srv' \in ServerState /\ ServerIsInOrder'
    <2>1. StoreInv' /\ CAInv'
      BY <1>0, <1>4, StoreStepKeeps, CAUnchanged
    <2>2. opener[Server].pc # "ready"
      BY <1>4
      DEF StoreStep, RejectFutureMigration, MigrationApplied, ApplyMigration,
          EnsureServerPolicySnapshot
    <2>3. caUser'[Server].pc = "idle"
      BY <1>0, <1>4, <2>2 DEF ServerIsInOrder, caVars
    <2> QED
      BY <1>0, <1>4, <2>1, <2>3 DEF ServerIsInOrder, Running
  <1>5. ASSUME srv.pc = "starting", UNCHANGED <<storeVars, srv>>,
               opener[Server].pc = "ready", StartCA(Server) \/ CAStep(Server)
        PROVE  StoreInv' /\ CAInv' /\ srv' \in ServerState /\ ServerIsInOrder'
    <2>1. StoreInv' /\ CAInv'
      BY <1>0, <1>5, CAStepKeeps, StoreUnchanged
    <2> QED
      BY <1>0, <1>5, <2>1 DEF ServerIsInOrder, Running, storeVars
  <1>6. CASE Leaves
    <2>1. StoreInv' /\ CAInv'
      BY <1>0, <1>6, CAStepKeeps, StoreStepKeeps DEF Leaves
    <2>2. opener'[Server].pc = "down" /\ caUser'[Server].pc = "idle"
      BY <1>0, <1>1, <1>6 DEF Leaves, LeaveStore, LeaveCA, Closed, Idle
    <2> QED
      BY <1>6, <2>1, <2>2 DEF Leaves, ServerIsInOrder, Running
  <1>7. CASE Serves
    <2>1. StoreInv' /\ CAInv'
      BY <1>0, <1>7, CAUnchanged, StoreUnchanged DEF Serves
    <2>2. /\ caUser[Server].pc = "ready" /\ opener[Server].pc = "ready"
          /\ caUser' = caUser /\ opener' = opener
      BY <1>0, <1>7 DEF Serves, ServerIsInOrder, caVars, storeVars
    <2> QED
      BY <1>7, <2>1, <2>2 DEF Serves, ServerIsInOrder, Running
  <1>8. ASSUME NEW p \in Openers \ {Server}, InviteCommand(p)
        PROVE  StoreInv' /\ CAInv' /\ srv' \in ServerState /\ ServerIsInOrder'
    <2>1. /\ \/ \E b \in Binaries : Open(p, b)
             \/ StoreStep(p)
             \/ LeaveStore(p)
          /\ UNCHANGED <<caVars, srv>>
      BY <1>8 DEF InviteCommand
    <2>2. StoreInv' /\ CAInv' /\ opener'[Server] = opener[Server]
      BY <1>0, <2>1, StoreStepKeeps, CAUnchanged
    <2> QED
      BY <1>0, <2>1, <2>2 DEF ServerIsInOrder, caVars
  <1>9. ASSUME NEW u \in CAUsers \ {Server}, CACommand(u)
        PROVE  StoreInv' /\ CAInv' /\ srv' \in ServerState /\ ServerIsInOrder'
    <2>1. /\ StartCA(u) \/ CAStep(u) \/ LeaveCA(u)
          /\ UNCHANGED <<storeVars, srv>>
      BY <1>9 DEF CACommand
    <2>2. StoreInv' /\ CAInv' /\ caUser'[Server] = caUser[Server]
      BY <1>0, <2>1, CAStepKeeps, StoreUnchanged
    <2> QED
      BY <1>0, <2>1, <2>2 DEF ServerIsInOrder, storeVars
  <1>10. CASE PowerLoss
    <2>1. StoreInv' /\ CAInv'
      BY <1>0, <1>10, StorePowerLossStep, CAPowerLossStep DEF PowerLoss
    <2>2. opener'[Server].pc = "down" /\ caUser'[Server].pc = "idle"
      BY <1>0, <1>10 DEF PowerLoss, StorePowerLoss, CAPowerLoss, Closed, Idle
    <2>3. srv' \in ServerState /\ srv'.pc = "down"
      BY <1>10, LifecycleAssumption
      DEF PowerLoss, Down, ServerState, Running, SignalBuffer
    <2> QED
      BY <2>1, <2>2, <2>3 DEF ServerIsInOrder, Running
  <1> QED
    BY <1>0, <1>3, <1>4, <1>5, <1>6, <1>7, <1>8, <1>9, <1>10, ServerSteps

(* The inductive invariant of the server's life, its store and its CA holds*)
(* through every kill, power loss and race of runServe with the commands   *)
(* beside it.                                                              *)
THEOREM LifecycleInvHolds == Spec => []LifecycleInv
  <1>1. Init => LifecycleInv
    <2>1. ASSUME Init
          PROVE  LifecycleInv
      <3>1. StoreInv /\ CAInv
        BY <2>1, InitStoreInv, InitCAInv DEF Init
      <3>2. srv \in ServerState /\ srv.pc = "down"
        BY <2>1, LifecycleAssumption
        DEF Init, Down, ServerState, Running, SignalBuffer
      <3>3. opener[Server].pc = "down" /\ caUser[Server].pc = "idle"
        BY <2>1, LifecycleAssumption DEF Init, StoreInit, CAInit, Closed, Idle
      <3> QED
        BY <3>1, <3>2, <3>3
        DEF LifecycleInv, LifecycleTypeOK, StoreInv, CAInv, ServerIsInOrder, Running
    <2> QED
      BY <2>1
  <1>2. LifecycleInv /\ [Next]_vars => LifecycleInv'
    <2>1. ASSUME LifecycleInv, UNCHANGED vars
          PROVE  LifecycleInv'
      <3>1. UNCHANGED storeVars /\ UNCHANGED caVars /\ srv' = srv
        BY <2>1 DEF vars
      <3>2. StoreInv' /\ CAInv'
        BY <2>1, <3>1, StoreUnchanged, CAUnchanged DEF LifecycleInv
      <3> QED
        BY <2>1, <3>1, <3>2
        DEF LifecycleInv, LifecycleTypeOK, StoreInv, CAInv, ServerIsInOrder, storeVars, caVars
    <2> QED
      BY <2>1, NextLifecycle
  <1> QED
    BY <1>1, <1>2, PTL DEF Spec

(* Processes of every age that race in Migrate, kills and power losses     *)
(* leave the schema at the versions 1..n of a build, each applied once.    *)
THEOREM SchemaStaysGapless == Spec => []MigrationsAreGapless
  <1>1. LifecycleInv => MigrationsAreGapless
    BY DEF LifecycleInv, StoreInv
  <1> QED
    BY <1>1, LifecycleInvHolds, PTL

(* A key that LoadOrCreate saved and synced is neither lost nor replaced.  *)
THEOREM KeyStaysCreated == Spec => []CreatedKeySurvives
  <1>1. LifecycleInv => CreatedKeySurvives
    BY AnchorIsOnFile DEF LifecycleInv
  <1> QED
    BY <1>1, LifecycleInvHolds, PTL

(* A server that takes requests has the schema, the policy snapshot, the   *)
(* key and the certificate that runServe set out to ensure.                *)
THEOREM ServingStaysReady == Spec => []ServingIsReady
  <1>1. ASSUME LifecycleInv, srv.pc = "serving"
        PROVE  /\ 1..opener[Server].binary \subseteq Applied
               /\ Contains(commits, PolicySnapshot(opener[Server].binary))
               /\ VisibleKey = caUser[Server].key
               /\ Exists("cert") /\ Found("cert").key = caUser[Server].key
    <2>0. StoreInv /\ CAInv /\ Server \in Openers /\ Server \in CAUsers
      BY <1>1, LifecycleAssumption DEF LifecycleInv
    <2>1. caUser[Server].pc = "ready" /\ opener[Server].pc = "ready"
      BY <1>1 DEF LifecycleInv, ServerIsInOrder, Running
    <2>2. /\ 1..opener[Server].binary \subseteq Applied
          /\ Contains(commits, PolicySnapshot(opener[Server].binary))
      BY <2>0, <2>1, OpenerFields DEF LoopHasPassed
    <2>3. Len(entries) = 2 /\ entries # <<>>
      BY <2>0, <2>1, UserFields DEF Knows
    <2>4. caUser[Server].key = entries[1].key
      BY <2>0, <2>1, <2>3, UserFields DEF Knows
    <2>5. entries[2].key = entries[1].key
      BY <2>0, <2>3 DEF CAInv, DirectoryIsSound
    <2>6. /\ Exists("key") /\ VisibleKey = entries[1].key
          /\ Exists("cert") /\ Found("cert") = entries[2]
      BY <2>0, <2>3, DirectoryContents DEF CAInv
    <2> QED
      BY <2>2, <2>4, <2>5, <2>6
  <1>2. LifecycleInv => ServingIsReady
    BY <1>1 DEF ServingIsReady
  <1> QED
    BY <1>2, LifecycleInvHolds, PTL

(* What earlier starts left behind stops no start of runServe: neither a   *)
(* torn file nor a certificate that does not match the key is ever found,  *)
(* and a start refused by the database is refused for a newer build or a   *)
(* race it may try again.                                                  *)
THEOREM StartsNeedNoRepair == Spec => []NoStartNeedsRepair
  <1>1. ASSUME LifecycleInv
        PROVE  NoStartNeedsRepair
    <2>1. \A p \in Openers : FailureIsExplained(p)
      BY <1>1 DEF LifecycleInv, StoreInv
    <2>2. \A u \in CAUsers : caUser[u].why = "none"
      BY <1>1 DEF LifecycleInv, CAInv, UserKnows
    <2> QED
      BY <2>1, <2>2 DEF NoStartNeedsRepair, FailureIsExplained
  <1> QED
    BY <1>1, LifecycleInvHolds, PTL
=============================================================================
