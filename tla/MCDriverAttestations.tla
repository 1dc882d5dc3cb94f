------------------------ MODULE MCDriverAttestations ------------------------
(* DriverAttestations for TLC: deliveries and users are interchangeable as *)
(* long as every driver list is empty or names all users.                  *)
EXTENDS DriverAttestations, TLC

Symmetry == Permutations(Users) \cup Permutations(Deliveries)

(* Nobody is listed, or everybody is.                                      *)
NobodyOrEverybody == {{}, Users}

OnlyTrust ==
  /\ \A r \in Requests : requests[r].op # "revision"
  /\ \A v \in Vehicles : vehicles[v] # NoVehicle => OwnerIsJoined(v)
  /\ \A r \in Readers : readers[r] = Idle
  /\ \A d \in Deliveries : deliveries[d] # Idle => deliveries[d].prior = NoPrior
  /\ \A v \in Vehicles : \A a \in attestations[v] : a.prior = NoPrior

OnlyForks ==
  /\ \A r \in Requests : requests[r] = Idle
  /\ \A v \in Vehicles : \A acl \in acls[v] :
       acl.effective = 1 /\ acl.drivers = {} /\ ~acl.emergency
  /\ \A j \in Journeys : Cardinality(joined[j]) <= 1

(* Predecessors and current-driver reads do not touch trust, and ACLs and  *)
(* participants do not touch forks: a behaviour has claims and reads over  *)
(* one plain first ACL, or there are no claims and an owner who stays      *)
(* publishes ACLs.                                                         *)
ForksOrTrust == OnlyTrust \/ OnlyForks
=============================================================================
