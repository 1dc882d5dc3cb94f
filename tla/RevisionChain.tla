--------------------------- MODULE RevisionChain ---------------------------
(***************************************************************************)
(* What every signed-revision store of the server promises: a chain is     *)
(* born at version 1, every later revision carries a version strictly      *)
(* above the head, the head always names the newest revision, and nothing  *)
(* that was recorded is ever rewritten or dropped.  Versions may skip.     *)
(*                                                                         *)
(* Garages, garage vehicles, and the metadata and ACL histories of journey *)
(* vehicles are each shown to implement this specification.                *)
(***************************************************************************)
EXTENDS Naturals

CONSTANTS
  Chains,      \* the objects that own a chain: garages, vehicles
  MaxVersion   \* bound: the largest version a client sends

VARIABLES
  head,        \* head[c]: the current version, 0 before c exists
  recorded     \* recorded[c]: the versions that have a revision row

chainVars == <<head, recorded>>

Versions == 1..MaxVersion

Init ==
  /\ head = [c \in Chains |-> 0]
  /\ recorded = [c \in Chains |-> {}]

Create(c) ==
  /\ head[c] = 0
  /\ head' = [head EXCEPT ![c] = 1]
  /\ recorded' = [recorded EXCEPT ![c] = {1}]

Append(c, v) ==
  /\ head[c] # 0
  /\ v > head[c]
  /\ head' = [head EXCEPT ![c] = v]
  /\ recorded' = [recorded EXCEPT ![c] = @ \cup {v}]

Next == \E c \in Chains : Create(c) \/ \E v \in Versions : Append(c, v)

Spec == Init /\ [][Next]_chainVars
=============================================================================
