----------------------------- MODULE MCSessions -----------------------------
(* Sessions for TLC: what holders append, and the symmetries.              *)
EXTENDS Sessions, TLC

(* One caveat of each kind, or one that tightens and one that contradicts. *)
SingleCaveats ==
  {<<>>}
    \cup {<<cav>> : cav \in [kind : {"journey"}, value : Journeys]}
    \cup {<<cav>> : cav \in [kind : {"action"}, value : JourneyActions]}
    \cup {<<[kind |-> "time", value |-> 1]>>,
          <<[kind |-> "time", value |-> MaxTime]>>,
          <<[kind |-> "unknown", value |-> NoValue]>>,
          <<[kind |-> "third_party", value |-> NoValue]>>}

Symmetry ==
  Permutations(Certs) \cup Permutations(Roots) \cup Permutations(Journeys)
    \cup Permutations(JourneyActions)
=============================================================================
