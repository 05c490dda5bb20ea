------------------------------ MODULE MCApiKeys -------------------------------
(* Instances of ApiKeys for TLC: an uncapped plan beside the capped ones. *)
EXTENDS ApiKeys, TLC

CONSTANT unlimited

\* The plans of entitlements.py, scaled down to the keys of the instance.
MCLimits == {1, 2, unlimited}

\* A deployment whose plans all have a cap.
CappedLimits == {1, 2}

\* Keys, agents and the processes of a kind are interchangeable.
KeySymmetry ==
    Permutations(Keys) \cup Permutations(Agents)
      \cup Permutations(Creators) \cup Permutations(Calls)
=============================================================================
