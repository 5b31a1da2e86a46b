---------------------------- MODULE MCMemoryVault ----------------------------
(* Instances of MemoryVault: facts and texts are model values.  Two texts  *)
(* change places when that leaves alike what is alike.                     *)
EXTENDS MemoryVault, TLC

Symmetry ==
  Permutations(Fact) \union
  {p \in Permutations(Body) : \A A \in Alike : {p[b] : b \in A} \in Alike}

=============================================================================
