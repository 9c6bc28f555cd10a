-------------------------- MODULE MCImageLifecycle --------------------------
(* Model values for ImageLifecycle; images, users and slots are alike.     *)
EXTENDS ImageLifecycle, TLC

Symmetry ==
  Permutations(Images) \cup Permutations(Users) \cup Permutations(Runners)
    \cup Permutations(Deleters)
=============================================================================
