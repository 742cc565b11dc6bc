---------------------------- MODULE MCOnboarding ----------------------------
(* Small instances of Onboarding: up to three requests of two people, who  *)
(* choose workspace names with one slug.                                   *)
EXTENDS Onboarding, TLC

Symmetric == Permutations(Flow) \cup Permutations(Email)
=============================================================================
