-------------------------- MODULE MCAdvertisements --------------------------
(* The instance of Advertisements that TLC checks. *)
EXTENDS AdvertisementsProperties, TLC

Symmetry == Permutations(Threads) \union Permutations(Users)
=============================================================================
