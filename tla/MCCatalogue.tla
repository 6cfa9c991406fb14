----------------------------- MODULE MCCatalogue -----------------------------
(* Small instances of Catalogue.                                            *)
EXTENDS Catalogue, TLC

CatalogueSymmetry == Permutations(Slots) \cup Permutations(Users) \cup Permutations(Categories)

==============================================================================
