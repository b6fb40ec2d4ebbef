------------------------------- MODULE MCListing -------------------------------
EXTENDS Listing

Symmetric == Permutations(Repos)
=============================================================================
