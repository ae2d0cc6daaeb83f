--------------------------- MODULE MCListingCache ---------------------------
(* Model checking of ListingCache: interchangeable processes and files.    *)
EXTENDS ListingCache, TLC

Symmetric == Permutations(Clients) \cup Permutations(Names)
=============================================================================
