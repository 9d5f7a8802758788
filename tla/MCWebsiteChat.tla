---------------------------- MODULE MCWebsiteChat ----------------------------
(***************************************************************************)
(* WebsiteChat with symmetric visitors and posts, for its safety.          *)
(***************************************************************************)
EXTENDS WebsiteChat

MCSymmetry == Permutations(Visitors) \cup Permutations(Posts)
=============================================================================
