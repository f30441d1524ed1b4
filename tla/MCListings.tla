----------------------------- MODULE MCListings -----------------------------
(***************************************************************************)
(* Two rows a page, four rows at most: two full pages, the last rows of    *)
(* which come while the viewer is under way, and a third page asked for.   *)
(***************************************************************************)
EXTENDS Listings
CONSTANTS running, success
=============================================================================
