----------------------------- MODULE MCListing -----------------------------
EXTENDS Listing

MCIds == 1..4
MCOwner == [id \in MCIds |-> IF id = 4 THEN "other" ELSE "me"]
=============================================================================
