----------------------------- MODULE BloomFilter -----------------------------
(***************************************************************************)
(* The Bloom filter of github.com/willf/bloom as the server uses it: the   *)
(* set of its bits that are set.  Every use is under a lock, so each       *)
(* operation is one step (src/api/grab.go, coupon_reservation.go).         *)
(***************************************************************************)
CONSTANTS
    Users,   \* the user ids
    Bits,    \* the positions of the filter
    Hash     \* the positions each user id is hashed to

ASSUME HashAssumption == Hash \in [Users -> (SUBSET Bits) \ {{}}]

\* TestString: TRUE for every user added, and for some that were not.
Test(filter, u) == Hash[u] \subseteq filter

\* AddString
Add(filter, u) == filter \cup Hash[u]

\* ClearAll
Cleared == {}
=============================================================================
