--------------------------- MODULE MCOnDemandIngestion ---------------------------
(* Instance of OnDemandIngestion for TLC: two uploads that may share a key,     *)
(* supersede one another or be deleted, and two deletions of the same or of     *)
(* different documents. Keys and contents only compare equal or not, so the     *)
(* first upload asks with the key for one content, and the second may differ.   *)
EXTENDS OnDemandIngestion

CONSTANTS u1, u2, k1, a, b

MCUploads == {u1, u2}
MCKeys == {k1}
MCContents == {a, b}
MCRequested ==
  [u \in MCUploads |->
     {q \in Request :
        /\ q.old # u
        /\ u = u1 => q.key = k1 /\ q.content = a}]
=============================================================================
