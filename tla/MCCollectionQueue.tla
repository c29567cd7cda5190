--------------------------- MODULE MCCollectionQueue ---------------------------
(* The queue of collections alone, for TLC. *)
EXTENDS CollectionQueue
=============================================================================
