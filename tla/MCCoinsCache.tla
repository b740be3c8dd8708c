---------------------------- MODULE MCCoinsCache ----------------------------
(* An instance of CoinsCache: two outpoints with two coins each and two       *)
(* block hashes.                                                              *)
EXTENDS CoinsCache
=============================================================================
