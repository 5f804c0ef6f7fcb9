----------------------------- MODULE MCServices -----------------------------
(* An instance of Services for TLC: two nodes from the data file, one of       *)
(* which is also configured, and a new one that is configured twice.           *)
EXTENDS Services

MCStored == <<"a", "c">>
MCConfigured == <<"b", "a", "b">>
=============================================================================
