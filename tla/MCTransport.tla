----------------------------- MODULE MCTransport -----------------------------
(* Constants for TLC. *)
EXTENDS Transport

SomePhrases == {"host_key"}
=============================================================================
