------------------------------- MODULE MCProxy -------------------------------
(* An instance of Proxy for TLC.  There is no symmetry: it is not sound where  *)
(* liveness is checked. *)
EXTENDS Proxy

\* Everything the client may send.
AllCalls == Kinds

=============================================================================
