------------------------------- MODULE MCSso -------------------------------
(* The small instances of Sso: the .cfg files MCSso_*.cfg give the         *)
(* constants their values.                                                 *)
EXTENDS Sso

=============================================================================
