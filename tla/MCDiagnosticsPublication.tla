--------------------- MODULE MCDiagnosticsPublication ---------------------
(* DiagnosticsPublication on small instances. *)
EXTENDS DiagnosticsPublication, TLC

PublicationSymmetry == Permutations(Docs) \cup Permutations(Workers)
=============================================================================
