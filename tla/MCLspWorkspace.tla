-------------------------- MODULE MCLspWorkspace --------------------------
(* LspWorkspace on small instances. *)
EXTENDS LspWorkspace

CONSTANTS root, dep, manifest

\* One document imports another, which imports nothing.
RootImportsDep == [u \in Docs |-> IF u = root THEN {dep} ELSE {}]

\* One document that imports another and lies below a manifest.
RootImportsBoth == [u \in Docs |-> IF u = root THEN {dep, manifest} ELSE {}]
=============================================================================
