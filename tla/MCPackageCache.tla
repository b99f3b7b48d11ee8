--------------------------- MODULE MCPackageCache ---------------------------
(* PackageCache on small instances. *)
EXTENDS PackageCache

CONSTANTS m1, m2, b1, b2

Locked == [manifest |-> m1, body |-> b1]
Other == [manifest |-> m2, body |-> b2]
OneTree == {Locked}
TwoTrees == {Locked, Other}
=============================================================================
