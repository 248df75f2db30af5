--------------------------- MODULE MCPackagePromotion ---------------------------
(* Three runs: of one package, or two of one and the third of another.      *)
EXTENDS PackagePromotion, TLC

CONSTANTS r1, r2, r3, p1, p2

OnePackage   == (r1 :> p1) @@ (r2 :> p1) @@ (r3 :> p1)
TwoPackages  == (r1 :> p1) @@ (r2 :> p1) @@ (r3 :> p2)
Anywhere     == Pcs \ {"ended", "crashed"}
=============================================================================
