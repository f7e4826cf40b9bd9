------------------------------ MODULE MCCatalog ------------------------------
(* Model checking of Catalog: a connector with two datasets, and one of the
   same name whose dataset reads a table of the first. *)
EXTENDS Catalog, TLC

CONSTANTS c1, c2, d1, d2, d3, k1, k2, l1, j1, j2

MCParentOf == (d1 :> c1) @@ (d2 :> c1) @@ (d3 :> c2) @@ (k1 :> d1) @@ (k2 :> d2) @@ (l1 :> k1)
MCNameOf == (c1 :> "shop") @@ (c2 :> "shop") @@ (d1 :> "orders") @@ (d2 :> "returns")
                @@ (d3 :> "orders copy")
MCTableOf == (d1 :> "orders") @@ (d2 :> "returns") @@ (d3 :> "orders")
SymmetryJob == Permutations(Job)
=============================================================================
