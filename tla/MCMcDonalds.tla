---------------------------- MODULE MCMcDonalds ----------------------------
(* Values for the constants of McDonalds.                                  *)
EXTENDS McDonalds, TLC

CONSTANTS c1, c2, c3, k1, k2, n1, n2, n3, bigmac

MCCustomer == {c1}
MCCustomers2 == {c1, c2}
MCCustomers3 == {c1, c2, c3}
MCKitchens == {k1, k2}
MCKitchen == {k1}
MCNodes2 == {n1, n2}
MCNodes3 == {n1, n2, n3}
MCBurger == {bigmac}

\* No constant tells the members of these sets apart.
Symmetry3 ==
  Permutations(MCCustomers3) \cup Permutations(MCKitchens)
    \cup Permutations(MCNodes3)

=============================================================================
