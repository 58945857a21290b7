------------------------------- MODULE MCAccess -------------------------------
\* Access on two permissions, two templates and one sub-admin of one company.
EXTENDS Access, TLC
CONSTANTS k1, a1, g1, p1, p2, t1, t2, r1, r2, m1, m2
CStaff == [k \in Companies |-> {a1}]
CCategories == [k \in Companies |-> {g1}]
Symmetry ==
  {p @@ t @@ r @@ m : p \in Permutations({p1, p2}), t \in Permutations({t1, t2}),
                      r \in Permutations({r1, r2}), m \in Permutations({m1, m2})}
===============================================================================
