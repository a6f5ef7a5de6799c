--------------------------- MODULE MCCampusRoster ---------------------------
(* CampusRoster on a small instance.  Students, cohorts and requests are      *)
(* interchangeable.                                                          *)
EXTENDS CampusRoster, TLC

CONSTANTS c1, c2, s1, i1, i2, k1, k2, a1

MCSymmetry == Permutations(Calls) \cup Permutations(Students) \cup Permutations(Cohorts)
=============================================================================
