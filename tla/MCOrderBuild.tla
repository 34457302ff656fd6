---------------------------- MODULE MCOrderBuild ----------------------------
\* Hundredths of a share on both sides of the minimum and where float64 cuts
\* one off, and some sizes that are off the grid.
EXTENDS OrderBuild

MCSizes == {10 * k : k \in (490..560) \cup (800..860)} \cup {290, 570, 4995, 5001, 8295}
=============================================================================
