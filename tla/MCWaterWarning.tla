--------------------------- MODULE MCWaterWarning ---------------------------
(* Values for the constants of WaterWarning that a .cfg cannot write. *)
EXTENDS WaterWarning, TLC

\* The installation starts with type 1, under the lowest limit there is.
MCSeed == [t \in {1} |-> 0]

\* Or they have all been deleted, and every type is added from the page.
MCNoTypes == EmptyTable

\* Ids of readings and sources are interchangeable; types and values are not.
Symmetric == Permutations(Readings) \cup Permutations(Sources)
=============================================================================
