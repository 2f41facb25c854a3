------------------------------- MODULE MCMount -------------------------------
(***************************************************************************)
(* Instances of Mount: a file with arrays in every section, with a name    *)
(* that two sections share, and one with empty sections.                   *)
(***************************************************************************)
EXTENDS Mount

AllMeshes == {"UnstructuredGrid", "StructuredGrid", "ImageData", "other"}

ManyArrays ==
  [pointdata |-> {"prs", "rho"}, points |-> {"Points"}, celldata |-> {"prs"},
   cells |-> {"connectivity", "offsets"}]
NoPointData ==
  [pointdata |-> {}, points |-> {"Points"}, celldata |-> {"v01", "v02", "v03"}, cells |-> {}]

AllFiles == {ManyArrays, NoPointData}
=============================================================================
