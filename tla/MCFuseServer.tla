---------------------------- MODULE MCFuseServer ----------------------------
(***************************************************************************)
(* Instances of FuseServer: a file of each mesh type, one file for each    *)
(* reason to refuse it, and paths that hit and miss in every way.          *)
(***************************************************************************)
EXTENDS FuseServer

Array(name, id, size) ==
  [name |-> name, id |-> id, size |-> size, type |-> "Float32", format |-> "appended",
   header_readable |-> TRUE]

Arrays(pd) ==
  [pointdata |-> pd,
   celldata |-> <<Array(<<"rho">>, <<"cell", "rho">>, 2)>>,
   points |-> <<Array(<<"xyz">>, <<"points", "xyz">>, 3)>>,
   cells |-> <<Array(<<"types">>, <<"cells", "types">>, 1)>>]

TwoArrays == <<Array(<<"rho">>, <<"point", "rho">>, 3), Array(<<"prs">>, <<"point", "prs">>, 0)>>

ReadOwn == {<<"usr", "r">>, <<"usr", "w">>}
ReadAll == {<<w, p>> : w \in {"usr", "grp", "oth"}, p \in {"r", "x"}}

Vtk(ext, mode, pd) ==
  [ext |-> ext, mode |-> mode, readable |-> TRUE, header_type |-> "UInt64",
   compressor |-> "none",
   root |-> (<<"type">> :> 4) @@ (<<"version">> :> 3),
   mesh |-> (<<"type">> :> 2) @@ (<<"Origin">> :> 1),
   arrays |-> Arrays(pd)]

Good == Vtk(".vti", ReadOwn, TwoArrays)

Refused ==
  {[Good EXCEPT !.ext = ".vtp"], [Good EXCEPT !.readable = FALSE],
   [Good EXCEPT !.header_type = "UInt16"], [Good EXCEPT !.compressor = "vtkLZMADataCompressor"],
   [Good EXCEPT !.arrays.pointdata[2].type = "Int16"],
   [Good EXCEPT !.arrays.celldata[1].format = "ascii"],
   [Good EXCEPT !.arrays.pointdata[1].header_readable = FALSE]}

\* An array that is not loaded is not in the way.
AllVtkFiles ==
  {Good, [Vtk(".vti", ReadAll, TwoArrays) EXCEPT !.arrays.cells[1].type = "Int16"],
   Vtk(".vts", ReadAll, TwoArrays), Vtk(".vtu", ReadOwn, TwoArrays)} \cup Refused

\* A name with a separator: ServesFs does not hold of SlashFiles and SlashPaths.
SlashFiles == {Vtk(".vti", ReadAll, <<Array(<<"k", "/", "omega">>, <<"point", "k">>, 3)>>)}

Rho == <<"rho", ".parquet">>

AllComps ==
  {<<>>, << <<"pointdata">> >>, << <<"METADATA">> >>, << <<"points">> >>, << <<"rho">> >>,
   << <<"pointdata">>, Rho>>, << <<"celldata">>, Rho>>, << <<"cells">>, <<"types", ".parquet">> >>,
   << <<"METADATA">>, <<"type">> >>, << <<"METADATA">>, Rho>>, << <<"pointdata">>, <<"rho">> >>,
   << <<"nil">>, Rho>>, << <<"pointdata">>, Rho, Rho>>, << <<"pointdata">>, <<"nil">>, Rho>>,
   << <<"METADATA">>, <<"version">>, <<"type">>, Rho>>}

SlashComps == AllComps \cup {<< <<"pointdata">>, <<"k", "/", "omega", ".parquet">> >>}

AllTokens == {"/"} \cup {"METADATA", "pointdata", "celldata", "points", "cells"}
             \cup {"type", "version", "Origin", "rho", "prs", "xyz", "types", "nil"}
             \cup {".parquet", "point", "cell", "k", "omega"}

\* Paths with separators repeated in each place, and a relative path.
PathsFor(comps) ==
  [comps : comps, lead : {1}, gap : {1}, trail : {0}]
  \cup [comps : comps, lead : {2}, gap : {2}, trail : {0, 2}]
  \cup [comps : comps \ {<<>>}, lead : {0}, gap : {1}, trail : {1}]

AllPaths   == PathsFor(AllComps)
SlashPaths == PathsFor(SlashComps)

\* The names of an instance that is run are names.
ASSUME InstanceNames == NamesAreNames
=============================================================================
