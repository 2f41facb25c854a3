\* Every record, read by its own version and by others; headers of pages and
\* footers of arrays of every kind.
SPECIFICATION Spec
CONSTANTS
  Types <- AllTypes
  Versions <- AllVersions
  Objects <- AllObjects
  Jobs <- AllJobs
INVARIANTS TypeOK RoundTrip ReadsWhatItKnows RefusesWhatItMust StopsAtTheEnd
INVARIANTS SchemaTellsType SchemaIsTree MetadataAgrees PageMatchesSchema NothingLeftToDefault
PROPERTIES ReadReturns
CHECK_DEADLOCK FALSE
