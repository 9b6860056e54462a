\* The fixer, the enrichment and the list of images, each over families of documents: see
\* MCSbomDocuments for the families and what each one varies.
CONSTANTS
  Documents <- MCDocuments
  OptionSets <- MCOptionSets
  FieldSets <- MCFieldSets
  MaxFixes = 2
  EnrichDocuments <- MCEnrichDocuments
  JobOptions <- MCJobOptions
  RepositoryUrl <- MCRepositoryUrl
  PurlKey <- MCPurlKey
  Outcomes <- MCOutcomes
  ImageDocuments <- MCImageDocuments
  DefaultOptions <- MCDefaultOptions
SPECIFICATION Spec
INVARIANTS
  LeavesRemovedExactly
  FieldsRemovedExactly
  NoNewDefect
  SecondFixIdle
  RemovalHitsItsTarget
  ReferencesAccounted
  
  FixKeepsEnrichment
  
CHECK_DEADLOCK FALSE
