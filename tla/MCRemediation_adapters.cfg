SPECIFICATION FairSpec
CONSTANTS
  Responses <- MCResponses
  PluginDrafts <- MCPluginDrafts
  SubTechniques <- MCSubTechniques
CHECK_DEADLOCK FALSE
INVARIANTS
  ProbeKeysDistinct
  OnlyHstsIsShared
  CoverageLosesNoFinding
  ReportAddsUp
  ReportIgnoresScanOrder
  GateIsExact
PROPERTIES
  RemediationHelps
  RemediationEnds
