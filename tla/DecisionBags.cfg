CONSTANTS
  OccupancyRecords <- MCOccupancy
  CapabilityRecords <- MCCapability
  CatalogRows <- MCCatalog
  Campaigns <- MCCampaigns
  MaxRecords = 4
SPECIFICATION BagsSpec
INVARIANTS UsableIsClosed FindingsAreExact AnswerIsSupported
PROPERTIES ConflictStays
CHECK_DEADLOCK FALSE
