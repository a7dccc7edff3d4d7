CONSTANTS
  OccupancyRecords <- MCOccupancy
  CapabilityRecords <- MCCapability
  CatalogRows <- MCCatalog
  Campaigns <- MCCampaigns
  MaxRecords = 4
SPECIFICATION BagsSpec
INVARIANT ApplicableIsCovered
CHECK_DEADLOCK FALSE
