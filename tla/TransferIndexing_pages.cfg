\* Two downloads of an ERC1155 contract, one retry each.
SPECIFICATION FairSpec
CONSTANTS
  d1 = d1  d2 = d2
  Chain <- Blocks
  Types <- TwoTypes
  Download <- TwoDownloads
  Target <- Targets
  PageSize = 3
  MaxRetries = 1
  None = None
INVARIANTS HistoryHasNoGaps SnapshotsAreWhole
PROPERTIES RefusedWithoutProgress ImplementsHistory DownloadsEnd
CHECK_DEADLOCK FALSE
