\* Rows arrive in the order of their times; a run dies or its update fails;
\* rebuild.nc.sh runs at any moment.
SPECIFICATION FairSpec
CONSTANTS
  MaxTime = 3
  ChunkSize = 2
  InOrder = TRUE
  CopyPresent = TRUE
  MayRebuild = TRUE
  MaxFaults = 1
INVARIANTS TypeOK NoLostRow
PROPERTIES PublishedCopyComplete EventuallyExported EventuallyCopied
CHECK_DEADLOCK FALSE
