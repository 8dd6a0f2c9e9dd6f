CONSTANTS
  Panel = Panel
  Runner = Runner
  NoJob = NoJob
  byId = byId
  byList = byList
  Homes = {Panel, Runner}
  Readers = {byId, byList}
  Own = {byId}
  Verb <- MCVerb
  MaxTime = 1
  MaxDeaths = 1
SPECIFICATION FairSpec
PROPERTIES
  MapKeepsTheEnd
  ClosedComesBack
  EndStaysOnDisk
  LostIsClosed
