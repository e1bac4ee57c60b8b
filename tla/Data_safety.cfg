SPECIFICATION DataSpec
CONSTANTS
  e1 = e1  e2 = e2  w1 = w1  w2 = w2  r1 = r1
  Types <- MCTypes  TypeOf <- MCTypeOf  Caps <- MCCaps
  NoWorker = NoWorker  NoEffect = NoEffect
  Effects = {e1, e2}  Workers = {w1, w2}  Reapers = {r1}  MaxAttempts = 2
  Primary <- MCPrimary  Unreliable = {w1, r1}
  Devices = {1, 2, 3}  ActorOf <- MCActorOf  Source = 1  Rank <- HashRank
  Defects = {"none", "altered"}  PageSize = 1  MaxStamp = 2  MaxRows = 2  MaxBatches = 2
  Writes = {1}  Runs = {"a", "b"}  MaxLsn = 2
  Events <- MCEvents  Sessions = {"s", "t"}  Importers = {"a", "b"}  MaxLive = 1  MaxId = 5
  Procs = {"a", "b"}  Keys = {"k"}  Defaults = {"file", "ipfs", "mem"}  Routed = {"file", "ipfs"}
  MaxInodes = 2  MaxArtifacts = 2  MaxBoots = 1
  Fields = {"a"}  Values = {"v", "w"}  MaxReleases = 2
INVARIANTS
    TypeOK AtMostOneOpenClaim ResultNamesALease LeaseInv  
