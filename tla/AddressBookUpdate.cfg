SPECIFICATION OneLife
CONSTANTS
  Endpoints <- MCEndpoints
  Addresses <- MCAddresses
  AddressOf <- MCAddressOf
  Keys <- OneKey
  NewSlots <- MCNewSlots
  TriedSlots <- MCTriedSlots
  NewHash <- MCNewHash
  TriedHash <- MCTriedHash
  kMaxNewBucketReferences = 2
  kTimeInit = 0
  Times = {10, 20}
  Clocks = {30}
  TimePenalty = 2
  MaxCount = 3
  MaxPercentage = 70
  MaxId = 3
  MaxServices = 1
  None = None
INVARIANT
  OlderNotReferenced
