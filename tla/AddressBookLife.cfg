SPECIFICATION OneLife
CONSTANTS
  Endpoints <- MCEndpoints
  Addresses <- MCAddresses
  AddressOf <- MCAddressOf
  Keys <- OneKey
  NewSlots <- MCNewSlots
  TriedSlots <- MCTriedSlots
  NewHash <- MCNewHash
  TriedHash <- MCTriedHash
  kMaxNewBucketReferences = 2
  kTimeInit = 0
  Times = {20}
  Clocks = {30}
  TimePenalty = 2
  MaxCount = 3
  MaxPercentage = 70
  MaxId = 4
  MaxServices = 1
  None = None
INVARIANTS
  TypeOK
  
  BookConsistent
  RoundTrip
PROPERTIES
  TriedNotErased
  
