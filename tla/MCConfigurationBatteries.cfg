\* One battery under two spellings of its address.
CONSTANTS
  Id = {i1, i2}
  Name = {name}
  Empty = Empty
  upper = upper
  lower = lower
  another = another
  address1 = address1
  address2 = address2
  Spelling <- Spellings
  AddressOf <- Addresses
  Key = {key}
  NoKey = NoKey
  Seconds <- OptionValues
  MaxEntries = 2
SPECIFICATION SafeSpec
INVARIANTS
  NoBatteryTwice
CHECK_DEADLOCK FALSE
