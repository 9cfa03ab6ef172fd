SPECIFICATION Spec
CONSTANTS
  A = A  B = B
  Chunks = {A, B}
  AddressOf <- Addresses
  Kinds = {TypeStable}
  TypeStable = TypeStable
  Payloads = {1, 2, 4}
  PayloadMod = 3
  nullptr = nullptr
  Unregistered = Unregistered
  MaxAssumptions = 3
  MaxCode = 4
PROPERTY InvalidateTrips
