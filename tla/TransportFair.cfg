SPECIFICATION FairSpec
CONSTANTS
  r101 = r101
  r102 = r102
  rBad = rBad
  card1 = card1
  Nobody = Nobody
  AddressOf <- MCAddressOf
  PortOf <- MCPortOf
  Caller = {c1, c2, c3}
  Room = {r101}
  Address = {card1}
  Target = {"occupied"}
  Faults = {"cancel"}
PROPERTIES
  EveryCallEnds
