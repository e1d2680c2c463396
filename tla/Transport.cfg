SPECIFICATION Spec
CONSTANTS
  r101 = r101
  r102 = r102
  rBad = rBad
  card1 = card1
  Nobody = Nobody
  AddressOf <- MCAddressOf
  PortOf <- MCPortOf
  Caller = {c1, c2}
  Room = {r101, r102, rBad}
  Address = {card1}
  Target = {"vacant", "occupied"}
  Faults = {"cancel", "error", "loss", "mapRace", "restart"}
INVARIANTS
  TypeOK
  GapHoldsLine
  ImageIsCard
  CardFollowsOrders
  LedAgreesWithRelay
PROPERTIES
  NeighboursKeptUnlessUpset
