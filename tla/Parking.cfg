SPECIFICATION FairSpec
CONSTANTS
  Kinds = {automobile, pickup}
  FirstPosted = pickup
  Cap <- Places
  MayInterrupt = TRUE
  MaxKills = 1
  automobile = automobile
  pickup = pickup
CHECK_DEADLOCK FALSE
INVARIANTS IndInv Handshake RoomToPark
PROPERTIES OwnerServed
