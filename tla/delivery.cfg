SPECIFICATION Spec
CONSTANTS
  n1 = n1  n2 = n2  ann = ann  bob = bob  a = a  b = b  b2 = b2
  sa = sa  sb = sb  sc = sc  m1 = m1  m2 = m2  cat = cat  m3 = m3
  Nodes = {n1, n2}
  Users = {ann, bob, cat}
  Devices = {a, b}
  Sessions = {sa, sb}
  Messages = {m1, m2, m3}
  DeviceUser <- MCDeviceUser
  SessionDevice <- MCOneDevice
  SessionNode <- MCCrossNode
  Origin <- MCOrigin
  Receiver <- MCReceiver
  Friends <- MCFriends
  Backlog <- MCBacklog
  Capacity = 1
  SendLimit = 1
  WriteLimit = 1
  MaxCrashes = 1
  NoSession = NoSession
  NoNode = NoNode
  NoMessage = NoMessage
INVARIANTS AcceptedIsPersisted AckedIsStored
PROPERTIES ServiceSpec
CHECK_DEADLOCK FALSE
