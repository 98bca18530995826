SPECIFICATION PartSpec
CONSTANTS
  n1 = n1  n2 = n2  ann = ann  bob = bob  a = a  b = b  b2 = b2
  sb = sb  sc = sc  sd = sd  m1 = m1  m2 = m2
  Nodes = {n1, n2}
  Users = {ann, bob}
  Devices = {a, b, b2}
  Sessions = {sb, sc, sd}
  Messages = {m1, m2}
  DeviceUser <- MCDeviceUser
  SessionDevice <- MCSessionDevice
  SessionNode <- MCSessionNode
  Origin <- MCOrigin
  Receiver <- MCReceiver
  Friends <- MCFriends
  Backlog <- MCBacklog
  Capacity = 2
  SendLimit = 2
  WriteLimit = 1
  MaxCrashes = 1
  NoSession = NoSession
  NoNode = NoNode
  NoMessage = NoMessage
INVARIANTS ShownOnceInOrder
CHECK_DEADLOCK FALSE
