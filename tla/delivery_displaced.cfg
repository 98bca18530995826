SPECIFICATION DeliverySpec
CONSTANTS
  n1 = n1  n2 = n2  ann = ann  bob = bob  a = a  b = b  b2 = b2
  sa = sa  sb = sb  sc = sc  m1 = m1  m2 = m2  cat = cat  m3 = m3
  Nodes = {n1}
  Users = {ann, bob}
  Devices = {a, b, b2}
  Sessions = {sb, sc}
  Messages = {m1}
  DeviceUser <- MCDeviceUser
  SessionDevice <- MCTwoDevices
  SessionNode <- MCOneNode
  Origin <- MCOrigin
  Receiver <- MCReceiver
  Friends <- MCFriends
  Backlog <- MCBacklog
  Capacity = 1
  SendLimit = 1
  WriteLimit = 1
  MaxCrashes = 0
  NoSession = NoSession
  NoNode = NoNode
  NoMessage = NoMessage

PROPERTIES ConnectedReceiverIsServed
CHECK_DEADLOCK FALSE
