SPECIFICATION MutableSpec
CONSTANTS
  a = a
  b = b
  value = value
  topic = topic
  request = request
  Types = {value, topic, request}
  NoType = NoType
  Type <- MCType
  MayUse <- MCMayUse
  w = w
  u = u
  Names = {a, b}
  NoName = NoName
  Writers = {w}
  Publishers = {p}
  Services = {s}
  Readers = {r}
  Subscribers = {u}
  Clients = {k}
  Preset <- MCPreset
INVARIANTS NobodyWaitsInVain UnsharedNamesWork
PROPERTY OrphansAreNoticed
CHECK_DEADLOCK FALSE
