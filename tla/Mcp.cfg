SPECIFICATION RuntimeSpec
CONSTANTS
  NoHandle = NoHandle
  Servers = {1, 2}
  Settings = {off, old, new}
  Enabled = {old, new}
  Crossing = {"switchOn", "reconnect"}
INVARIANTS PublishedIsConfigured SwitchedOffStaysOff
PROPERTIES ConnectingSettles
