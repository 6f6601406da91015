CONSTANTS
  js0 = js0
  js1 = js1
  Main = Main
  Server = Server
  Nobody = Nobody
  Pads <- MCPads
  MaxClients = 2
SPECIFICATION ServerFairSpec
CHECK_DEADLOCK FALSE
PROPERTIES
  StartIsSeen
