SPECIFICATION Spec
CONSTANTS
  Conns = {c1, c2}
  MaxFd = 3
  MaxPorts = 2
  MaxOut = 1
  NONE = NONE
  LISTEN = LISTEN
INVARIANTS
  TypeOK TablesAgree BitsNameTheirClients
PROPERTIES
  OutputBeforeDisconnect CloseNoticed DisconnectDone
