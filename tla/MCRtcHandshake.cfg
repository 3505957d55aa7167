CONSTANTS
  client = client
  server = server
  Client <- client
  Server <- server
  ArqMax = 3
  MaxLost = 2
  MaxEarly = 1
SPECIFICATION HandshakeSpec
INVARIANTS HandshakeTypeOK MediaProtected MediaUnderstood
PROPERTY HandshakeCompletes
