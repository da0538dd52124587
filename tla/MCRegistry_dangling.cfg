CONSTANTS
  m1 = m1 m2 = m2 m3 = m3 d1 = d1 d2 = d2 F = F G = G F0 = F0 F1 = F1 G0 = G0
  NoConn = NoConn NoBlock = NoBlock NoPort = NoPort
  Conns = {m1,m2,d1}
  Main = {m1,m2}
  Files = {F}
  Blocks = {F0,F1}
  OwnerOf <- AgainOwner
  Ip <- AgainIp
  PortOf <- SamePort
  FileOf <- TheFileOf
  AnnFiles <- AgainFiles
  AnnBlocks <- AgainBlocks
  NumOf <- TheNumOf
  Wants <- WantsF
  Attempts = 2
SPECIFICATION Spec
INVARIANT DisconnectedIsInNoBlock
\* Clients may all leave for good, and the lock cycle stops the server.
CHECK_DEADLOCK FALSE
