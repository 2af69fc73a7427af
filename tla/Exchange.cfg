\* Two logins, each fault.
SPECIFICATION FairSpec
CONSTANTS
  LastMsg = 9
  PacketSize = 2
  FirstSeqno = 4
  DropEvery = 5
  Asked = 1
  MaxLogins = 2
  Faults = {"send", "refused"}
INVARIANTS TypeOK HandOver RecoveryExact
PROPERTIES ServerSpec RequestAnswered
\* The feed of the instance is finite and the exchange waits for the client.
CHECK_DEADLOCK FALSE
