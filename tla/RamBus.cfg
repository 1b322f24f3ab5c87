CONSTANTS
  AddrB <- MCAddrB
  AddrC <- MCAddrC
  AddrD <- MCAddrD
  Values = {0, 1}
  NoCall = NoCall
SPECIFICATION Spec
INVARIANTS TypeOK NoContention
PROPERTIES PinsKept ImplementsCell
