CONSTANTS
  Requests <- MCRequests
  Ids = 2
  Faults = {"lost_in", "lost_ack"}
SPECIFICATION FairSpec
INVARIANTS TypeOK NextAnswerFits AddressAgreed SetupNotNaked OneDropResyncs
PROPERTIES ImplementsOutPipe ControlTransfersEnd
