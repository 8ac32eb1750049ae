SPECIFICATION Spec
INVARIANTS
    BytesPassInOrder
    StoresKeepWhatTheyPromise
    ProtocolsSeeTheWholeStream
    JobsRunWhenTheyAreDue
    ItoServerKeepsMessages
PROPERTIES
    ItoWaitingIsAnswered
CHECK_DEADLOCK FALSE
