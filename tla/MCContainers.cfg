SPECIFICATION Spec
INVARIANTS
    ContainersStandForTheirCalls
    SharingIsInvisible
    WrittenComesBack
    ReadersFindTheMeaning
CHECK_DEADLOCK FALSE
