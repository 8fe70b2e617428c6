SPECIFICATION Spec
CONSTANTS
    Pcs = {8}
    EntryPc = 8
    Guests <- AllGuests
INVARIANTS MprvOnlyInMachine TrapReturnRestores DoubleReturnLeavesMachine SbiStaysBelowMachine KernelReadsTime SbiUnhandledVectorsToZero InterruptsRespectPrivilege
PROPERTIES Isolation PrivilegeRisesByTrap
CHECK_DEADLOCK FALSE
