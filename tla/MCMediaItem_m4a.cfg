\* The same instance; what the documents say of the inputs.
CONSTANTS
    Limit = 1
    MaxSize = 2
    Slots = 1
    Requests <- MCRequests
    Outputs <- MCOutputs
SPECIFICATION Spec
INVARIANTS SupportedAccepted
