SPECIFICATION Spec
CONSTANTS
    Requests <- MCRequests
    Replies <- MCReplies
INVARIANTS
    TypeOK
    EvidenceAgreesWithSchema
    ProvenSessionIsReleased
    EvidenceBindsCandidate
PROPERTIES
    ForeignSessionKept
    CancelEndsTheGate
