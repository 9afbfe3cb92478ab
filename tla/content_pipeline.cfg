SPECIFICATION Spec
CONSTANTS
    q1 = q1  q2 = q2  q3 = q3
    r1 = r1  r2 = r2
    alice = alice  bob = bob
    Questions = {q1, q2, q3}
    Prompts = {"journey", "lever"}
    Prompt <- PromptOf
    Sound <- AllSound
    Identities = {alice, bob}
    Requests = {r1, r2}
    Kinds = {"IMPORT", "GENERATE", "VALIDATE", "REVIEW", "RELEASE", "QUARANTINE"}
    MaxRequests = 6
    Null = Null
SYMMETRY Alike
INVARIANTS TypeOK NoTwinsPass BackedByEvidence LogTellsStatus
PROPERTY ImplementsGate
CHECK_DEADLOCK FALSE
