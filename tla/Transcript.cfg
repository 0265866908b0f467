SPECIFICATION TranscriptSpec
CHECK_DEADLOCK FALSE
CONSTANTS
  Parties = {prover, verifier}
  Messages <- MCMessages
  ChallengeRequests <- MCRequests
  ByteBits = 1
  IndexBytes = 2
  BlockBytes = 2
  MaxHistory = 2
  None = None
SYMMETRY Symmetry
INVARIANTS
  ChallengesBindHistory
  SamplingIsEven
