CONSTANTS
  LastJob = 2
  Streams = {out, err}
  MaxOutputs = 2
  MaxDeaths = 1
  MaxChunk = 2
  Payloads <- TwoPayloads
SPECIFICATION Spec
SYMMETRY EitherStream
CHECK_DEADLOCK FALSE
INVARIANTS
  StreamIntact
  NothingHeldBack
