CONSTANTS
  Client = {c1, c2}
  MaxOutput = 3
  Heavy = {1}
  PendingMaxChunks = 2
  PendingMaxBytes = 2
SPECIFICATION SshSpec
INVARIANTS StreamIsSafe FramesAreInOrder EventsAreTrusted
PROPERTIES AbandonedSessionEnds SshSettles
CHECK_DEADLOCK FALSE
