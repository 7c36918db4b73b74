\* One run and one stream, three events, any break and any cancellation.
SPECIFICATION Spec
CONSTANTS
  c1 = c1
  s1 = s1
  r1 = r1
  r2 = r2
  NoRun = NoRun
  RunCalls <- MCRunCalls
  StreamCalls <- MCStreamCalls
  Runs <- MCRuns
  Frail <- MCFrail
  MaxEvents = 3
INVARIANTS
  TypeOK
  AnswerIsOwn
  SocketsClosed
  StreamHasNoGap
PROPERTY RunCallEnds
CHECK_DEADLOCK FALSE
