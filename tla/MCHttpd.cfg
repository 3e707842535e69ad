SPECIFICATION Spec
CONSTANTS
  Conn = {c1, c2, c3}
  Backlog = 2
  MaxFd = 6
  Inherited <- Stdio
INVARIANTS
  TypeOK
  DescriptorsKept
  AnsweredOnce
PROPERTY
  EveryoneServed
\* The server waits in accept() when nobody comes any more.
CHECK_DEADLOCK FALSE
