SPECIFICATION FairSpec
CONSTANTS
  p1 = p1
  p2 = p2
  p3 = p3
  p4 = p4
  p5 = p5
  Pid = {p1, p2, p3, p4, p5}
  InitPid = p1
  NoPid = NoPid
  Faults = {"module", "fork", "exec", "devnull", "crash"}
INVARIANTS
  TypeOK
  OneReader
  NoOrphans
  CleanSlate
  LoginNamesSession
PROPERTIES
  ImplementsSupervisor
  SessionRestarts
  ZombiesReaped
