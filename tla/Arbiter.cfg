SPECIFICATION Spec
CONSTANTS
  InstReqs = {i1, i2}
  DataReqs = {d1, d2}
  NoReq = none
INVARIANTS DataAnswerIsOwn InstAnswerIsFetch BoundedOvertaking
PROPERTIES RequestStable Answered
