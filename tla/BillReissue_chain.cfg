SPECIFICATION ReissueSpec
CONSTANTS
  Generated = {water}
  Imported = {}
  Last = 3
  Requests = {r1}
  Absent = Absent
CHECK_DEADLOCK FALSE
INVARIANT
  OneLivePerFee
