SPECIFICATION AllSpec
CONSTANTS
  Servers = {v1, v2}
  Deadline = 2
  MaxRequests = 2
  MaxForgets = 1
  NotResponding = 2
  Dead = 5
  MaxOutstanding = 3
  Exchanges = {e1, e2}
  Answers <- SomeAnswers
  kHeartbeatMissMax = 2
  MaxDatagrams = 2
  MaxRekeys = 1
 
PROPERTIES
  AdoptedOnlyIfAsked
  AnsweredByThePinned
  ControlSettles
CHECK_DEADLOCK FALSE
