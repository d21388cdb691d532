\* Three completions with up to two tool calls each: a call answered in the first
\* round and one in the second, and a run that uses up max_steps.
SPECIFICATION Spec
CONSTANTS
  MaxSteps = 3
  CallId = {id1, id2}
  MaxCalls = 2
INVARIANT
  CallsAnswered
PROPERTY
  WritesAStream
CHECK_DEADLOCK FALSE
