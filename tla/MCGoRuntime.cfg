CONSTANTS
  Items = 3
  Workers = 2
SPECIFICATION Spec
INVARIANTS OutputRight SharedStateSafe
PROPERTY GoroutinesEnd
CHECK_DEADLOCK FALSE
