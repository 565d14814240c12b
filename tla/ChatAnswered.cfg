SPECIFICATION ChatFairSpec
CONSTANTS
  Conversations = {v1}
  Messages = {m1, m2}
  ConsentTypes = {"data_processing", "terms"}
CHECK_DEADLOCK FALSE
INVARIANTS
  ChatAsTold
PROPERTIES
  EachMessageAnswered
