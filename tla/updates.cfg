SPECIFICATION Spec
CONSTANTS
  Team = {"t1", "t2"}
  User = {"u1"}
  Client = {"c1", "c2", "c3"}
  NoUser = "nobody"
  Worker = {"w1", "w2"}
  Earlier = {"s0"}
  Number <- MCNumber
  AccountOf <- MCAccountOf
  TeamOf <- MCTeamOf
  View <- MCView
  Rows <- MCRows
  MaxActive = 2
  MaxSecret = 1
  Limit = 2
  Capacity = 1
  MaxMessage = 2
  Plans <- MCPlans
INVARIANTS TypeOK NothingIsForgotten SessionsAreLimited
PROPERTIES ScreensCatchUp
CHECK_DEADLOCK FALSE
