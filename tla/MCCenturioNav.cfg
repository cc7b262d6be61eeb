CONSTANTS
  Rate = 10  MaxSpeed = 2000  GainDiv = 2  SlewStep = 3  Arrival = 100  StartAlt = 500
  CounterSize = 3  MaxCmds = 3  MaxRange = 700
  Modes <- MCModes
  Positions <- MCPositions
  Velocities <- MCVelocities
  Attitudes <- MCAttitudes
  Throttles <- MCThrottles
SPECIFICATION FairSpec
INVARIANTS TypeOK StaysHome AxisSpeedLimited
PROPERTIES NoOvershoot TurnsShortWay Arrives AttitudeReached
CHECK_DEADLOCK FALSE
