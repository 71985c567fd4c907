SPECIFICATION FairSpec
CONSTANTS
  uart = uart
  pin = pin
  profiler = profiler
  None = None
  Clients <- MCClients
  Devices <- MCDevices
  ClockSize = 3
  MaxEvents = 2
  MaxTicks = 3
INVARIANTS
  Registry
  Offered
  PeriodElapsed
PROPERTY
  Served
