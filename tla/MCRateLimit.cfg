\* Windows of two units and of one; a failed command; left-over counters.
CONSTANTS
  Paths = {"/info", "/ping"}
  Rules <- BySession
  Clients <- TwoClients
  MaxFaults = 1
  MaxCount = 3
  MaxNoted = 4
SPECIFICATION TimedSpec
INVARIANT AdmissionsBounded
PROPERTIES DeniedForOwnRequests WindowsRunOut DenialsEnd
