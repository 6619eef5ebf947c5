SPECIFICATION Spec
CONSTANTS
  Devices = {d1}
  Threads <- AllLoops
  Deployments <- Meeting
  MaxFlips = 2
  MaxFaults = 1
 
PROPERTIES EngineAlertTracks BacklogRereported 
