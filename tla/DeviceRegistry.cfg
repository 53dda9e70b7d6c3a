SPECIFICATION Spec
CONSTANTS
  Callers = {c1, c2, c3}
  Devices = {d1, d2}
  MaxObjects = 6
  None = None
INVARIANTS TypeOK RegistryOwnsObjects ListedDevicesExist
