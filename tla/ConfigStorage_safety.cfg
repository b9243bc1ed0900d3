SPECIFICATION Spec
CONSTANTS
  ip = ip
  id = id
  poe = poe
  d = d
  v = v
  ldr = ldr
  app = app
  app2 = app2
  Key = {ip, id, poe}
  Width = {1, 2, 4}
  Value = {d, v}
  Prog = {ldr, app, app2}
  Table <- MCTable
  Setters = {app, app2}
  Default = d
  Garbage = Garbage
  NoProg = NoProg
  Lost = Lost
  Quiet = Quiet
INVARIANTS ValidIsWhole NoDuplicates
PROPERTIES LoadsWhatIsStored SavesAsTable
