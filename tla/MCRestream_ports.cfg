SPECIFICATION Spec
CONSTANTS
    i1 = i1  i2 = i2  i3 = i3  p1 = p1  p2 = p2  p3 = p3  p4 = p4  t1 = t1  t2 = t2
    NoId = NoId
    Ids = {i1, i2, i3}
    Ports = {p1, p2, p3, p4}
    Adders = {t1, t2}
    Configs <- PlayoutConfigs
    MaxProc = 2
    Window = TRUE
    Again = TRUE
SYMMETRY Symmetry
INVARIANTS TypeOK PlayoutPortsExclusive Durable TasksOK PortsApart RulesMatch
