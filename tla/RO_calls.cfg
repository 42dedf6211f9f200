SPECIFICATION Spec
CONSTANTS
    eth = eth
    gw1 = gw1
    Interfaces = {eth, wifi}
    Gateways = {gw1}
    Unset = Unset
    Router = Router
    None = None
    Faults = {"create", "delete", "query", "vanish"}
    Tables <- OrdinaryTables
INVARIANTS CallsKeepContract NoResidue HandleKnowsAll
