SPECIFICATION LiveSpec
CONSTANTS
    switch = switch
    vm1 = vm1
    vm2 = vm2
    eth1 = eth1
    eth2 = eth2
    Node = {switch, vm1, vm2}
    Linux = {switch}
    Port = {eth1, eth2}
    Host <- OnSwitch
    FarEnd <- Cabling
    Bridge = {br0}
    NoBridge = NoBridge
    NoNode = NoNode
    MaxTrouble = 2
INVARIANTS MembershipRecoverable
PROPERTIES RestoresWanted RetryRecovers
