CONSTANTS
    d1 = d1
    s1 = s1
    s2 = s2
    h1 = h1
    Devices <- MCDevices
    Servers <- MCServers
    Hashes <- MCHashes
    Need = 1

SYMMETRY ServerSymmetry

SPECIFICATION Spec

INVARIANT AdminOnlyForAdmin
