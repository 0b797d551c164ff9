\* The daemon and another writer; two commands go wrong, in any way.
SPECIFICATION MCSpec
CONSTANTS
    Daemon = Daemon
    Admin = Admin
    Clients = {Daemon, Admin}
    Nobody = Nobody
    NoRequest = NoRequest
    NoValue = NoValue
    Percents = {1, 2, 3}
    StartValues = {1}
    EndValues = {2, 3}
    Requests <- MCRequests
    CommandFaults = {"refused", "late", "ignored", "altered"}
    MaxFaults <- TwoFaults
INVARIANTS
    TypeOK
    OneFaultRestored
    NativeTypeOK
    ReportHonest
    OneTroubleSurvived
PROPERTIES
    StoreIsAtomic
    StoreReturns
