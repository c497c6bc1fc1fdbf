SPECIFICATION AnalysisSpec
CONSTANTS
    Scenes <- MCScenes
    MaxPackets = 4
    Dissectors = {"tshark", "dpi"}
    CollapseAt = 3
    ServicePorts = {502, 80, 102, 44818, 53}
    EphemeralMin = 32768
    SkipEphemeral = TRUE
    OTProtocols = {"Modbus/TCP", "S7comm", "PROFINET", "CIP", "LLDP"}
    BeaconMin = 3
    Random = {"random1", "random2"}
    Writes = {"write"}
    Broadcasts = {}
    PublicIps = {"i4"}
    Subnets <- MCSubnets
    Ports <- MCPorts
    Protocols <- MCProtocols
    Fns <- MCFns
    Limits <- MCLimits
    VendorOf <- MCVendorOf
    IdentityOf <- MCIdentityOf
    HintsOf <- MCHintsOf
    RoleOfPort <- MCRoleOfPort
    NetworkVendors = {"cisco"}
    EolProducts = {"s7-300"}
    SubnetOf <- MCSubnetOf
    Advisories <- MCAdvisories
    Indicators = {"set", "random1"}
    Fast = FALSE
    AptPacks <- MCAptPacks
    ArpPacks <- MCArpPacks
    Families <- MCFamilies
    ExpectedOf <- MCExpectedOf
    BroadcastMac = "ff"
    ObsCap = 3
    AliasGroups <- MCAliasGroups
    Catalog <- MCCatalog
    MitreRules <- MCMitreRules
    Contents <- MCContents
    Times = {1, 2}
    MaxFiles = 3
    Limit = 2
    Assets <- MCAssets
    Severities <- MCSeverities
    Plugins <- MCPlugins
    Mitre = "mitre"
    MaxFaults = 2
    MaxExtra = 1
INVARIANTS TotalsSurviveCuts CutsKeepAnalysis NoDeviceTwice FindingsAreOnTheMap
    RollupIgnoresListing NewsIsOfTheLastScan FinishedShowsAll ClaimsAreFound
CHECK_DEADLOCK FALSE
