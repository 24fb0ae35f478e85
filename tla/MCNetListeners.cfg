\* Clashing ports, failing binds and a TFTP close that throws.
CONSTANTS
    TcpPorts = {23, 80}
    UdpPorts = {53, 69}
    TelnetPort = 23
    TftpPort = 69
    MaxTcpServers = 2
    MaxUdpSocks = 4
    Supported <- AllServices
    MaxFaults = 2
    MaxThrows = 1
SPECIFICATION FairSpec
INVARIANTS TypeOK SlotsOwned DisabledIsClosed ConfiguredIsOpen
PROPERTY TelnetComesBack
