\* One input and OFF; one output that is configured and one that is not.
\* Debouncing of 2 scan periods, delays of up to 3, up to 3 waiting events;
\* 2 characters in the kernel, and no new event while 4 are to be sent.
CONSTANTS
  Inputs = {1}
  Outputs = {1, 2}
  Unconfigured = {2}
  Lines = {1, 2}
  Debounce = 2
  MaxInterval = 3
  MaxWaiting = 3
  NoInput = NoInput
  MaxInputs = 2
  InputQuantity = 1
  Addresses = {"a1", "a2"}
  NoAddress = "none"
  Profiles <- MCProfiles
  RunProfiles <- MCRunProfiles
  Netcue <- MCNetcue
  LineEnd = "eol"
  TtyLimit = 2
  UartSize = 2
  UnsignedSize = 256
  MaxBacklog = 3
SPECIFICATION NetcuesSpec
INVARIANTS
  NetcuesTypeOK
  Debounced
  NoneForgotten
PROPERTIES
  NothingOverdue
  SentAsReceived
  ImplementsNetcueLine
  AddressesAsListed
