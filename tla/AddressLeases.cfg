\* A /28 whose preferred address lies behind the provider's: the scan wraps.
SPECIFICATION Spec
CONSTANTS
  Size = 16
  ProviderHost = 3
  PreferredHost = 11
INVARIANTS TypeOK AllocateIsTheLoop RefusedOnlyWhenFull NextAddressIsFree
