SPECIFICATION Spec
CONSTANTS
    PageSize = 4
    SampleSize = 1
    SamplesOnPage = 2
    KeyPages = 8
    DataPages = 5
    ScanStride = 4
    KeyAddressPages = 4
    SlotRange = 16
    PageNumbers = 8
    SizeRange = 4
    NumberRange = 3
    Misread <- MCMisread
    MAX_FLASH_OPERATION_ERROR_COUNTER = 2
    MaxTracks = 4
    MaxSamples = 4
    MaxFaults = 2
INVARIANTS
    NextTrackIsFree
