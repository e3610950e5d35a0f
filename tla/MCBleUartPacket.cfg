CONSTANTS
    PacketSize = 2
    SizeRange = 6
    Lengths = {0, 2}
    NoteLength = 1
    MaxEvents = 2
    MaxNotes = 1
SPECIFICATION FairSpec
INVARIANT
    WaitsForAPacket
