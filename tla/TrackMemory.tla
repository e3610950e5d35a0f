---------------------------- MODULE TrackMemory ----------------------------
(***************************************************************************)
(* The recorded tracks in the external flash (memory_organization.c in the *)
(* EXT_FLASH_AVAILABLE build).  A key area maps track numbers to the page  *)
(* a track starts at; a data area holds the samples, page after page, and  *)
(* the size of a track in the header word of its first page.  All of it    *)
(* runs in the main loop; what interrupts it is a loss of power, between   *)
(* any two programmings of the flash.                                      *)
(*                                                                         *)
(* Addresses count 4-byte words: a page header, a key and a quarter of     *)
(* MEM_ORG_KEY_AREA_KEYS_ON_PAGE's bytes are one word each, and the two    *)
(* constants of the code below are in words as well.  The flash is only    *)
(* ever programmed without erasing, which clears bits and sets none.       *)
(***************************************************************************)
EXTENDS Integers, Sequences, FiniteSetsExt

CONSTANTS
    PageSize,           \* EXT_FLASH_PAGE_SIZE, 64 words
    SampleSize,         \* sizeof(mem_org_gps_sample_t), 6 words
    SamplesOnPage,      \* MEM_ORG_DATA_SAMPLES_ON_INT_FLASH_PAGE, 10
    KeyPages,           \* pages of the key area, 32
    DataPages,          \* pages of the data area, 32736
    ScanStride,         \* pages from one searched key page to the next, 4
    KeyAddressPages,    \* data pages the 16 address bits of a key reach, 8192
    SlotRange,          \* values of the uint8_t key_on_page, 256
    PageNumbers,        \* values of the uint8_t page_number, 256
    SizeRange,          \* the size field's range, 2^16 bytes
    NumberRange,        \* track numbers a list tells apart, 256
    Misread,            \* the key that a word which holds none is taken for
    MAX_FLASH_OPERATION_ERROR_COUNTER,      \* 3
    MaxTracks,          \* bound: tracks started between two erasures
    MaxSamples,         \* bound: samples stored between two erasures
    MaxFaults           \* bound: power losses and failed programmings

\* MEM_ORG_KEY_AREA_KEYS_ON_PAGE, as the header means it.
KeysOnPage == PageSize - 1

\* The same macro has no outer parentheses and ends in "/4": x / KEYS is
\* (x / bytes) / 4 and x % KEYS is (x % bytes) / 4.
KeyBytesOnPage == 4 * KeysOnPage

DataStart == KeyPages * PageSize
DataEnd == DataStart + DataPages * PageSize
Words == 0 .. DataEnd - 1

ASSUME LayoutAssumption ==
    /\ {PageSize, SampleSize, SamplesOnPage, KeyPages, DataPages, ScanStride,
        KeyAddressPages, SlotRange, PageNumbers, SizeRange, NumberRange,
        MAX_FLASH_OPERATION_ERROR_COUNTER, MaxTracks, MaxSamples}
           \subseteq Nat \ {0}
    /\ SampleSize + 1 < PageSize
    /\ KeyAddressPages <= DataPages
    /\ (PageNumbers - 1) * PageSize + SlotRange < DataEnd
    /\ MaxFaults \in Nat

\* A uint8_t numbers the slots of a page, 63 of 256.
ASSUME SlotsAssumption == KeysOnPage <= SlotRange

VARIABLES
    flash,                          \* survives a loss of power
    next_free_key_address,
    next_free_data_sample_address,
    tracks_stored,
    storage_enabled,                \* mem_org_track_samples_storage_enabled
    track_size,
    pc,                             \* where Mem_Org_Store_Key is
    key,                            \* its local of the same name
    safety_counter,
    \* Ghost variables.
    log,                            \* what was stored since the last erasure
    breached,                       \* limits of the format met since then
    faults                          \* counted for MaxFaults

ram == <<next_free_key_address, next_free_data_sample_address, tracks_stored,
         storage_enabled, track_size>>
call == <<pc, key, safety_counter>>
vars == <<flash, ram, call, log, breached, faults>>

-----------------------------------------------------------------------------
(* The flash                                                               *)

Erased == [kind |-> "erased"]
Corrupt == [kind |-> "corrupt"]
Key(t, p, open) == [kind |-> "key", track |-> t, page |-> p, open |-> open]
Header(size) == [kind |-> "header", size |-> size]
Sample(i, part) == [kind |-> "sample", nr |-> i, part |-> part]

Keys == [kind : {"key"}, track : Nat, page : Nat, open : BOOLEAN]
OtherWords ==
    {Erased, Corrupt}
    \cup [kind : {"header"}, size : 0 .. SizeRange - 1]
    \cup [kind : {"sample"}, nr : 1 .. MaxSamples, part : 0 .. SampleSize - 1]
Word == OtherWords \cup Keys

\* A number has 15 bits of a word, an address 16 and one is left: whatever a
\* word holds, it is taken for some key (an address within a page for the
\* page's).  Searches for fewer than 28225 tracks stay in the key area.
ASSUME MisreadAssumption == Misread \in [OtherWords -> Keys]

AsKey(word) == IF word.kind = "key" THEN word ELSE Misread[word]

OrBits[a \in Nat] ==
    [b \in Nat |->
        IF a = 0 \/ b = 0 THEN a + b
        ELSE 2 * OrBits[a \div 2][b \div 2] + (IF a % 2 = 1 THEN 1 ELSE b % 2)]

AndBits[a \in Nat] ==
    [b \in Nat |->
        IF a = 0 \/ b = 0 THEN 0
        ELSE 2 * AndBits[a \div 2][b \div 2] + (a % 2) * (b % 2)]

\* A programming without pre-erase: a bit ends up set if it was set in both.
Programmed(old, new) ==
    CASE old = Erased -> new
      [] old.kind = "key" /\ new.kind = "key" ->
             Key(AndBits[old.track][new.track], AndBits[old.page][new.page],
                 old.open /\ new.open)
      [] old.kind = "header" /\ new.kind = "header" ->
             Header(AndBits[old.size][new.size])
      [] OTHER -> Corrupt

PageStart(a) == a - (a % PageSize)
NextPage(a) == PageStart(a) + PageSize

\* Mem_Org_Store_Key: an address beyond the 16 bits is or-ed into the number.
Encoded(address, t) ==
    LET page == (address - DataStart) \div PageSize
    IN  Key(OrBits[t][page \div KeyAddressPages], page % KeyAddressPages, TRUE)

\* Mem_Org_Get_Key_Encoded_Address
Address(page) == DataStart + page * PageSize

Found(page) == [result |-> "found", page |-> page]
NotFound == [result |-> "not_found"]
TimedOut == [result |-> "timeout"]

\* Mem_Org_Find_Key.  It follows numbers up and down the slots, also out of
\* the key area; a search that has not ended when it must have come back to a
\* slot never does, and the two-second timeout ends it.
FindKey(fl, t) ==
    LET page == IF t = 0 THEN 0
                ELSE (((t - 1) \div KeyBytesOnPage) \div 4) % PageNumbers
        first == IF t = 0 THEN 0
                 ELSE (((t - 1) % KeyBytesOnPage) \div 4) % SlotRange
        word(k) == fl[page * PageSize + 1 + k]
        search[reads \in 0 .. SlotRange] ==
            [k \in 0 .. SlotRange - 1 |->
                IF reads = 0 THEN TimedOut
                ELSE IF word(k) = Erased THEN NotFound
                ELSE LET found == AsKey(word(k))
                     IN  IF found.track = t /\ ~found.open
                           THEN Found(found.page)
                         ELSE IF found.track > t
                           THEN search[reads - 1][(k + SlotRange - 1) % SlotRange]
                         ELSE search[reads - 1][(k + 1) % SlotRange]]
    IN  search[SlotRange][first]

-----------------------------------------------------------------------------
(* Mem_Org_Init                                                            *)

SearchedWords ==
    {w \in 0 .. DataStart - 1 :
        (w \div PageSize) % ScanStride = 0 /\ w % PageSize # 0}

\* Mem_Org_Track_Address_Find_First_Free.  Find_Key has turned the flash off
\* when the header is read, so any size may be seen; the walk over an
\* unfinished track sees anything as well, and may time out.  After a timeout
\* of Find_Key itself the key is an uninitialised local.
FirstFreeTrackAddresses(fl, t, before) ==
    LET k == FindKey(fl, t)
        pages == IF k.result = "found" THEN {k.page} ELSE 0 .. KeyAddressPages - 1
        used(size) == (size \div (SamplesOnPage * SampleSize)) % 256
    IN  IF k.result = "not_found" THEN {DataStart}
        ELSE {before} \cup UNION
               {{Address(p)} \cup {Address(p) + (used(size) + 1) * PageSize :
                                      size \in 0 .. SizeRange - 1} : p \in pages}

\* Both callers have just set mem_org_tracks_stored to 0.
MemOrgInit(fl, before) ==
    LET free == {w \in SearchedWords : fl[w] = Erased}
        passed == {w \in SearchedWords : \A f \in free : w < f}
        t == IF passed = {} THEN 0 ELSE AsKey(fl[Max(passed)]).track
    IN  /\ tracks_stored' = t
        /\ IF free = {}
             THEN /\ next_free_key_address' = 0
                  /\ next_free_data_sample_address' = before
             ELSE /\ next_free_key_address' = Min(free)
                  /\ next_free_data_sample_address'
                         \in FirstFreeTrackAddresses(fl, t, before)

\* A watch with an erased flash, after Mem_Org_Init.
Init ==
    /\ flash = [w \in Words |-> Erased]
    /\ next_free_key_address = 1
    /\ next_free_data_sample_address = DataStart
    /\ tracks_stored = 0
    /\ storage_enabled = FALSE
    /\ track_size = 0
    /\ pc = "idle"
    /\ key = Erased
    /\ safety_counter = 0
    /\ log = <<>>
    /\ breached = {}
    /\ faults = 0

-----------------------------------------------------------------------------
(* Mem_Org_Track_Start_Storage and Mem_Org_Store_Key                       *)

\* Where Mem_Org_Store_Key programs, if it goes on.
KeyAreaBreach(a) == IF a \in 1 .. DataStart - 1 THEN {} ELSE {"key area"}

StartBreaches ==
    (IF tracks_stored >= KeysOnPage THEN {"key page"} ELSE {})
    \cup (IF next_free_data_sample_address
                 >= DataStart + KeyAddressPages * PageSize
            THEN {"address"} ELSE {})
    \cup KeyAreaBreach(next_free_key_address)
    \cup (IF "restart" \in breached THEN {"reused"} ELSE {})

TrackStart ==
    /\ pc = "idle"
    /\ ~storage_enabled
    /\ tracks_stored < MaxTracks
    /\ tracks_stored' = tracks_stored + 1
    /\ key' = Encoded(next_free_data_sample_address, tracks_stored + 1)
    /\ safety_counter' = 0
    /\ pc' = "store key"
    /\ breached' = breached \cup StartBreaches
    /\ UNCHANGED <<flash, next_free_key_address, next_free_data_sample_address,
                   storage_enabled, track_size, log, faults>>

\* What Store_Key returns is ignored: recording starts in either case.
Return ==
    /\ pc' = "idle"
    /\ key' = Erased
    /\ safety_counter' = 0
    /\ storage_enabled' = TRUE

\* while(++safety_counter < MAX_FLASH_OPERATION_ERROR_COUNTER)
Retry ==
    IF safety_counter + 1 < MAX_FLASH_OPERATION_ERROR_COUNTER
      THEN /\ safety_counter' = safety_counter + 1
           /\ pc' = "store key"
           /\ breached' = breached \cup {"failure"}
                                   \cup KeyAreaBreach(next_free_key_address')
           /\ UNCHANGED <<key, storage_enabled>>
      ELSE /\ breached' = breached \cup {"failure", "no key"}
           /\ Return

\* A failed programming leaves the word as it was.
Fail ==
    /\ faults < MaxFaults
    /\ faults' = faults + 1
    /\ UNCHANGED flash

ProgramKey ==
    flash' = [flash EXCEPT ![next_free_key_address] = Programmed(@, key)]

StoreKey ==
    /\ pc = "store key"
    /\ ProgramKey
    /\ key' = [key EXCEPT !.open = FALSE]
    /\ pc' = "acknowledge"
    /\ UNCHANGED <<ram, safety_counter, log, breached, faults>>

\* The slot is left behind, without a look at the page boundary.
StoreKeyFails ==
    /\ pc = "store key"
    /\ Fail
    /\ next_free_key_address' = next_free_key_address + 1
    /\ Retry
    /\ UNCHANGED <<next_free_data_sample_address, tracks_stored, track_size, log>>

SlotAfter_HeaderUsed(a) == a + 1

SlotAfter_Stays(a) == a

SlotAfter(a) == IF (a + 1) % PageSize = 0 THEN a + 2 ELSE a + 1

AcknowledgeKey ==
    /\ pc = "acknowledge"
    /\ ProgramKey
    /\ next_free_key_address' = SlotAfter(next_free_key_address)
    /\ Return
    /\ UNCHANGED <<next_free_data_sample_address, tracks_stored, track_size,
                   log, breached, faults>>

AcknowledgeKeyFails ==
    /\ pc = "acknowledge"
    /\ Fail
    /\ UNCHANGED <<next_free_key_address, next_free_data_sample_address,
                   tracks_stored, track_size, log>>
    /\ Retry

-----------------------------------------------------------------------------
(* Recording, the end of a track, erasing                                  *)

\* What Ext_Flash_Program_... returns is ignored for headers and samples.
FailUnseen ==
    /\ Fail
    /\ breached' = breached \cup {"failure"}

\* Mem_Org_Track_Stop_Storage.  When the key is not found, the local is 0 and
\* the header goes to the first page of the data area.
StopStorage ==
    LET k == FindKey(flash, tracks_stored)
        start == Address(IF k.result = "found" THEN k.page ELSE 0)
    IN  /\ storage_enabled' = FALSE
        /\ \/ /\ flash' = [flash EXCEPT ![start] = Programmed(@, Header(track_size))]
              /\ UNCHANGED <<breached, faults>>
           \/ FailUnseen
        /\ next_free_data_sample_address' = NextPage(next_free_data_sample_address)
        /\ track_size' = 0
        /\ UNCHANGED <<next_free_key_address, tracks_stored, call, log>>

TrackStop ==
    /\ pc = "idle"
    /\ storage_enabled
    /\ StopStorage

MemoryFull == next_free_data_sample_address + SampleSize >= DataEnd

AddressAfter_LastWordsUsed(a) ==
    LET next == a + SampleSize
    IN  IF next + SampleSize > NextPage(next) THEN NextPage(next) + 1 ELSE next

AddressAfter(a) ==
    LET next == a + SampleSize
    IN  IF next + SampleSize >= NextPage(next) THEN NextPage(next) + 1 ELSE next

AfterHeader_NotSkipped(a) == a

AfterHeader(a) == IF a % PageSize = 0 THEN a + 1 ELSE a

Grown_Unwrapped(size) == size + SampleSize

Grown(size) == (size + SampleSize) % SizeRange

\* Mem_Org_Store_Sample
StoreSample ==
    /\ pc = "idle"
    /\ storage_enabled
    /\ ~MemoryFull
    /\ Len(log) < MaxSamples
    /\ LET at == AfterHeader(next_free_data_sample_address)
           nr == Len(log) + 1
       IN  /\ \/ /\ flash' = [w \in Words |->
                                IF w \in at .. at + SampleSize - 1
                                  THEN Programmed(flash[w], Sample(nr, w - at))
                                  ELSE flash[w]]
                 /\ log' = Append(log, [track |-> tracks_stored, at |-> at])
                 /\ UNCHANGED <<breached, faults>>
              \/ /\ FailUnseen
                 /\ UNCHANGED log
           /\ next_free_data_sample_address' = AddressAfter(at)
    /\ track_size' = Grown(track_size)
    /\ UNCHANGED <<next_free_key_address, tracks_stored, storage_enabled, call>>

StoreSampleWhenFull ==
    /\ pc = "idle"
    /\ storage_enabled
    /\ MemoryFull
    /\ StopStorage

\* Mem_Org_Clear_Tracks_Memory and Mem_Org_Init, as the request calls them,
\* whether a track is being recorded or not.
ClearTracks ==
    /\ pc = "idle"
    /\ flash' = [w \in Words |-> Erased]
    /\ MemOrgInit(flash', next_free_data_sample_address)
    /\ log' = <<>>
    /\ breached' = {}
    /\ UNCHANGED <<storage_enabled, track_size, call, faults>>

\* Power is lost, and main initialises the module again.
Restart ==
    /\ faults < MaxFaults
    /\ faults' = faults + 1
    /\ MemOrgInit(flash, DataStart)
    /\ storage_enabled' = FALSE
    /\ track_size' = 0
    /\ pc' = "idle"
    /\ key' = Erased
    /\ safety_counter' = 0
    /\ breached' = breached \cup {"restart"}
    /\ UNCHANGED <<flash, log>>

-----------------------------------------------------------------------------
Next ==
    \/ TrackStart
    \/ StoreKey
    \/ StoreKeyFails
    \/ AcknowledgeKey
    \/ AcknowledgeKeyFails
    \/ TrackStop
    \/ StoreSample
    \/ StoreSampleWhenFull
    \/ ClearTracks
    \/ Restart

Spec == Init /\ [][Next]_vars

-----------------------------------------------------------------------------
(* What the central is sent                                                *)

HeaderSize(word) == IF word.kind = "header" THEN word.size ELSE SizeRange - 1

\* Where Mem_Org_Send_Track_Via_BLE reads next, given where it left off.
ReadAddress(a) == AfterHeader(IF a + SampleSize >= NextPage(a) THEN NextPage(a)
                                                               ELSE a)

\* Mem_Org_Send_Track_Via_BLE: the words of the samples that are sent, one
\* sample at least and none that reaches the end of the memory.
Sent(page) ==
    LET start == Address(page)
        size == HeaderSize(flash[start])
        left[n \in Nat] == IF n = 0 THEN start ELSE ReadAddress(left[n - 1]) + SampleSize
        samples == {n \in 0 .. size : \/ n = 0
                                      \/ n * SampleSize < size}
        sent == {n \in samples : \A m \in 0 .. n : left[m] + SampleSize < DataEnd}
    IN  [n \in 1 .. Cardinality(sent) |->
            [part \in 0 .. SampleSize - 1 |-> flash[ReadAddress(left[n - 1]) + part]]]

\* The i-th slot for a key, page headers left out.
KeySlot(i) == ((i - 1) \div KeysOnPage) * PageSize + 1 + ((i - 1) % KeysOnPage)

\* Mem_Org_List_Tracks_Through_BLE: the track numbers sent, up to the first
\* erased slot or number that is not stored.  The time of a track goes over the
\* second byte of its number.
Listed ==
    LET slots == 1 .. KeyPages * KeysOnPage
        listed == {i \in slots : \A j \in 1 .. i :
                      /\ flash[KeySlot(j)].kind = "key"
                      /\ flash[KeySlot(j)].track <= tracks_stored}
    IN  [i \in 1 .. Cardinality(listed) |-> flash[KeySlot(i)].track % NumberRange]

-----------------------------------------------------------------------------
TypeOK ==
    /\ flash \in [Words -> Word]
    /\ next_free_key_address \in Nat
    /\ next_free_data_sample_address \in Nat
    /\ tracks_stored \in Nat
    /\ storage_enabled \in BOOLEAN
    /\ track_size \in 0 .. SizeRange - 1
    /\ pc \in {"idle", "store key", "acknowledge"}
    /\ key \in Word
    /\ safety_counter \in 0 .. MAX_FLASH_OPERATION_ERROR_COUNTER - 1
    /\ log \in Seq([track : Nat, at : Words])
    /\ breached \subseteq {"key page", "address", "key area", "failure",
                           "no key", "restart", "reused"}
    /\ faults \in 0 .. MaxFaults

\* Until a restart, whatever is recorded, erased in mid-track or cut short by
\* a full memory, and even when keys fail to be stored or are not found, every
\* sample stored since the last erasure is in the flash as it was stored: no
\* track, header or key is ever programmed over it.
SamplesIntact ==
    breached \cap {"restart", "key area"} = {} =>
        \A i \in DOMAIN log : \A part \in 0 .. SampleSize - 1 :
            flash[log[i].at + part] = Sample(i, part)

\* The samples of a track in the order in which they were stored.
Recorded(t) ==
    LET numbers == {i \in DOMAIN log : log[i].track = t}
    IN  [n \in 1 .. Cardinality(numbers) |->
            LET i == CHOOSE i \in numbers :
                        Cardinality({j \in numbers : j <= i}) = n
            IN  [part \in 0 .. SampleSize - 1 |-> Sample(i, part)]]

Finished(t) == pc = "idle" /\ (t < tracks_stored \/ ~storage_enabled)

\* What the central gets of a track, or will get once the track is finished.
\* An empty track is sent as one sample, whatever is there, and one whose size
\* does not fit the header in part; both are left out.
Track(t) ==
    LET samples == Recorded(t)
        k == FindKey(flash, t)
    IN  IF ~Finished(t) \/ Len(samples) * SampleSize \notin 1 .. SizeRange - 1
          THEN samples
        ELSE IF k.result = "found" THEN Sent(k.page) ELSE <<>>

Store == INSTANCE TrackStore WITH
    Samples   <- {[part \in 0 .. SampleSize - 1 |-> Sample(i, part)] :
                     i \in 1 .. MaxSamples},
    tracks    <- [t \in 1 .. tracks_stored |-> Track(t)],
    recording <- storage_enabled \/ pc # "idle",
    restarted <- "restart" \in breached,
    void      <- breached \ {"restart"} # {}

\* Within the format's limits the flash is a store of tracks: a finished track is
\* sent exactly as it was recorded, all its samples and nothing else, also over
\* page boundaries and when the memory filled up (the writer and the reader skip
\* the same words), and a loss of power leaves the finished tracks as they are
\* until another is started.
StoresTracks == Store!Spec

\* Until a restart or a failure, the list of available tracks is complete and
\* in order, over the pages of the key area and of the numbers it can tell apart.
ListedInOrder ==
    breached \subseteq {"key page"} /\ pc = "idle" =>
        Listed = [i \in 1 .. tracks_stored |-> i % NumberRange]

Acknowledged(w) == flash[w].kind = "key" /\ ~flash[w].open

\* Only an erasure loses a key that was acknowledged: power losses alone never
\* make a later track use its slot, nor do failed programmings alone, as long
\* as Mem_Org_Store_Key does not give up, its pointer still on the slot.  (A
\* failure leaves a hole, and after a restart the tracks are keyed from the
\* hole on, over the keys behind it.)
KeysKept ==
    [][ \/ \A w \in Words : flash'[w] = Erased
        \/ breached' \cap {"key area", "no key"} # {}
        \/ {"failure", "restart"} \subseteq breached'
        \/ \A w \in 0 .. DataStart - 1 : Acknowledged(w) => flash'[w] = flash[w] ]_vars

-----------------------------------------------------------------------------
(* What a comment of the code says and the code does not do                *)

\* "This function finds the first free page where the track can be stored":
\* after a restart nothing is stored where the next track will be.
NextTrackIsFree ==
    pc = "idle" /\ ~storage_enabled =>
        \A i \in DOMAIN log : log[i].at < next_free_data_sample_address
=============================================================================
