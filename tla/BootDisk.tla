------------------------------ MODULE BootDisk ------------------------------
(***************************************************************************)
(* The mass storage boot loader: SCSI commands of the host become page     *)
(* erases and writes of the flash that holds the application, or writes of *)
(* the EEPROM that holds its settings; an eject starts the application     *)
(* (BootloaderMassStorage.c, Lib/SCSI.c, Lib/VirtualFAT.c,                 *)
(* BootloaderAPI.c).  Every page is erased and written in a step of its    *)
(* own, and the power may fail between any two.                            *)
(***************************************************************************)
EXTENDS VirtualFat

CONSTANTS
  AuxSectors,          \* AUX_BOOT_SECTION_SIZE: boot loader code below BOOT_START_ADDR
  BootSectors,         \* boot loader code from BOOT_START_ADDR on
  Pages,               \* flash pages of a sector
  TickLimit,           \* 0xFF
  Default,             \* the start clusters FirmwareFileEntries begins with
  Directories,         \* external: what a host may write as the start clusters of the files
  Layouts,             \* external: where a host's file system may put the two files
  Leftovers,           \* what a stream read that fails leaves in the block buffer
  MaxTotal,            \* bound: blocks of one WRITE (10)
  MaxFailures          \* bound: power failures in the loader

VARIABLES
  pc,                  \* off, app, main loop (boot), or a place in WRITE (10)
  RunBootloader, TicksSinceLastCommand,
  FirmwareFileEntries, \* the start clusters of the two files
  flash, eeprom,       \* non-volatile: [sector -> [page -> content]], [sector -> content]
  BlockNumber, left,   \* WRITE (10): current block, blocks still to come
  broken,              \* a stream read of this command has failed
  BlockBuffer, page,   \* the block's data and the next page to erase and write
  plan,                \* host: where its file system has the files
  written,             \* history: file blocks that came in whole since entries and plan agree
  quiet,               \* history: loops since the last command
  failures

vars == <<pc, RunBootloader, TicksSinceLastCommand, FirmwareFileEntries,
          flash, eeprom, BlockNumber, left, broken, BlockBuffer, page, plan, written, quiet, failures>>
disk == <<FirmwareFileEntries, flash, eeprom, plan, written>>
write == <<BlockNumber, left, broken, BlockBuffer, page>>

(* What a page or an EEPROM sector holds: sector s of the new image is     *)
(* <<"image", s>>; "mixed" is an EEPROM sector that is half written.       *)
Image(s) == <<"image", s>>
Word(w)  == <<w, 0>>
Content  == {Image(s) : s \in 0..(FlashSectors - 1)} \cup
            {Word(w) : w \in {"old", "erased", "foreign", "loader", "settings", "mixed"}}

BootStartSector == FlashSectors + AuxSectors
LastSector      == BootStartSector + BootSectors - 1

ASSUME BootDiskAssumption ==
  /\ AuxSectors \in Nat /\ BootSectors \in Nat /\ BootStartSector + BootSectors <= W
  /\ Pages \in Nat \ {0} /\ TickLimit \in Nat /\ MaxTotal \in Nat /\ MaxFailures \in Nat
  /\ Default \in Layouts

(* Start clusters are uint16_t; the layouts of a file system store the     *)
(* files within the disk, apart from each other.                           *)
FlashFile(l)  == FileBlocks(l.flash, FlashSectors)
EepromFile(l) == FileBlocks(l.eeprom, EepromSectors)
Stores(l) ==
  /\ l.flash >= 2 /\ l.eeprom >= 2
  /\ FlashFile(l) \cup EepromFile(l) \subseteq 0..(MediaBlocks - 1)
  /\ FlashFile(l) \cap EepromFile(l) = {}

ASSUME LayoutsAssumption ==
  /\ Directories \subseteq [flash : 0..(W - 1), eeprom : 0..(W - 1)]
  /\ Layouts \subseteq Directories /\ \A l \in Layouts : Stores(l)
  /\ Leftovers \subseteq Content

(* The variables of WRITE (10) and of one block of it are local.           *)
NoBlock == BlockBuffer' = Word("foreign") /\ page' = 1
NoWrite == BlockNumber' = 0 /\ left' = 0 /\ broken' = FALSE /\ NoBlock

(* SCSI_DecodeSCSICommand returns (what REQUEST SENSE tells of its success *)
(* is left out); the callback marks that a command was there.  (Mutant: it *)
(* does not.)                                                              *)
ReturnUnmarked ==
  /\ pc' = "boot" /\ quiet' = 0
  /\ NoWrite /\ UNCHANGED TicksSinceLastCommand
Return ==
  /\ pc' = "boot" /\ quiet' = 0
  /\ NoWrite /\ TicksSinceLastCommand' = 0

(* INQUIRY, REQUEST SENSE, READ CAPACITY, MODE SENSE, READ (10) and the    *)
(* commands that just succeed or are refused.                              *)
Command ==
  /\ pc = "boot"
  /\ Return
  /\ UNCHANGED <<RunBootloader, disk>>

StartStopUnit ==
  /\ pc = "boot"
  /\ \E eject \in BOOLEAN : RunBootloader' = ~eject
  /\ Return
  /\ UNCHANGED disk

(* WRITE (10): only the first block's number is checked.                   *)
WriteCommand ==
  /\ pc = "boot"
  /\ \E lba \in 0..MediaBlocks, total \in 0..MaxTotal :
       IF lba >= MediaBlocks
         THEN Return
         ELSE /\ pc' = "block" /\ BlockNumber' = lba /\ left' = total
              /\ UNCHANGED <<broken, BlockBuffer, page, quiet, TicksSinceLastCommand>>
  /\ UNCHANGED <<RunBootloader, disk>>

WriteDone ==
  /\ pc = "block" /\ left = 0
  /\ Return
  /\ UNCHANGED <<RunBootloader, disk>>

-----------------------------------------------------------------------------
(* VirtualFAT_WriteBlock.                                                  *)
(* (Mutant: the start cluster of the other file.)                          *)
OfEepromByFlash(block, l) == InFile(block, l.flash, EepromSectors)
OfFlash(block, l)  == InFile(block, l.flash, FlashSectors)
OfEeprom(block, l) == InFile(block, l.eeprom, EepromSectors)
IsData(block)      == block >= DataStartBlock

(* What the host writes: the image where its file system has FLASH.BIN,    *)
(* new settings where it has EEPROM.BIN, something else anywhere else.     *)
HostData(block) ==
  IF block \in FlashFile(plan) THEN Image(block - FirstBlock(plan.flash))
  ELSE IF block \in EepromFile(plan) THEN Word("settings") ELSE Word("foreign")

NextBlock ==
  /\ pc' = "block" /\ BlockNumber' = (BlockNumber + 1) % W /\ left' = left - 1
  /\ NoBlock

(* The host stops sending, resets the bus or goes away.  The code does not *)
(* see it: VirtualFAT_WriteBlock ignores the result of                     *)
(* Endpoint_Read_Stream_LE, so this block and all that follow in the       *)
(* command are written from whatever is in the buffer.                     *)
StreamBreaks ==
  /\ pc = "block" /\ left > 0 /\ broken' = TRUE
  /\ UNCHANGED <<pc, RunBootloader, TicksSinceLastCommand, disk, BlockNumber, left,
                 BlockBuffer, page, quiet>>
Received(data) == IF broken THEN Leftovers ELSE {data}

WriteReserved ==
  /\ pc = "block" /\ left > 0 /\ BlockNumber \in FATBlocks \cup {BootBlock}
  /\ NextBlock
  /\ UNCHANGED <<RunBootloader, TicksSinceLastCommand, disk, broken, quiet>>

(* The directory is copied without a look at it, be it that of the host's  *)
(* plan, one with an emptied file, garbage, or what was in the buffer.     *)
WriteDirectory ==
  /\ pc = "block" /\ left > 0 /\ BlockNumber = RootFilesBlock
  /\ FirmwareFileEntries' \in Directories
  /\ written' = IF FirmwareFileEntries' = FirmwareFileEntries THEN written ELSE {}
  /\ NextBlock
  /\ UNCHANGED <<RunBootloader, TicksSinceLastCommand, flash, eeprom, plan,
                 broken, quiet>>

WriteData ==
  /\ pc = "block" /\ left > 0 /\ IsData(BlockNumber)
  /\ BlockBuffer' \in Received(HostData(BlockNumber)) /\ page' = 1
  /\ pc' = IF OfFlash(BlockNumber, FirmwareFileEntries) THEN "erase" ELSE "eeprom"
  /\ written' = written \ {BlockNumber}
  /\ UNCHANGED <<RunBootloader, TicksSinceLastCommand, FirmwareFileEntries,
                 flash, eeprom, plan, BlockNumber, left, broken, quiet>>

(* BootloaderAPI_ErasePage and BootloaderAPI_WritePage.                    *)
FlashSector == SectorOf(BlockNumber, FirmwareFileEntries.flash)
IsPageAddressValid(sector) == sector < BootStartSector
SetPage(content) ==
  flash' = IF IsPageAddressValid(FlashSector)
             THEN [flash EXCEPT ![FlashSector][page] = content] ELSE flash

ErasePage ==
  /\ pc = "erase"
  /\ SetPage(Word("erased"))
  /\ pc' = "program"
  /\ UNCHANGED <<RunBootloader, TicksSinceLastCommand, FirmwareFileEntries,
                 eeprom, plan, written, write, quiet>>

(* (Mutants: the last page of a sector is left alone; a page too many.)    *)
LastPageEarly == page + 1 >= Pages
LastPageLate  == page > Pages
LastPage      == page = Pages
WritePage ==
  /\ pc = "program"
  /\ SetPage(BlockBuffer)
  /\ IF LastPage THEN pc' = "eeprom" /\ UNCHANGED page
                 ELSE pc' = "erase" /\ page' = page + 1
  /\ UNCHANGED <<RunBootloader, TicksSinceLastCommand, FirmwareFileEntries,
                 eeprom, plan, written, BlockNumber, left, broken, BlockBuffer, quiet>>

(* ReadWriteEEPROMFileBlock is called for the same block; it writes byte   *)
(* by byte (to addresses that wrap at the end of the EEPROM).              *)
EepromSector == SectorOf(BlockNumber, FirmwareFileEntries.eeprom) % EepromSectors
BlockWritten ==
  /\ written' = IF /\ ~broken /\ FirmwareFileEntries = plan
                     /\ BlockNumber \in FlashFile(plan) \cup EepromFile(plan)
                  THEN written \cup {BlockNumber} ELSE written
  /\ NextBlock

EepromBegin ==
  /\ pc = "eeprom"
  /\ IF OfEeprom(BlockNumber, FirmwareFileEntries)
       THEN /\ eeprom' = [eeprom EXCEPT ![EepromSector] = Word("mixed")]
            /\ pc' = "bytes" /\ UNCHANGED <<BlockNumber, left, BlockBuffer, page, written>>
       ELSE BlockWritten /\ UNCHANGED eeprom
  /\ UNCHANGED <<RunBootloader, TicksSinceLastCommand, FirmwareFileEntries,
                 flash, plan, broken, quiet>>

EepromEnd ==
  /\ pc = "bytes"
  /\ eeprom' = [eeprom EXCEPT ![EepromSector] = BlockBuffer]
  /\ BlockWritten
  /\ UNCHANGED <<RunBootloader, TicksSinceLastCommand, FirmwareFileEntries,
                 flash, plan, broken, quiet>>

(* VirtualFAT_ReadBlock of a data block: the pages of a flash sector, over *)
(* which the EEPROM is written.                                            *)
ReadBlock(block) ==
  LET l == FirmwareFileEntries
  IN IF OfEeprom(block, l) THEN {eeprom[SectorOf(block, l.eeprom)]}
     ELSE IF OfFlash(block, l)
       THEN {flash[SectorOf(block, l.flash)][p] : p \in 1..Pages}
     ELSE {}

-----------------------------------------------------------------------------
(* main(): while (RunBootloader || TicksSinceLastCommand++ < 0xFF), in 8   *)
(* bits.  (Mutant: <=, which 8 bits always are.)                           *)
GoesOnAlways == TicksSinceLastCommand <= TickLimit
GoesOn       == TicksSinceLastCommand < TickLimit
Loop ==
  /\ pc = "boot" /\ ~RunBootloader
  /\ pc' = IF GoesOn THEN "boot" ELSE "detached"
  /\ TicksSinceLastCommand' = (TicksSinceLastCommand + 1) % (TickLimit + 1)
  /\ quiet' = IF quiet < TickLimit THEN quiet + 1 ELSE quiet
  /\ UNCHANGED <<RunBootloader, disk, write>>

(* Application_Jump_Check after power up or the watchdog reset: the boot   *)
(* loader runs if the button is held or the reset vector is blank.         *)
Blank == flash[0][1] = Word("erased")
Application_Jump_Check ==
  \E button \in BOOLEAN : pc' = IF button \/ Blank THEN "boot" ELSE "app"

(* The variables of the loader when it starts.                             *)
Variables ==
  /\ RunBootloader' = TRUE /\ TicksSinceLastCommand' = 0 /\ quiet' = 0
  /\ FirmwareFileEntries' = Default
  /\ NoWrite

(* Without the disk the host forgets it: it will read the directory again. *)
Forgotten ==
  /\ plan' = Default
  /\ written' = IF plan = Default THEN written ELSE {}

WatchdogReset ==
  /\ pc = "detached"
  /\ Application_Jump_Check /\ Variables /\ Forgotten
  /\ UNCHANGED <<flash, eeprom>>

PowerFails ==
  /\ pc \notin {"off", "app"} /\ failures < MaxFailures
  /\ pc' = "off" /\ Variables /\ Forgotten /\ failures' = failures + 1
  /\ UNCHANGED <<flash, eeprom>>

(* The application is switched off, or reset to enter the loader.          *)
AppEnds ==
  /\ pc = "app" /\ pc' = "off"
  /\ UNCHANGED <<RunBootloader, TicksSinceLastCommand, disk, write, quiet>>

PowerOn ==
  /\ pc = "off"
  /\ Application_Jump_Check
  /\ UNCHANGED <<RunBootloader, TicksSinceLastCommand, disk, write, quiet>>

(* External: the host moves a file to other clusters, in its cache; the    *)
(* directory is written some time before or after the data.                *)
HostPlans ==
  /\ pc = "boot"
  /\ plan' \in Layouts
  /\ written' = IF plan' = plan THEN written ELSE {}
  /\ UNCHANGED <<pc, RunBootloader, TicksSinceLastCommand, FirmwareFileEntries,
                 flash, eeprom, write, quiet>>

-----------------------------------------------------------------------------
Init ==
  /\ pc = "off" /\ RunBootloader = TRUE /\ TicksSinceLastCommand = 0
  /\ FirmwareFileEntries = Default
  /\ flash = [s \in 0..LastSector |->
                [p \in 1..Pages |-> Word(IF s < FlashSectors THEN "old" ELSE "loader")]]
  /\ eeprom = [s \in 0..(EepromSectors - 1) |-> Word("old")]
  /\ BlockNumber = 0 /\ left = 0 /\ broken = FALSE /\ BlockBuffer = Word("foreign") /\ page = 1
  /\ plan = Default /\ written = {} /\ quiet = 0
  /\ failures = 0

HostCommand == Command \/ StartStopUnit \/ WriteCommand
WriteStep == \/ WriteDone \/ WriteReserved \/ WriteDirectory \/ WriteData
             \/ ErasePage \/ WritePage \/ EepromBegin \/ EepromEnd

Powered == HostCommand \/ StreamBreaks \/ WriteStep \/ Loop \/ WatchdogReset \/ AppEnds \/ PowerOn
           \/ HostPlans
Next == (Powered /\ UNCHANGED failures) \/ PowerFails

(* The firmware goes on by itself.                                         *)
Spec == Init /\ [][Next]_vars /\ WF_vars((WriteStep \/ Loop) /\ UNCHANGED failures)
        /\ WF_vars(WatchdogReset /\ UNCHANGED failures)
-----------------------------------------------------------------------------
TypeOK ==
  /\ pc \in {"off", "app", "boot", "block", "erase", "program", "eeprom", "bytes", "detached"}
  /\ RunBootloader \in BOOLEAN /\ TicksSinceLastCommand \in 0..TickLimit
  /\ FirmwareFileEntries \in Directories
  /\ flash \in [0..LastSector -> [1..Pages -> Content]]
  /\ eeprom \in [0..(EepromSectors - 1) -> Content]
  /\ BlockNumber \in 0..(W - 1) /\ left \in 0..MaxTotal
  /\ broken \in BOOLEAN /\ BlockBuffer \in Content /\ page \in 1..Pages
  /\ plan \in Layouts /\ quiet \in 0..TickLimit /\ failures \in 0..MaxFailures
  /\ written \subseteq FlashFile(plan) \cup EepromFile(plan)

(* No command of a host makes the boot loader erase its own code, of which *)
(* the part below BOOT_START_ADDR is protected by the file's length alone: *)
(* whatever start clusters the directory is given, also those whose range  *)
(* wraps, and whatever data comes, also none.                              *)
BootLoaderIntact ==
  \A s \in FlashSectors..LastSector, p \in 1..Pages : flash[s][p] = Word("loader")

(* Once all blocks of FLASH.BIN have come in whole, in whatever order and  *)
(* pieces, each while the directory on the disk had the file where the     *)
(* host has it, the flash holds the image, wherever the file is.  In       *)
(* between there may be power failures, other writes, other directories    *)
(* and broken writes; a block that one of those has overwritten counts     *)
(* again when it has been repeated.                                        *)
UpdateComplete ==
  FlashFile(plan) \subseteq written =>
    \A s \in 0..(FlashSectors - 1), p \in 1..Pages : flash[s][p] = Image(s)

(* The disk gives back what came in whole for either file, though it       *)
(* stores no blocks, until the block is written again.                     *)
ReadsBack == \A b \in written : ReadBlock(b) = {HostData(b)}

(* While directory and host agree, an update of FLASH.BIN leaves the       *)
(* adapter's settings alone.                                               *)
SettingsWritten ==
  eeprom' # eeprom /\ FirmwareFileEntries = plan => BlockNumber \in EepromFile(plan)
SettingsUntouched == [][SettingsWritten]_vars

(* When the directory stores both files, the FAT made up for the host      *)
(* gives them as unbroken chains, but for the file behind an EEPROM.BIN    *)
(* that ends with an even cluster.                                         *)
EntryInFat(c) ==
  EntryOf(FATBlock(FirmwareFileEntries.flash, FirmwareFileEntries.eeprom), c)
    = ExpectedEntry(FirmwareFileEntries.flash, FirmwareFileEntries.eeprom, c)
Behind(eeprom_start) == eeprom_start + FILE_CLUSTERS(EepromSectors)
FilesChained ==
  pc = "boot" /\ Stores(FirmwareFileEntries) =>
    \A c \in Clusters(FirmwareFileEntries.flash, FlashSectors)
               \cup Clusters(FirmwareFileEntries.eeprom, EepromSectors) :
      EntryInFat(c) \/ (c = Behind(FirmwareFileEntries.eeprom) /\ c % 2 = 1)

(* "During shutdown all pending commands must be processed before jumping  *)
(* to the user-application": the loader leaves only after TickLimit loops  *)
(* in a row without a command, whatever happened after the eject.          *)
Leaves == pc = "boot" /\ pc' = "detached"
ExitAfterQuiet == [][Leaves => quiet >= TickLimit]_vars

(* After an eject the application starts, or the loader once more, unless  *)
(* the host never stops sending commands.                                  *)
EjectEnds ==
  <>[][~HostCommand]_vars =>
    (pc = "boot" /\ ~RunBootloader ~> pc \in {"app", "off"} \/ RunBootloader)

(* "Updates a FAT12 cluster entry in the FAT file table with the specified *)
(* next chain index" (Lib/VirtualFAT.c): the other entries keep theirs, a  *)
(* cluster of neither file is free.                                        *)
OnlyItsEntry == pc = "boot" => \A c \in 2..LastCluster : EntryInFat(c)
=============================================================================
