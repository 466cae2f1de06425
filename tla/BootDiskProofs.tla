--------------------------- MODULE BootDiskProofs ---------------------------
(***************************************************************************)
(* The boot loader never writes its own code, and an update that has come  *)
(* in completely is in the flash: for every size of disk, files, pages and *)
(* requests, every set of places where a host may put the files, every     *)
(* directory it may write, and any number of writes that break off.        *)
(***************************************************************************)
EXTENDS BootDisk, VirtualFatProofs

-----------------------------------------------------------------------------
(* The inductive invariant.                                                *)
InBlock == pc \in {"erase", "program", "eeprom", "bytes"}

(* Blocks count as written only while directory and host agree.            *)
Agreed == written # {} => FirmwareFileEntries = plan

(* A written block is where the host's file system says.                   *)
FlashHolds ==
  \A b \in written : b \in FlashFile(plan) =>
    \A p \in 1..Pages :
      flash[b - FirstBlock(plan.flash)][p] = Image(b - FirstBlock(plan.flash))
EepromHolds ==
  \A b \in written : b \in EepromFile(plan) =>
    eeprom[b - FirstBlock(plan.eeprom)] = Word("settings")

(* The block that is being written, and its pages so far.                  *)
BlockHeld == InBlock => /\ left > 0 /\ BlockNumber \notin written
                        /\ ~broken => BlockBuffer = HostData(BlockNumber)
PagesSoFar == pc \in {"erase", "program"} =>
  /\ OfFlash(BlockNumber, FirmwareFileEntries)
  /\ \A p \in 1..Pages : p < page => flash[FlashSector][p] = BlockBuffer
AllPages == pc \in {"eeprom", "bytes"} /\ OfFlash(BlockNumber, FirmwareFileEntries) =>
  \A p \in 1..Pages : flash[FlashSector][p] = BlockBuffer
InEeprom == pc = "bytes" => OfEeprom(BlockNumber, FirmwareFileEntries)

Holds == FlashHolds /\ EepromHolds
Progress == BlockHeld /\ PagesSoFar /\ AllPages /\ InEeprom
IInv == TypeOK /\ BootLoaderIntact /\ Agreed /\ Holds /\ Progress

-----------------------------------------------------------------------------
(* Ranges of blocks.                                                       *)
LEMMA Small == ASSUME NEW a \in Nat, NEW w \in Nat, a < w PROVE a % w = a
OBVIOUS
LEMMA Wraps ==
  ASSUME NEW w \in Nat \ {0}, NEW a \in Nat, w <= a, a < w + w
  PROVE  a % w = a - w
OBVIOUS
LEMMA Remainder == ASSUME NEW w \in Nat \ {0}, NEW a \in Int PROVE a % w \in 0..(w - 1)
OBVIOUS

LEMMA Sizes ==
  /\ W \in Nat \ {0} /\ MediaBlocks < W
  /\ FlashSectors \in Nat \ {0} /\ FlashSectors < W
  /\ EepromSectors \in Nat \ {0} /\ EepromSectors < W
BY VirtualFatAssumption

LEMMA First == ASSUME NEW c \in Nat PROVE FirstBlock(c) \in Int /\ FileStartBlock(c) = FirstBlock(c) % W
<1>1. (c - 2) * SectorsPerCluster \in Int
  BY VirtualFatAssumption
<1> QED
  BY <1>1 DEF FirstBlock, FileStartBlock, DataStartBlock

(* A block of a file, wherever a directory says it is, has a sector of it. *)
LEMMA SectorInFile ==
  ASSUME NEW c \in Nat, NEW n \in Nat \ {0}, n < W,
         NEW b \in 0..(W - 1), InFile(b, c, n)
  PROVE  SectorOf(b, c) \in 0..(n - 1)
<1> DEFINE start == FileStartBlock(c)
<1>1. start \in 0..(W - 1)
  BY First, Sizes, Remainder
<1>2. start <= b /\ b <= (start + (n - 1)) % W
  BY DEF InFile, FileEndBlock
<1> HIDE DEF start
<1>3. start + (n - 1) < W
  <2> SUFFICES ASSUME ~(start + (n - 1) < W) PROVE FALSE
    OBVIOUS
  <2> DEFINE last == start + (n - 1)
  <2>1. last \in Nat /\ W <= last /\ last < W + W
    BY <1>1, Sizes
  <2>2. last % W = last - W
    <3> HIDE DEF last
    <3> QED
      BY <2>1, Sizes, Wraps
  <2> QED
    BY <2>2, <1>1, <1>2, Sizes
<1>4. (start + (n - 1)) % W = start + (n - 1)
  BY <1>1, <1>3, Sizes, Small
<1>5. (b - start) % W = b - start
  BY <1>1, <1>2, Sizes, Small
<1> QED
  BY <1>1, <1>2, <1>4, <1>5, Sizes DEF SectorOf, start

(* What the directory and the plan of the host may be.                     *)
LEMMA DirectoryType ==
  /\ \A l \in Directories : l \in [flash : Nat, eeprom : Nat]
  /\ \A l \in Layouts : /\ l \in Directories /\ Stores(l)
                        /\ l.flash \in Nat \ {0, 1} /\ l.eeprom \in Nat \ {0, 1}
<1>1. \A l \in Directories : l \in [flash : Nat, eeprom : Nat]
  BY Sizes, LayoutsAssumption
<1> QED
  BY <1>1, LayoutsAssumption DEF Stores

(* Where the host stores a file, the loader has it.                        *)
LEMMA Located ==
  ASSUME NEW c \in Nat \ {0, 1}, NEW n \in Nat \ {0}, FileBlocks(c, n) \subseteq 0..(MediaBlocks - 1),
         NEW b \in 0..(W - 1)
  PROVE  /\ InFile(b, c, n) <=> b \in FileBlocks(c, n)
         /\ b \in FileBlocks(c, n) => SectorOf(b, c) = b - FirstBlock(c)
<1> DEFINE first == FirstBlock(c)
<1>1. first \in Int /\ FileStartBlock(c) = first % W
  BY First
<1>2. FileBlocks(c, n) = first..(first + n - 1)
  BY DEF FileBlocks
<1> HIDE DEF first
<1>3. first \in FileBlocks(c, n) /\ first + n - 1 \in FileBlocks(c, n)
  BY <1>1, <1>2
<1>4. first \in Nat /\ first + n - 1 < W /\ first < W
  BY <1>1, <1>3, Sizes, VirtualFatAssumption
<1>5. FileStartBlock(c) = first
  BY <1>1, <1>4, Sizes, Small
<1>6. (first + (n - 1)) % W = first + (n - 1)
  BY <1>4, Sizes, Small
<1>7. InFile(b, c, n) <=> b \in FileBlocks(c, n)
  BY <1>2, <1>4, <1>5, <1>6 DEF InFile, FileEndBlock
<1>8. ASSUME b \in FileBlocks(c, n) PROVE SectorOf(b, c) = b - first
  <2>1. b - first \in Nat /\ b - first < W
    BY <1>2, <1>4, <1>8, Sizes
  <2> QED
    BY <2>1, <1>5, Sizes, Small DEF SectorOf
<1> QED
  BY <1>7, <1>8 DEF first

LEMMA PlanLocated ==
  ASSUME NEW l \in Layouts, NEW b \in 0..(W - 1)
  PROVE  /\ OfFlash(b, l) <=> b \in FlashFile(l)
         /\ OfEeprom(b, l) <=> b \in EepromFile(l)
         /\ b \in FlashFile(l) => SectorOf(b, l.flash) = b - FirstBlock(l.flash)
         /\ b \in EepromFile(l) => SectorOf(b, l.eeprom) = b - FirstBlock(l.eeprom)
         /\ ~(b \in FlashFile(l) /\ b \in EepromFile(l))
<1>1. /\ l.flash \in Nat \ {0, 1} /\ l.eeprom \in Nat \ {0, 1}
      /\ FlashFile(l) \subseteq 0..(MediaBlocks - 1)
      /\ EepromFile(l) \subseteq 0..(MediaBlocks - 1)
      /\ FlashFile(l) \cap EepromFile(l) = {}
  BY DirectoryType DEF Stores
<1>2. /\ OfFlash(b, l) <=> b \in FlashFile(l)
      /\ b \in FlashFile(l) => SectorOf(b, l.flash) = b - FirstBlock(l.flash)
  BY <1>1, Sizes, Located DEF OfFlash, FlashFile
<1>3. /\ OfEeprom(b, l) <=> b \in EepromFile(l)
      /\ b \in EepromFile(l) => SectorOf(b, l.eeprom) = b - FirstBlock(l.eeprom)
  BY <1>1, Sizes, Located DEF OfEeprom, EepromFile
<1> QED
  BY <1>1, <1>2, <1>3

(* What a host writes.                                                     *)
LEMMA HostDataContent ==
  ASSUME plan \in Layouts, NEW b \in 0..(W - 1)
  PROVE  HostData(b) \in Content
<1>1. Word("settings") \in Content /\ Word("foreign") \in Content
  BY DEF Content
<1>2. CASE b \in FlashFile(plan)
  <2>1. plan.flash \in Nat
    BY DirectoryType
  <2>2. FirstBlock(plan.flash) \in Int
    BY <2>1, First
  <2>3. b - FirstBlock(plan.flash) \in 0..(FlashSectors - 1)
    BY <1>2, <2>2, Sizes DEF FlashFile, FileBlocks
  <2> QED
    BY <1>2, <2>3 DEF HostData, Content
<1> QED
  BY <1>1, <1>2 DEF HostData

-----------------------------------------------------------------------------
(* Steps that leave the disk alone.                                        *)
LEMMA Elsewhere ==
  ASSUME IInv, TypeOK',
         UNCHANGED <<flash, eeprom, FirmwareFileEntries, plan, written>>,
         ~InBlock'
  PROVE  IInv'
<1>1. BootLoaderIntact'
  BY DEF IInv, BootLoaderIntact
<1>2. Agreed' /\ Holds'
  BY DEF IInv, Agreed, Holds, FlashHolds, EepromHolds
<1>3. Progress'
  BY DEF InBlock, Progress, BlockHeld, PagesSoFar, AllPages, InEeprom
<1> QED
  BY <1>1, <1>2, <1>3 DEF IInv

(* The host's plan or the directory changes, or the loader starts anew.    *)
LEMMA Replanned ==
  ASSUME IInv, TypeOK', UNCHANGED <<flash, eeprom>>, ~InBlock',
         written' = {} \/ (written' = written /\ plan' = plan
                           /\ (written # {} => FirmwareFileEntries' = plan'))
  PROVE  IInv'
<1>1. BootLoaderIntact'
  BY DEF IInv, BootLoaderIntact
<1>2. Agreed'
  BY DEF Agreed
<1>3. Holds'
  BY DEF IInv, Holds, FlashHolds, EepromHolds
<1>4. Progress'
  BY DEF InBlock, Progress, BlockHeld, PagesSoFar, AllPages, InEeprom
<1> QED
  BY <1>1, <1>2, <1>3, <1>4 DEF IInv

LEMMA Contents == \A w \in {"old", "erased", "foreign", "loader", "settings", "mixed"} : Word(w) \in Content
BY DEF Content

LEMMA NoWriteType == ASSUME NoWrite PROVE
  /\ BlockNumber' \in 0..(W - 1) /\ left' \in 0..MaxTotal
  /\ broken' \in BOOLEAN /\ BlockBuffer' \in Content /\ page' \in 1..Pages
<1>1. BlockBuffer' \in Content /\ page' \in 1..Pages
  BY Contents, BootDiskAssumption DEF NoWrite, NoBlock
<1>2. broken' \in BOOLEAN
  BY DEF NoWrite
<1>3. BlockNumber' \in 0..(W - 1) /\ left' \in 0..MaxTotal
  BY Sizes, BootDiskAssumption DEF NoWrite
<1> QED
  BY <1>1, <1>2, <1>3

LEMMA InitIInv == Init => IInv
<1> SUFFICES ASSUME Init PROVE IInv
  OBVIOUS
<1>1. TypeOK
  <2>1. Default \in Directories
    BY BootDiskAssumption, DirectoryType
  <2>2. flash \in [0..LastSector -> [1..Pages -> Content]]
    <3>1. \A s \in 0..LastSector : Word(IF s < FlashSectors THEN "old" ELSE "loader") \in Content
      BY Contents
    <3> QED
      BY <3>1 DEF Init
  <2>3. eeprom \in [0..(EepromSectors - 1) -> Content]
    BY Contents DEF Init
  <2>4. BlockBuffer \in Content /\ page \in 1..Pages
    BY Contents, BootDiskAssumption DEF Init
  <2>5. RunBootloader \in BOOLEAN /\ broken \in BOOLEAN
    BY DEF Init
  <2>6. /\ pc = "off" /\ TicksSinceLastCommand \in 0..TickLimit
        /\ BlockNumber \in 0..(W - 1) /\ left \in 0..MaxTotal
        /\ quiet \in 0..TickLimit /\ failures \in 0..MaxFailures
    BY Sizes, BootDiskAssumption DEF Init
  <2>7. FirmwareFileEntries = Default /\ plan \in Layouts /\ written = {}
    BY BootDiskAssumption DEF Init
  <2> QED
    BY <2>1, <2>2, <2>3, <2>4, <2>5, <2>6, <2>7 DEF TypeOK
<1>2. BootLoaderIntact
  BY Sizes, BootDiskAssumption DEF Init, BootLoaderIntact, LastSector, BootStartSector
<1>3. Agreed /\ Holds /\ Progress
  BY DEF Init, Agreed, Holds, FlashHolds, EepromHolds, Progress, InBlock, BlockHeld, PagesSoFar,
         AllPages, InEeprom
<1> QED
  BY <1>1, <1>2, <1>3 DEF IInv

-----------------------------------------------------------------------------
(* Commands, the main loop, restarts.                                      *)
LEMMA CommandStep == ASSUME IInv, HostCommand, UNCHANGED failures PROVE IInv'
<1>1. CASE Command
  <2>1. TypeOK'
    BY <1>1, NoWriteType, BootDiskAssumption DEF IInv, TypeOK, Command, Return, disk
  <2> QED
    BY <1>1, <2>1, Elsewhere DEF Command, Return, disk, InBlock
<1>2. CASE StartStopUnit
  <2>1. TypeOK'
    BY <1>2, NoWriteType, BootDiskAssumption DEF IInv, TypeOK, StartStopUnit, Return, disk
  <2> QED
    BY <1>2, <2>1, Elsewhere DEF StartStopUnit, Return, disk, InBlock
<1>3. CASE WriteCommand
  <2>1. \/ Return
        \/ /\ pc' = "block" /\ BlockNumber' \in 0..(W - 1) /\ left' \in 0..MaxTotal
           /\ UNCHANGED <<broken, BlockBuffer, page, quiet, TicksSinceLastCommand>>
    BY <1>3, Sizes, VirtualFatAssumption DEF WriteCommand
  <2>2. UNCHANGED <<RunBootloader, disk>>
    BY <1>3 DEF WriteCommand
  <2>3. CASE Return
    <3>1. TypeOK'
      BY <2>2, <2>3, NoWriteType, BootDiskAssumption DEF IInv, TypeOK, Return, disk
    <3> QED
      BY <2>2, <2>3, <3>1, Elsewhere DEF Return, disk, InBlock
  <2>4. CASE /\ pc' = "block" /\ BlockNumber' \in 0..(W - 1) /\ left' \in 0..MaxTotal
             /\ UNCHANGED <<broken, BlockBuffer, page, quiet, TicksSinceLastCommand>>
    <3>1. TypeOK'
      BY <2>2, <2>4 DEF IInv, TypeOK, disk
    <3> QED
      BY <2>2, <2>4, <3>1, Elsewhere DEF disk, InBlock
  <2> QED
    BY <2>1, <2>3, <2>4
<1> QED
  BY <1>1, <1>2, <1>3 DEF HostCommand

LEMMA LoopStep == ASSUME IInv, Loop, UNCHANGED failures PROVE IInv'
<1>1. (TicksSinceLastCommand + 1) % (TickLimit + 1) \in 0..TickLimit
  BY Remainder, BootDiskAssumption DEF IInv, TypeOK
<1>2. TypeOK'
  BY <1>1, BootDiskAssumption DEF IInv, TypeOK, Loop, disk, write
<1> QED
  BY <1>2, Elsewhere DEF Loop, disk, InBlock

LEMMA RestartStep ==
  ASSUME IInv, Variables, Forgotten, UNCHANGED <<flash, eeprom>>,
         pc' \in {"off", "app", "boot"}, failures' \in 0..MaxFailures
  PROVE  IInv'
<1>1. Default \in Directories /\ Default \in Layouts
  BY BootDiskAssumption, DirectoryType
<1>2. TypeOK'
  BY <1>1, NoWriteType, BootDiskAssumption DEF IInv, TypeOK, Variables, Forgotten
<1> QED
  BY <1>2, Replanned DEF Variables, Forgotten, InBlock

LEMMA PowerStep ==
  ASSUME IInv,
         PowerFails \/ ((WatchdogReset \/ AppEnds \/ PowerOn) /\ UNCHANGED failures)
  PROVE  IInv'
<1>1. CASE PowerFails
  BY <1>1, RestartStep, BootDiskAssumption DEF PowerFails, IInv, TypeOK
<1>2. CASE WatchdogReset /\ UNCHANGED failures
  BY <1>2, RestartStep DEF WatchdogReset, Application_Jump_Check, IInv, TypeOK
<1>3. CASE (AppEnds \/ PowerOn) /\ UNCHANGED failures
  <2>1. TypeOK'
    BY <1>3 DEF IInv, TypeOK, AppEnds, PowerOn, Application_Jump_Check, disk, write
  <2> QED
    BY <1>3, <2>1, Elsewhere DEF AppEnds, PowerOn, Application_Jump_Check, disk, InBlock
<1> QED
  BY <1>1, <1>2, <1>3

LEMMA PlanStep == ASSUME IInv, HostPlans, UNCHANGED failures PROVE IInv'
<1>1. TypeOK'
  BY DEF IInv, TypeOK, HostPlans, write
<1> QED
  BY <1>1, Replanned DEF HostPlans, InBlock, IInv, Agreed

-----------------------------------------------------------------------------
(* WRITE (10).                                                             *)
LEMMA NextBlockType ==
  ASSUME IInv, NextBlock, left > 0
  PROVE  /\ pc' = "block" /\ BlockNumber' \in 0..(W - 1) /\ left' \in 0..MaxTotal
         /\ BlockBuffer' \in Content /\ page' \in 1..Pages
<1>1. BlockNumber + 1 \in Int /\ W \in Nat \ {0}
  BY Sizes DEF IInv, TypeOK
<1>2. (BlockNumber + 1) % W \in 0..(W - 1)
  BY <1>1, Remainder
<1>3. BlockBuffer' \in Content /\ page' \in 1..Pages
  BY Contents, BootDiskAssumption DEF NextBlock, NoBlock
<1> QED
  BY <1>2, <1>3, BootDiskAssumption DEF IInv, TypeOK, NextBlock

LEMMA WriteOther ==
  ASSUME IInv, WriteDone \/ StreamBreaks \/ WriteReserved \/ WriteDirectory,
         UNCHANGED failures
  PROVE  IInv'
<1>1. CASE WriteDone
  <2>1. TypeOK'
    BY <1>1, NoWriteType, BootDiskAssumption DEF IInv, TypeOK, WriteDone, Return, disk
  <2> QED
    BY <1>1, <2>1, Elsewhere DEF WriteDone, Return, disk, InBlock
<1>2. CASE WriteReserved
  <2>1. TypeOK'
    BY <1>2, NextBlockType DEF IInv, TypeOK, WriteReserved, disk
  <2> QED
    BY <1>2, <2>1, NextBlockType, Elsewhere DEF WriteReserved, disk, InBlock
<1>3. CASE WriteDirectory
  <2>1. TypeOK'
    BY <1>3, NextBlockType DEF IInv, TypeOK, WriteDirectory
  <2> QED
    BY <1>3, <2>1, NextBlockType, Replanned DEF WriteDirectory, InBlock, IInv, Agreed
<1>4. CASE StreamBreaks
  <2>1. TypeOK'
    BY <1>4 DEF IInv, TypeOK, StreamBreaks, disk
  <2> QED
    BY <1>4, <2>1, Elsewhere DEF StreamBreaks, disk, InBlock
<1> QED
  BY <1>1, <1>2, <1>3, <1>4

LEMMA WriteDataStep == ASSUME IInv, WriteData, UNCHANGED failures PROVE IInv'
<1>1. TypeOK'
  <2>1. Received(HostData(BlockNumber)) \subseteq Content
    BY HostDataContent, LayoutsAssumption DEF IInv, TypeOK, Received
  <2> QED
    BY <2>1, BootDiskAssumption DEF IInv, TypeOK, WriteData
<1>2. BootLoaderIntact'
  BY DEF IInv, BootLoaderIntact, WriteData
<1>3. Agreed' /\ Holds'
  BY DEF IInv, Agreed, Holds, FlashHolds, EepromHolds, WriteData
<1>4. BlockHeld'
  BY DEF WriteData, BlockHeld, HostData, Received
<1>5. PagesSoFar'
  BY DEF WriteData, PagesSoFar, OfFlash
<1>6. AllPages' /\ InEeprom'
  BY DEF WriteData, AllPages, InEeprom, OfFlash
<1> QED
  BY <1>1, <1>2, <1>3, <1>4, <1>5, <1>6 DEF IInv, Progress

(* The sector that is being erased and written belongs to the file, and to *)
(* no other block.                                                         *)
LEMMA SectorOfFlash ==
  ASSUME IInv, OfFlash(BlockNumber, FirmwareFileEntries)
  PROVE  FlashSector \in 0..(FlashSectors - 1)
<1>1. FirmwareFileEntries.flash \in Nat /\ BlockNumber \in 0..(W - 1)
  BY DirectoryType DEF IInv, TypeOK
<1> QED
  BY <1>1, SectorInFile, Sizes DEF OfFlash, FlashSector

LEMMA SectorOfEeprom ==
  ASSUME IInv, OfEeprom(BlockNumber, FirmwareFileEntries)
  PROVE  /\ EepromSector \in 0..(EepromSectors - 1)
         /\ EepromSector = SectorOf(BlockNumber, FirmwareFileEntries.eeprom)
<1>1. FirmwareFileEntries.eeprom \in Nat /\ BlockNumber \in 0..(W - 1)
  BY DirectoryType DEF IInv, TypeOK
<1>2. SectorOf(BlockNumber, FirmwareFileEntries.eeprom) \in 0..(EepromSectors - 1)
  BY <1>1, SectorInFile, Sizes DEF OfEeprom
<1> QED
  BY <1>2, Sizes, Small DEF EepromSector

LEMMA OtherSectors ==
  ASSUME IInv, BlockNumber \notin written, NEW b \in written
  PROVE  /\ b \in FlashFile(plan) /\ OfFlash(BlockNumber, FirmwareFileEntries)
              => b - FirstBlock(plan.flash) # FlashSector
         /\ b \in EepromFile(plan) /\ OfEeprom(BlockNumber, FirmwareFileEntries)
              => b - FirstBlock(plan.eeprom) # SectorOf(BlockNumber, FirmwareFileEntries.eeprom)
<1>1. FirmwareFileEntries = plan /\ plan \in Layouts /\ BlockNumber \in 0..(W - 1)
  BY DEF IInv, TypeOK, Agreed
<1>2. plan.flash \in Nat /\ plan.eeprom \in Nat
  BY <1>1, DirectoryType
<1>3. FirstBlock(plan.flash) \in Int /\ FirstBlock(plan.eeprom) \in Int
  BY <1>2, First
<1>4. b # BlockNumber
  OBVIOUS
<1>5. b \in FlashFile(plan) => b \in Int
  BY <1>3 DEF FlashFile, FileBlocks
<1>6. b \in EepromFile(plan) => b \in Int
  BY <1>3 DEF EepromFile, FileBlocks
<1>7. OfFlash(BlockNumber, plan) => SectorOf(BlockNumber, plan.flash) = BlockNumber - FirstBlock(plan.flash)
  BY <1>1, PlanLocated
<1>8. OfEeprom(BlockNumber, plan) => SectorOf(BlockNumber, plan.eeprom) = BlockNumber - FirstBlock(plan.eeprom)
  BY <1>1, PlanLocated
<1> QED
  BY <1>1, <1>3, <1>4, <1>5, <1>6, <1>7, <1>8 DEF FlashSector

(* Setting one page of the current sector.                                 *)
LEMMA PageSet ==
  ASSUME IInv, pc \in {"erase", "program"}, NEW content \in Content, SetPage(content)
  PROVE  /\ flash' \in [0..LastSector -> [1..Pages -> Content]]
         /\ flash'[FlashSector][page] = content
         /\ \A p \in 1..Pages : p # page => flash'[FlashSector][p] = flash[FlashSector][p]
         /\ \A s \in 0..LastSector : s # FlashSector => flash'[s] = flash[s]
         /\ FlashSector \in 0..(FlashSectors - 1)
<1>1. FlashSector \in 0..(FlashSectors - 1)
  BY SectorOfFlash DEF IInv, Progress, PagesSoFar
<1>2. IsPageAddressValid(FlashSector) /\ FlashSector \in 0..LastSector
  BY <1>1, Sizes, BootDiskAssumption DEF IsPageAddressValid, LastSector, BootStartSector
<1>3. flash' = [flash EXCEPT ![FlashSector] = [@ EXCEPT ![page] = content]]
  BY <1>2 DEF SetPage
<1>4. page \in 1..Pages /\ flash \in [0..LastSector -> [1..Pages -> Content]]
  BY DEF IInv, TypeOK
<1> QED
  BY <1>1, <1>2, <1>3, <1>4

LEMMA PageStep ==
  ASSUME IInv, pc \in {"erase", "program"}, NEW content \in Content, SetPage(content),
         UNCHANGED <<FirmwareFileEntries, eeprom, plan, written, BlockNumber, left, broken,
                     BlockBuffer>>
  PROVE  BootLoaderIntact' /\ Agreed' /\ Holds'
<1>1. BootLoaderIntact'
  <2> SUFFICES ASSUME NEW s \in FlashSectors..LastSector, NEW p \in 1..Pages
               PROVE  flash'[s][p] = Word("loader")
    BY DEF BootLoaderIntact
  <2>1. s \in 0..LastSector /\ s # FlashSector
    BY PageSet, Sizes
  <2> QED
    BY <2>1, PageSet DEF IInv, BootLoaderIntact
<1>2. Agreed'
  BY DEF IInv, Agreed
<1>3. FlashHolds'
  <2> SUFFICES ASSUME NEW b \in written, b \in FlashFile(plan), NEW p \in 1..Pages
               PROVE  flash'[b - FirstBlock(plan.flash)][p] = Image(b - FirstBlock(plan.flash))
    BY DEF FlashHolds
  <2>1. BlockNumber \notin written /\ OfFlash(BlockNumber, FirmwareFileEntries)
    BY DEF IInv, Progress, BlockHeld, PagesSoFar, InBlock
  <2>2. b - FirstBlock(plan.flash) # FlashSector
    BY <2>1, OtherSectors
  <2>3. b - FirstBlock(plan.flash) \in 0..LastSector
    <3>1. plan.flash \in Nat
      BY DirectoryType DEF IInv, TypeOK
    <3> QED
      BY <3>1, First, Sizes, BootDiskAssumption DEF FlashFile, FileBlocks, LastSector, BootStartSector
  <2> QED
    BY <2>2, <2>3, PageSet DEF IInv, Holds, FlashHolds
<1>4. EepromHolds'
  BY DEF IInv, Holds, EepromHolds
<1> QED
  BY <1>1, <1>2, <1>3, <1>4 DEF Holds

LEMMA ErasePageStep == ASSUME IInv, ErasePage, UNCHANGED failures PROVE IInv'
<1> DEFINE erased == Word("erased")
<1>1. erased \in Content
  BY Contents
<1>2. /\ pc = "erase" /\ pc' = "program" /\ SetPage(erased)
      /\ UNCHANGED <<RunBootloader, TicksSinceLastCommand, FirmwareFileEntries, eeprom, plan,
                     written, BlockNumber, left, broken, BlockBuffer, page, quiet>>
  BY DEF ErasePage, write
<1> HIDE DEF erased
<1>3. BootLoaderIntact' /\ Agreed' /\ Holds'
  BY <1>1, <1>2, PageStep
<1>4. flash' \in [0..LastSector -> [1..Pages -> Content]]
  BY <1>1, <1>2, PageSet
<1>5. TypeOK'
  BY <1>2, <1>4 DEF IInv, TypeOK
<1>6. BlockHeld'
  BY <1>2 DEF IInv, Progress, BlockHeld, HostData, InBlock
<1>7. PagesSoFar'
  <2>1. \A p \in 1..Pages : p < page => flash'[FlashSector][p] = flash[FlashSector][p]
    BY <1>1, <1>2, PageSet DEF IInv, TypeOK
  <2> QED
    BY <1>2, <2>1 DEF IInv, Progress, PagesSoFar, OfFlash, FlashSector
<1>8. AllPages' /\ InEeprom'
  BY <1>2 DEF AllPages, InEeprom
<1> QED
  BY <1>3, <1>5, <1>6, <1>7, <1>8 DEF IInv, Progress

LEMMA WritePageStep == ASSUME IInv, WritePage, UNCHANGED failures PROVE IInv'
<1>1. BlockBuffer \in Content /\ page \in 1..Pages
  BY DEF IInv, TypeOK
<1>2. /\ pc = "program" /\ SetPage(BlockBuffer)
      /\ \/ page = Pages /\ pc' = "eeprom" /\ page' = page
         \/ page # Pages /\ pc' = "erase" /\ page' = page + 1
      /\ UNCHANGED <<RunBootloader, TicksSinceLastCommand, FirmwareFileEntries, eeprom, plan,
                     written, BlockNumber, left, broken, BlockBuffer, quiet>>
  BY DEF WritePage, LastPage
<1>3. BootLoaderIntact' /\ Agreed' /\ Holds'
  BY <1>1, <1>2, PageStep
<1>4. flash' \in [0..LastSector -> [1..Pages -> Content]]
  BY <1>1, <1>2, PageSet
<1>5. page' \in 1..Pages
  BY <1>1, <1>2, BootDiskAssumption
<1>6. TypeOK'
  BY <1>2, <1>4, <1>5 DEF IInv, TypeOK
<1>7. BlockHeld'
  BY <1>2 DEF IInv, Progress, BlockHeld, HostData, InBlock
<1>8. \A p \in 1..Pages : p <= page => flash'[FlashSector][p] = BlockBuffer
  <2>1. \A p \in 1..Pages : p < page => flash'[FlashSector][p] = flash[FlashSector][p]
    BY <1>1, <1>2, PageSet
  <2>2. \A p \in 1..Pages : p < page => flash[FlashSector][p] = BlockBuffer
    BY <1>2 DEF IInv, Progress, PagesSoFar
  <2>3. flash'[FlashSector][page] = BlockBuffer
    BY <1>1, <1>2, PageSet
  <2> QED
    BY <1>1, <2>1, <2>2, <2>3
<1>9. FlashSector' = FlashSector /\ OfFlash(BlockNumber, FirmwareFileEntries)
  BY <1>2 DEF FlashSector, IInv, Progress, PagesSoFar
<1>10. PagesSoFar'
  BY <1>1, <1>2, <1>8, <1>9 DEF PagesSoFar, OfFlash
<1>11. AllPages' /\ InEeprom'
  BY <1>1, <1>2, <1>8, <1>9, BootDiskAssumption DEF AllPages, InEeprom
<1> QED
  BY <1>3, <1>6, <1>7, <1>10, <1>11 DEF IInv, Progress

(* The block is done: if it counts, it holds what the host wrote.          *)
LEMMA BlockDone ==
  ASSUME IInv, pc \in {"eeprom", "bytes"}, BlockWritten, TypeOK',
         UNCHANGED <<flash, FirmwareFileEntries, plan, broken>>,
         \/ eeprom' = eeprom /\ ~OfEeprom(BlockNumber, FirmwareFileEntries)
         \/ /\ OfEeprom(BlockNumber, FirmwareFileEntries)
            /\ eeprom' = [eeprom EXCEPT ![EepromSector] = BlockBuffer]
  PROVE  IInv'
<1>1. /\ BlockNumber \notin written
      /\ ~broken => BlockBuffer = HostData(BlockNumber)
      /\ BlockNumber \in 0..(W - 1) /\ plan \in Layouts
  BY DEF IInv, TypeOK, Progress, BlockHeld, InBlock
<1>2. BootLoaderIntact'
  BY DEF IInv, BootLoaderIntact
<1>3. Agreed'
  BY DEF IInv, Agreed, BlockWritten
<1>4. Progress'
  BY DEF BlockWritten, NextBlock, Progress, InBlock, BlockHeld, PagesSoFar, AllPages, InEeprom
<1>5. FlashHolds'
  <2> SUFFICES ASSUME NEW b \in written', b \in FlashFile(plan), NEW p \in 1..Pages
               PROVE  flash[b - FirstBlock(plan.flash)][p] = Image(b - FirstBlock(plan.flash))
    BY DEF FlashHolds
  <2>1. CASE b \in written
    BY <2>1 DEF IInv, Holds, FlashHolds
  <2>2. CASE b \notin written
    <3>1. b = BlockNumber /\ FirmwareFileEntries = plan /\ ~broken
      BY <2>2 DEF BlockWritten
    <3>2. OfFlash(b, plan) /\ FlashSector = b - FirstBlock(plan.flash)
      BY <1>1, <3>1, PlanLocated DEF FlashSector
    <3>3. flash[FlashSector][p] = BlockBuffer
      BY <3>1, <3>2 DEF IInv, Progress, AllPages
    <3> QED
      BY <1>1, <3>1, <3>2, <3>3 DEF HostData
  <2> QED
    BY <2>1, <2>2
<1>6. EepromHolds'
  <2> SUFFICES ASSUME NEW b \in written', b \in EepromFile(plan)
               PROVE  eeprom'[b - FirstBlock(plan.eeprom)] = Word("settings")
    BY DEF EepromHolds
  <2>1. CASE b \in written
    <3>1. eeprom[b - FirstBlock(plan.eeprom)] = Word("settings")
      BY <2>1 DEF IInv, Holds, EepromHolds
    <3>2. OfEeprom(BlockNumber, FirmwareFileEntries) => b - FirstBlock(plan.eeprom) # EepromSector
      BY <1>1, <2>1, OtherSectors, SectorOfEeprom
    <3>3. b - FirstBlock(plan.eeprom) \in 0..(EepromSectors - 1)
      <4>1. plan.eeprom \in Nat
        BY <1>1, DirectoryType
      <4> QED
        BY <4>1, First, Sizes DEF EepromFile, FileBlocks
    <3> QED
      BY <3>1, <3>2, <3>3 DEF IInv, TypeOK
  <2>2. CASE b \notin written
    <3>1. b = BlockNumber /\ FirmwareFileEntries = plan /\ ~broken
      BY <2>2 DEF BlockWritten
    <3>2. OfEeprom(b, plan) /\ SectorOf(b, plan.eeprom) = b - FirstBlock(plan.eeprom)
          /\ b \notin FlashFile(plan)
      BY <1>1, <3>1, PlanLocated
    <3>3. EepromSector = b - FirstBlock(plan.eeprom) /\ EepromSector \in 0..(EepromSectors - 1)
      BY <3>1, <3>2, SectorOfEeprom
    <3>4. eeprom'[EepromSector] = BlockBuffer
      BY <3>1, <3>2, <3>3 DEF IInv, TypeOK
    <3> QED
      BY <1>1, <3>1, <3>2, <3>3, <3>4 DEF HostData
  <2> QED
    BY <2>1, <2>2
<1> QED
  BY <1>2, <1>3, <1>4, <1>5, <1>6 DEF IInv, Holds

LEMMA BlockWrittenType ==
  ASSUME IInv, BlockWritten, UNCHANGED plan, left > 0
  PROVE  /\ pc' = "block" /\ BlockNumber' \in 0..(W - 1) /\ left' \in 0..MaxTotal
         /\ BlockBuffer' \in Content /\ page' \in 1..Pages
         /\ written' \subseteq FlashFile(plan') \cup EepromFile(plan')
<1>1. NextBlock
  BY DEF BlockWritten
<1>2. written' \subseteq FlashFile(plan) \cup EepromFile(plan)
  BY DEF IInv, TypeOK, BlockWritten
<1> QED
  BY <1>1, <1>2, NextBlockType

LEMMA EepromStep == ASSUME IInv, EepromBegin \/ EepromEnd, UNCHANGED failures PROVE IInv'
<1>1. left > 0
  BY DEF IInv, Progress, BlockHeld, InBlock, EepromBegin, EepromEnd
<1>2. CASE EepromBegin /\ ~OfEeprom(BlockNumber, FirmwareFileEntries)
  <2>1. TypeOK'
    BY <1>1, <1>2, BlockWrittenType DEF EepromBegin, IInv, TypeOK
  <2> QED
    BY <1>2, <2>1, BlockDone DEF EepromBegin
<1>3. CASE EepromBegin /\ OfEeprom(BlockNumber, FirmwareFileEntries)
  <2>1. /\ pc = "eeprom" /\ pc' = "bytes"
        /\ eeprom' = [eeprom EXCEPT ![EepromSector] = Word("mixed")]
        /\ UNCHANGED <<RunBootloader, TicksSinceLastCommand, FirmwareFileEntries, flash, plan,
                       BlockNumber, left, broken, BlockBuffer, page, written, quiet>>
    BY <1>3 DEF EepromBegin
  <2>2. TypeOK'
    <3>1. eeprom' \in [0..(EepromSectors - 1) -> Content]
      BY <2>1, Contents DEF IInv, TypeOK
    <3> QED
      BY <2>1, <3>1 DEF IInv, TypeOK
  <2>3. BootLoaderIntact' /\ Agreed' /\ FlashHolds'
    BY <2>1 DEF IInv, BootLoaderIntact, Agreed, Holds, FlashHolds
  <2>4. EepromHolds'
    <3> SUFFICES ASSUME NEW b \in written, b \in EepromFile(plan)
                 PROVE  eeprom'[b - FirstBlock(plan.eeprom)] = Word("settings")
      BY <2>1 DEF EepromHolds
    <3>1. BlockNumber \notin written
      BY <2>1 DEF IInv, Progress, BlockHeld, InBlock
    <3>2. b - FirstBlock(plan.eeprom) # EepromSector
      BY <1>3, <3>1, OtherSectors, SectorOfEeprom
    <3>3. b - FirstBlock(plan.eeprom) \in 0..(EepromSectors - 1)
      <4>1. plan.eeprom \in Nat
        BY DirectoryType DEF IInv, TypeOK
      <4> QED
        BY <4>1, First, Sizes DEF EepromFile, FileBlocks
    <3> QED
      BY <2>1, <3>2, <3>3 DEF IInv, TypeOK, Holds, EepromHolds
  <2>5. Progress'
    BY <1>3, <2>1 DEF IInv, Progress, InBlock, BlockHeld, HostData, PagesSoFar, AllPages, InEeprom,
                      OfFlash, OfEeprom, FlashSector
  <2> QED
    BY <2>2, <2>3, <2>4, <2>5 DEF IInv, Holds
<1>4. CASE EepromEnd
  <2>1. TypeOK'
    <3>1. eeprom' \in [0..(EepromSectors - 1) -> Content]
      BY <1>4 DEF EepromEnd, IInv, TypeOK
    <3> QED
      BY <1>1, <1>4, <3>1, BlockWrittenType DEF EepromEnd, IInv, TypeOK
  <2>2. OfEeprom(BlockNumber, FirmwareFileEntries)
    BY <1>4 DEF EepromEnd, IInv, Progress, InEeprom
  <2> QED
    BY <1>4, <2>1, <2>2, BlockDone DEF EepromEnd
<1> QED
  BY <1>2, <1>3, <1>4

-----------------------------------------------------------------------------
LEMMA NextIInv == IInv /\ [Next]_vars => IInv'
<1> SUFFICES ASSUME IInv, [Next]_vars PROVE IInv'
  OBVIOUS
<1>1. CASE HostCommand /\ UNCHANGED failures
  BY <1>1, CommandStep
<1>2. CASE (WriteDone \/ StreamBreaks \/ WriteReserved \/ WriteDirectory) /\ UNCHANGED failures
  BY <1>2, WriteOther
<1>3. CASE WriteData /\ UNCHANGED failures
  BY <1>3, WriteDataStep
<1>4. CASE ErasePage /\ UNCHANGED failures
  BY <1>4, ErasePageStep
<1>5. CASE WritePage /\ UNCHANGED failures
  BY <1>5, WritePageStep
<1>6. CASE (EepromBegin \/ EepromEnd) /\ UNCHANGED failures
  BY <1>6, EepromStep
<1>7. CASE Loop /\ UNCHANGED failures
  BY <1>7, LoopStep
<1>8. CASE PowerFails \/ ((WatchdogReset \/ AppEnds \/ PowerOn) /\ UNCHANGED failures)
  BY <1>8, PowerStep
<1>9. CASE HostPlans /\ UNCHANGED failures
  BY <1>9, PlanStep
<1>10. CASE UNCHANGED vars
  <2>1. TypeOK' /\ BootLoaderIntact' /\ Agreed' /\ Holds'
    BY <1>10 DEF IInv, TypeOK, BootLoaderIntact, Agreed, Holds, FlashHolds, EepromHolds, vars
  <2>2. Progress'
    BY <1>10 DEF IInv, Progress, InBlock, BlockHeld, HostData, PagesSoFar, AllPages, InEeprom,
                 OfFlash, OfEeprom, FlashSector, vars
  <2> QED
    BY <2>1, <2>2 DEF IInv
<1> QED
  BY <1>1, <1>2, <1>3, <1>4, <1>5, <1>6, <1>7, <1>8, <1>9, <1>10 DEF Next, Powered, WriteStep

(* What the state of the loader's RAM, of the flash and of the host's file *)
(* system have to do with each other, in every reachable state.            *)
THEOREM Inductive == Spec => []IInv
BY InitIInv, NextIInv, PTL DEF Spec

(* The boot loader's code is never erased or written, in particular not    *)
(* the part below BOOT_START_ADDR, whatever blocks the host writes, with   *)
(* whatever start clusters in the directory, its data complete or not.     *)
THEOREM LoaderKept == Spec => []BootLoaderIntact
<1>1. IInv => BootLoaderIntact
  BY DEF IInv
<1> QED
  BY <1>1, Inductive, PTL

(* An update whose blocks all came in whole while the directory agreed     *)
(* with the host is in the flash: what other commands, broken writes,      *)
(* directories and power failures did to a block was repaired by the write *)
(* that counts.                                                            *)
THEOREM Updated == Spec => []UpdateComplete
<1>1. IInv => UpdateComplete
  <2> SUFFICES ASSUME IInv, FlashFile(plan) \subseteq written,
                      NEW s \in 0..(FlashSectors - 1), NEW p \in 1..Pages
               PROVE  flash[s][p] = Image(s)
    BY DEF UpdateComplete
  <2> DEFINE b == FirstBlock(plan.flash) + s
  <2>1. plan.flash \in Nat
    BY DirectoryType DEF IInv, TypeOK
  <2>2. FirstBlock(plan.flash) \in Int
    BY <2>1, First
  <2>3. b \in FlashFile(plan) /\ b - FirstBlock(plan.flash) = s
    BY <2>2, Sizes DEF FlashFile, FileBlocks
  <2> HIDE DEF b
  <2> QED
    BY <2>3 DEF IInv, Holds, FlashHolds
<1> QED
  BY <1>1, Inductive, PTL

(* Types, in particular blocks, sectors and pages stay in their ranges     *)
(* though the arithmetic of the blocks wraps.                              *)
THEOREM TypeCorrect == Spec => []TypeOK
<1>1. IInv => TypeOK
  BY DEF IInv
<1> QED
  BY <1>1, Inductive, PTL

(* Reading a block of either file gives what was written to it last, if    *)
(* that came in whole.                                                     *)
THEOREM ReadBack == Spec => []ReadsBack
<1>1. IInv => ReadsBack
  <2> SUFFICES ASSUME IInv, NEW b \in written PROVE ReadBlock(b) = {HostData(b)}
    BY DEF ReadsBack
  <2>1. /\ FirmwareFileEntries = plan /\ plan \in Layouts
        /\ b \in FlashFile(plan) \cup EepromFile(plan)
    BY DEF IInv, TypeOK, Agreed
  <2>2. b \in 0..(W - 1)
    BY <2>1, LayoutsAssumption, VirtualFatAssumption DEF Stores
  <2>3. CASE b \in EepromFile(plan)
    <3>1. OfEeprom(b, plan) /\ b \notin FlashFile(plan)
          /\ SectorOf(b, plan.eeprom) = b - FirstBlock(plan.eeprom)
      BY <2>1, <2>2, <2>3, PlanLocated
    <3>2. eeprom[b - FirstBlock(plan.eeprom)] = Word("settings")
      BY <2>3 DEF IInv, Holds, EepromHolds
    <3> QED
      BY <2>1, <2>3, <3>1, <3>2 DEF ReadBlock, HostData
  <2>4. CASE b \in FlashFile(plan)
    <3>1. OfFlash(b, plan) /\ ~OfEeprom(b, plan)
          /\ SectorOf(b, plan.flash) = b - FirstBlock(plan.flash)
      BY <2>1, <2>2, <2>4, PlanLocated
    <3>2. \A p \in 1..Pages :
            flash[b - FirstBlock(plan.flash)][p] = Image(b - FirstBlock(plan.flash))
      BY <2>4 DEF IInv, Holds, FlashHolds
    <3>3. 1 \in 1..Pages
      BY BootDiskAssumption
    <3>4. {flash[SectorOf(b, plan.flash)][p] : p \in 1..Pages} = {Image(b - FirstBlock(plan.flash))}
      BY <3>1, <3>2, <3>3
    <3> QED
      BY <2>1, <2>4, <3>1, <3>4 DEF ReadBlock, HostData
  <2> QED
    BY <2>1, <2>3, <2>4
<1> QED
  BY <1>1, Inductive, PTL

(* While directory and host agree, only blocks of EEPROM.BIN change the    *)
(* settings.                                                               *)
THEOREM SettingsKept == Spec => SettingsUntouched
<1>1. IInv /\ [Next]_vars => [SettingsWritten]_vars
  <2> SUFFICES ASSUME IInv, Next, eeprom' # eeprom, FirmwareFileEntries = plan
               PROVE  BlockNumber \in EepromFile(plan)
    BY DEF SettingsWritten
  <2>1. EepromBegin \/ EepromEnd
    BY DEF Next, Powered, HostCommand, WriteStep, Command, StartStopUnit, WriteCommand, WriteDone,
           StreamBreaks, WriteReserved, WriteDirectory, WriteData, ErasePage, WritePage, Loop, WatchdogReset,
           AppEnds, PowerOn, PowerFails, HostPlans, disk
  <2>2. OfEeprom(BlockNumber, FirmwareFileEntries)
    BY <2>1 DEF EepromBegin, EepromEnd, IInv, Progress, InEeprom, BlockWritten
  <2>3. plan \in Layouts /\ BlockNumber \in 0..(W - 1)
    BY DEF IInv, TypeOK
  <2> QED
    BY <2>2, <2>3, PlanLocated
<1> QED
  BY <1>1, Inductive, PTL DEF Spec, SettingsUntouched

(* What the loader counts is no more than the loops since the last command.*)
Counted == TicksSinceLastCommand <= quiet

(* The loader exits only after TickLimit loops without a command, for      *)
(* every limit: the counter of 8 bits wraps at the exit, not before.       *)
THEOREM QuietExit == Spec => ExitAfterQuiet
<1>1. Init => Counted
  BY DEF Init, Counted
<1>2. IInv /\ Counted /\ [Next]_vars => Counted'
  <2> SUFFICES ASSUME IInv, Counted, [Next]_vars PROVE Counted'
    OBVIOUS
  <2>1. TicksSinceLastCommand \in 0..TickLimit /\ quiet \in 0..TickLimit /\ TickLimit \in Nat
    BY BootDiskAssumption DEF IInv, TypeOK
  <2>2. CASE Loop
    <3>1. CASE TicksSinceLastCommand = TickLimit
      <4>1. (TicksSinceLastCommand + 1) % (TickLimit + 1) = 0
        BY <2>1, <3>1, Wraps
      <4> QED
        BY <2>1, <2>2, <4>1 DEF Loop, Counted
    <3>2. CASE TicksSinceLastCommand # TickLimit
      <4>1. (TicksSinceLastCommand + 1) % (TickLimit + 1) = TicksSinceLastCommand + 1
        BY <2>1, <3>2, Small
      <4> QED
        BY <2>1, <2>2, <3>2, <4>1 DEF Loop, Counted
    <3> QED
      BY <3>1, <3>2
  <2>3. CASE UNCHANGED <<TicksSinceLastCommand, quiet>> \/ (TicksSinceLastCommand' = 0 /\ quiet' = 0)
    BY <2>1, <2>3 DEF Counted
  <2> QED
    BY <2>2, <2>3 DEF Next, Powered, HostCommand, WriteStep, Command, StartStopUnit, WriteCommand,
           WriteDone, StreamBreaks, WriteReserved, WriteDirectory, WriteData, ErasePage, WritePage,
           EepromBegin, EepromEnd, WatchdogReset, AppEnds, PowerOn, PowerFails, HostPlans, Return, Variables, vars
<1>3. IInv /\ Counted /\ [Next]_vars => [Leaves => quiet >= TickLimit]_vars
  <2> SUFFICES ASSUME IInv, Counted, Next, Leaves PROVE quiet >= TickLimit
    OBVIOUS
  <2>1. Loop
    BY DEF Leaves, Next, Powered, HostCommand, WriteStep, Command, StartStopUnit, WriteCommand,
           WriteDone, StreamBreaks, WriteReserved, WriteDirectory, WriteData, ErasePage, WritePage,
           EepromBegin, EepromEnd, WatchdogReset, AppEnds, PowerOn, PowerFails, HostPlans, Return
  <2>2. ~(TicksSinceLastCommand < TickLimit)
    BY <2>1 DEF Loop, GoesOn, Leaves
  <2> QED
    BY <2>2, BootDiskAssumption DEF Counted, IInv, TypeOK
<1> QED
  BY <1>1, <1>2, <1>3, Inductive, PTL DEF Spec, ExitAfterQuiet

-----------------------------------------------------------------------------
(* The FAT gives both files as chains wherever the directory stores them,  *)
(* on every disk of at most 169 clusters: UpdateFAT12ClusterEntry computes *)
(* the place of an entry in 8 bits.                                        *)
THEOREM FatChains == ASSUME LastCluster <= 169 PROVE Spec => []FilesChained
<1>1. TypeOK => FilesChained
  <2> SUFFICES ASSUME TypeOK, Stores(FirmwareFileEntries),
                      NEW c \in Clusters(FirmwareFileEntries.flash, FlashSectors)
                                \cup Clusters(FirmwareFileEntries.eeprom, EepromSectors),
                      ~(c = Behind(FirmwareFileEntries.eeprom) /\ c % 2 = 1)
               PROVE  EntryInFat(c)
    BY DEF FilesChained
  <2> DEFINE l == FirmwareFileEntries
  <2>1. /\ l.flash \in Nat \ {0, 1} /\ l.eeprom \in Nat \ {0, 1}
        /\ FileBlocks(l.flash, FlashSectors) \cup FileBlocks(l.eeprom, EepromSectors)
             \subseteq 0..(MediaBlocks - 1)
        /\ FileBlocks(l.flash, FlashSectors) \cap FileBlocks(l.eeprom, EepromSectors) = {}
    BY DirectoryType DEF TypeOK, Stores, FlashFile, EepromFile
  <2>2. FlashSectors \in Nat \ {0} /\ EepromSectors \in Nat \ {0}
    BY VirtualFatAssumption
  <2> HIDE DEF l
  <2>3. Clusters(l.flash, FlashSectors) \cap Clusters(l.eeprom, EepromSectors) = {}
    BY <2>1, <2>2, ApartClusters
  <2>4. Clusters(l.flash, FlashSectors) \cup Clusters(l.eeprom, EepromSectors) \subseteq Entries
    BY <2>1, <2>2, AddressableClusters
  <2>5. EntryOf(FATBlock(l.flash, l.eeprom), c) = ExpectedEntry(l.flash, l.eeprom, c)
    BY <2>1, <2>3, <2>4, Chains DEF l, Behind
  <2> QED BY <2>5 DEF EntryInFat, l
<1>2. Spec => []TypeOK BY TypeCorrect
<1> QED BY <1>1, <1>2, PTL
=============================================================================
