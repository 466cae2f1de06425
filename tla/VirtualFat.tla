----------------------------- MODULE VirtualFat -----------------------------
(***************************************************************************)
(* The layout of the boot loader's virtual disk and the FAT it makes up    *)
(* for the host (Lib/VirtualFAT.c).  The disk has two files, each of a     *)
(* fixed length and stored from a start cluster on without a gap; the host *)
(* decides the start clusters.                                             *)
(***************************************************************************)
EXTENDS Integers

CONSTANTS
  FlashSectors,        \* FILE_SECTORS(FLASH_FILE_SIZE_BYTES)
  EepromSectors,       \* FILE_SECTORS(EEPROM_FILE_SIZE_BYTES)
  SectorsPerCluster,   \* SECTOR_PER_CLUSTER
  MediaBlocks,         \* LUN_MEDIA_BLOCKS
  W                    \* 2^16: block numbers are uint16_t

ASSUME VirtualFatAssumption ==
  /\ FlashSectors \in Nat \ {0} /\ EepromSectors \in Nat \ {0}
  /\ SectorsPerCluster \in Nat \ {0}
  /\ MediaBlocks \in Nat /\ W \in Nat
  /\ FlashSectors + EepromSectors < MediaBlocks /\ MediaBlocks < W

BootBlock      == 0
FATBlocks      == {1, 2}
RootFilesBlock == 3
DataStartBlock == 4

FILE_CLUSTERS(sectors) == (sectors + SectorsPerCluster - 1) \div SectorsPerCluster

-----------------------------------------------------------------------------
(* A file's range of blocks, in 16 bits: start cluster 0 of an empty file  *)
(* lies before the data blocks and wraps.  (Mutants: clusters counted from *)
(* 1; the sector after the last one belongs to the file as well.)          *)
StartFromOne(cluster)          == (DataStartBlock + (cluster - 1) * SectorsPerCluster) % W
FileStartBlock(cluster)        == (DataStartBlock + (cluster - 2) * SectorsPerCluster) % W
FileEndBlock(cluster, sectors) == (FileStartBlock(cluster) + (sectors - 1)) % W

InFileAndAfter(block, cluster, sectors) ==
  FileStartBlock(cluster) <= block /\ block <= FileEndBlock(cluster, sectors + 1)
InFile(block, cluster, sectors) ==
  FileStartBlock(cluster) <= block /\ block <= FileEndBlock(cluster, sectors)

(* The sector of the file: FlashAddress and EEPROMAddress / 512.           *)
SectorOf(block, cluster) == (block - FileStartBlock(cluster)) % W

-----------------------------------------------------------------------------
(* UpdateFAT12ClusterEntry: two entries share three bytes; the index of    *)
(* the first has 8 bits.                                                   *)
Byte(x) == x % 256
LowNibble(x) == x % 16
HighNibble(x) == x - LowNibble(x)
EntryAt(index) == index + index \div 2

UpdateFAT12ClusterEntry(table, index, entry) ==
  LET at == Byte(EntryAt(index))
  IN IF index % 2 = 1
       THEN [table EXCEPT ![at]     = LowNibble(@) + LowNibble(entry) * 16,
                          ![at + 1] = Byte(entry \div 16)]
       ELSE [table EXCEPT ![at]     = Byte(entry),
                          ![at + 1] = HighNibble(Byte(entry)) + entry \div 256]

(* UpdateFAT12ClusterChain.  (Mutant: the last cluster has a successor.)   *)
EndOfFile == 4095
NextAlways(index, length, i) == index + i + 1
NextCluster(index, length, i) ==
  IF i = length - 1 THEN EndOfFile ELSE index + i + 1

UpdateFAT12ClusterChain(table, index, length) ==
  LET updated[i \in 0..length] ==
        IF i = 0 THEN table
        ELSE UpdateFAT12ClusterEntry(updated[i - 1], index + (i - 1),
                                     NextCluster(index, length, i - 1))
  IN updated[length]

(* The FAT block as VirtualFAT_ReadBlock makes it from the start clusters  *)
(* of the two files.                                                       *)
EmptyTable == [b \in 0..256 |-> 0]
FATBlock(flash, eeprom) ==
  LET reserved == UpdateFAT12ClusterEntry(UpdateFAT12ClusterEntry(EmptyTable, 0, 4088), 1, EndOfFile)
      first    == UpdateFAT12ClusterChain(reserved, flash, FILE_CLUSTERS(FlashSectors))
  IN UpdateFAT12ClusterChain(first, eeprom, FILE_CLUSTERS(EepromSectors))

-----------------------------------------------------------------------------
(* FAT12 as the host reads it: the entry of a cluster, 12 bits.            *)
EntryOf(table, c) ==
  LET at == EntryAt(c)
  IN IF c % 2 = 1 THEN table[at] \div 16 + table[at + 1] * 16
                  ELSE table[at] + LowNibble(table[at + 1]) * 256

(* What the host should find for a cluster, and where it writes a file     *)
(* that it has stored from a cluster on: after the boot block, two FAT     *)
(* blocks and one directory block.                                         *)
Clusters(start, sectors) == start..(start + FILE_CLUSTERS(sectors) - 1)
ExpectedEntry(flash, eeprom, c) ==
  LET Within(start, sectors) ==
        IF c + 1 \in Clusters(start, sectors) THEN c + 1 ELSE EndOfFile
  IN IF c \in Clusters(flash, FlashSectors) THEN Within(flash, FlashSectors)
     ELSE IF c \in Clusters(eeprom, EepromSectors) THEN Within(eeprom, EepromSectors)
     ELSE 0
LastCluster == 1 + (MediaBlocks - DataStartBlock) \div SectorsPerCluster

FirstBlock(cluster) == 4 + (cluster - 2) * SectorsPerCluster
FileBlocks(cluster, sectors) == FirstBlock(cluster)..(FirstBlock(cluster) + sectors - 1)
=============================================================================
