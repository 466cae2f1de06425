----------------------------- MODULE MCBootDisk -----------------------------
(* A small disk whose clusters have the parity of the real one, and the    *)
(* real one.                                                               *)
EXTENDS BootDisk

Layout(f, e) == [flash |-> f, eeprom |-> e]

(* Where the host stores the files, and what else it may write: FLASH.BIN  *)
(* emptied, from the last block number on, so that its range wraps, or     *)
(* from the directory block on and over EEPROM.BIN.                        *)
SmallDefault == Layout(2, 4)
SmallLayouts == {SmallDefault, Layout(3, 2)}
SmallDirectories == SmallLayouts \cup {Layout(0, 4), Layout(5, 3), Layout(1, 2)}

RealDefault  == Layout(2, 14)
RealLayouts  == {RealDefault}

Stale == {Word("foreign")}
=============================================================================
