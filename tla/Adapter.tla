------------------------------- MODULE Adapter -------------------------------
(***************************************************************************)
(* The life of the adapter around the USB-TMC task: main() from power up   *)
(* to USB_Attach, the settings in EEPROM and the internal commands that    *)
(* change them, instruments that are exchanged, and power that fails.      *)
(*                                                                         *)
(* pc is where main() is: waiting for an instrument ("wait"), looking for  *)
(* its address ("search"), asking who it is ("identify"), storing the      *)
(* answer ("save"), attaching to USB ("attach"), serving it ("run"), or in *)
(* the boot loader ("update").                                             *)
(***************************************************************************)
EXTENDS GpibAddress

CONSTANTS
  Instruments,    \* records [name, primary, secondaries, idn, id]
  NoInstrument,   \* nothing is plugged in
  Blank,          \* what an erased EEPROM cell holds
  Internal,       \* the serial string made from address and chip signature
  Cells,          \* cells of the serial string in EEPROM (66)
  AddrTexts,      \* the numbers of the "!addr" commands the host uses
  TermChars,      \* termination characters the host sets in read requests
  MaxExchanges,   \* bound: exchanges of the instrument
  MaxFailures,    \* bound: power failures
  MaxCommands     \* bound: internal commands and read requests

Names     == {i.name : i \in Instruments}
Modes     == {"on", "off", "slow", "slower", "slowest"}
EepTerms  == {"eoi", "lf", "cr"}
Terms     == EepTerms \cup TermChars
Answers   == {"none", "named", "unnamed"}

ASSUME CellsAssumption == Cells \in Nat \ {0}
ASSUME InstrumentsAssumption ==
  /\ NoInstrument \notin Instruments
  /\ {Blank, Internal} \cap Names = {} /\ Blank # Internal
  /\ \A i \in Instruments : /\ i.primary \in 0..30
                            /\ i.idn \in Answers /\ i.id \in Answers
ASSUME BoundsAssumption == /\ MaxExchanges \in Nat /\ MaxFailures \in Nat
                           /\ MaxCommands \in Nat

VARIABLES
  pc, autoid, prevaddr, next,            \* main() and its locals
  gpib_addr, serial, shortened,          \* what the host sees of it
  s_terminator, s_terminator_enabled,    \* read termination
  eeprom,                                \* survives a restart
  instr,                                 \* the instrument (external)
  last,       \* history: address and name of the last completed save
  partial,    \* history: the power failed in the middle of a save
  wanted,     \* history: the last "!term" command, or "none"
  exchanges, failures, commands

termVars == <<s_terminator, s_terminator_enabled>>
history  == <<last, partial, wanted>>
bounds   == <<exchanges, failures, commands>>
vars == <<pc, autoid, prevaddr, next, gpib_addr, serial, shortened, termVars,
          eeprom, instr, history, bounds>>

Whole(name) == [c \in 1..Cells |-> name]

MainTypes ==
  /\ pc \in {"off", "wait", "search", "identify", "save", "attach", "run", "update"}
  /\ autoid \in Modes /\ prevaddr \in 0..255 /\ next \in 0..Cells
  /\ instr \in Instruments \cup {NoInstrument}

(* What the host sees: one byte of address, the name, the termination.     *)
ShownTypes ==
  /\ gpib_addr \in 0..255 /\ Primary(gpib_addr) # 31 /\ shortened \in BOOLEAN
  /\ serial \in [1..Cells -> Names \cup {Blank, Internal}]
  /\ s_terminator \in Terms /\ s_terminator_enabled \in BOOLEAN

EepromTypes ==
  eeprom \in [addr : 0..255, string : [1..Cells -> Names \cup {Blank}],
              autoid : Modes, term : Terms, short : BOOLEAN]

HistoryTypes ==
  /\ last \in [addr : 0..255, name : Names \cup {Blank}]
  /\ partial \in BOOLEAN /\ wanted \in EepTerms \cup {"none"}
  /\ exchanges \in 0..MaxExchanges /\ failures \in 0..MaxFailures
  /\ commands \in 0..MaxCommands

TypeOK == MainTypes /\ ShownTypes /\ EepromTypes /\ HistoryTypes

(* A new adapter: erased cells read as 255, which means AutoID on, EOI     *)
(* termination and the long string.                                        *)
Init ==
  /\ pc = "off"
  /\ autoid = "on" /\ prevaddr = 0 /\ next = 0 /\ gpib_addr = 1
  /\ serial = Whole(Blank) /\ shortened = FALSE
  /\ s_terminator = "eoi" /\ s_terminator_enabled = FALSE
  /\ eeprom = [addr |-> 255, string |-> Whole(Blank), autoid |-> "on",
               term |-> "eoi", short |-> FALSE]
  /\ instr = NoInstrument
  /\ last = [addr |-> 255, name |-> Blank] /\ partial = FALSE /\ wanted = "none"
  /\ exchanges = 0 /\ failures = 0 /\ commands = 0

-----------------------------------------------------------------------------
(* main() up to the first wait: static variables get their initial values, *)
(* and a stored CR or LF is applied.                                       *)
PowerUp ==
  /\ pc = "off"
  /\ pc' = "wait"
  /\ LET stored == eeprom.term
     IN /\ s_terminator' = IF stored \in {"lf", "cr"} THEN stored ELSE "eoi"
        /\ s_terminator_enabled' = (stored \in {"lf", "cr"})
  /\ serial' = Whole(Blank) /\ gpib_addr' = 1 /\ next' = 0
  /\ shortened' = FALSE
  /\ wanted' = "none"
  /\ UNCHANGED <<autoid, prevaddr, eeprom, instr, last, partial, bounds>>

gpib_is_connected == instr # NoInstrument

(* An instrument is connected; the AutoID delay is over.                   *)
Connected ==
  /\ pc = "wait" /\ gpib_is_connected
  /\ autoid' = eeprom.autoid
  /\ pc' = "search"
  /\ UNCHANGED <<prevaddr, next, gpib_addr, serial, shortened, termVars, eeprom,
                 instr, history, bounds>>

(* gpib_search found an instrument; without one the address falls back to  *)
(* 1.  (Mutants: address 0 is no instrument; no fall back.)                *)
PresentAboveZero(found) == found # NoAddress /\ found > 0
devicepresent(found)    == found # NoAddress
NoFallback(found)       == found
AddressFound(found)     == IF found = NoAddress THEN 1 ELSE found

(* findGpibdevice repeats until an instrument answers; the adapter resets  *)
(* itself when it is unplugged meanwhile.  With AutoID off the serial      *)
(* string is the adapter's own.                                            *)
findGpibdevice ==
  /\ pc = "search"
  /\ LET found == IF gpib_is_connected THEN gpib_search(instr) ELSE NoAddress
     IN /\ gpib_addr' = AddressFound(found)
        /\ \/ /\ devicepresent(found) /\ autoid # "off"
              /\ pc' = "identify" /\ UNCHANGED serial
           \/ /\ devicepresent(found) /\ autoid = "off"
              /\ pc' = "attach" /\ serial' = Whole(Internal)
           \/ /\ ~devicepresent(found)
              /\ pc' = IF gpib_is_connected THEN "search" ELSE "off"
              /\ UNCHANGED serial
  /\ UNCHANGED <<autoid, prevaddr, next, shortened, termVars, eeprom, instr,
                 history, bounds>>

(* identifyGpibDevice asks "*IDN?", and "ID?" if that was not answered; an *)
(* answer names the instrument if it has a comma, or begins with HP and a  *)
(* digit ("named").  Any answer may come too late for the clock timeout.   *)
Identified(named) == named => "named" \in {instr.idn, instr.id}

(* Without a name the one in EEPROM is taken, if it was stored for this    *)
(* address.  (Mutant: the address not compared.)                           *)
AnyAddressMatches(addr) == TRUE
StoredFor(addr)         == prevaddr' = addr

Identify ==
  /\ pc = "identify"
  /\ prevaddr' = eeprom.addr
  /\ \E named \in BOOLEAN :
       /\ IF gpib_is_connected /\ Responds(instr, gpib_addr)
            THEN Identified(named) ELSE named = FALSE
       /\ IF named
            THEN serial' = Whole(instr.name) /\ pc' = "save"
            ELSE /\ serial' = IF StoredFor(gpib_addr)
                                THEN eeprom.string ELSE Whole(Internal)
                 /\ pc' = "attach"
  /\ next' = 0
  /\ UNCHANGED <<autoid, gpib_addr, shortened, termVars, eeprom, instr, history, bounds>>

(* The address, then the cells of the string are stored one by one.        *)
(* (Mutant: the loop ends one cell early.)                                 *)
LastCellForgotten == next + 1 >= Cells
StringStored      == next >= Cells

SaveAddress ==
  /\ pc = "save" /\ eeprom.addr # gpib_addr
  /\ eeprom' = [eeprom EXCEPT !.addr = gpib_addr]
  /\ UNCHANGED <<pc, next, last, partial>>

SaveCell ==
  /\ pc = "save" /\ eeprom.addr = gpib_addr
  /\ IF StringStored
       THEN /\ pc' = "attach"
            /\ last' = [addr |-> gpib_addr, name |-> serial[1]]
            /\ partial' = FALSE
            /\ UNCHANGED <<eeprom, next>>
       ELSE /\ eeprom' = [eeprom EXCEPT !.string[next + 1] = serial[next + 1]]
            /\ next' = next + 1
            /\ UNCHANGED <<pc, last, partial>>

Save ==
  /\ SaveAddress \/ SaveCell
  /\ UNCHANGED <<autoid, prevaddr, gpib_addr, serial, shortened, termVars, instr,
                 wanted, bounds>>

Attach ==
  /\ pc = "attach"
  /\ shortened' = eeprom.short
  /\ pc' = "run"
  /\ UNCHANGED <<autoid, prevaddr, next, gpib_addr, serial, termVars, eeprom, instr,
                 history, bounds>>

(* The main loop detaches and resets when the instrument is gone.          *)
Disconnected ==
  /\ pc = "run" /\ ~gpib_is_connected
  /\ pc' = "off"
  /\ UNCHANGED <<autoid, prevaddr, next, gpib_addr, serial, shortened, termVars,
                 eeprom, instr, history, bounds>>

-----------------------------------------------------------------------------
Executes == pc = "run" /\ commands < MaxCommands /\ commands' = commands + 1

cmd_autoid(mode) ==
  /\ eeprom' = [eeprom EXCEPT !.autoid = mode]
  /\ UNCHANGED <<pc, gpib_addr, termVars, wanted>>

cmd_term(term) ==
  /\ s_terminator' = term
  /\ wanted' = term
  /\ UNCHANGED <<pc, gpib_addr, s_terminator_enabled, eeprom>>

cmd_term_store ==
  /\ eeprom' = [eeprom EXCEPT !.term = s_terminator]
  /\ UNCHANGED <<pc, gpib_addr, termVars, wanted>>

(* The old commands !0100, !0101 and !0102: set and store.                 *)
cmd_01(term) ==
  /\ eeprom' = [eeprom EXCEPT !.term = term]
  /\ s_terminator' = term
  /\ wanted' = term
  /\ UNCHANGED <<pc, gpib_addr, s_terminator_enabled>>

cmd_string(short) ==
  /\ eeprom' = [eeprom EXCEPT !.short = short]
  /\ UNCHANGED <<pc, gpib_addr, termVars, wanted>>

cmd_addr(numbers) ==
  /\ gpib_addr' = parser_finalize(numbers, gpib_addr)
  /\ UNCHANGED <<pc, termVars, eeprom, wanted>>

(* Jump_To_Bootloader restarts the adapter by its watchdog; the boot loader *)
(* stays only if the button is held, else it starts the application again. *)
cmd_reset ==
  /\ pc' = "off"
  /\ UNCHANGED <<gpib_addr, termVars, eeprom, wanted>>

(* The queries only leave a response and are not listed.                   *)
Command ==
  /\ Executes
  /\ \/ \E mode \in Modes : cmd_autoid(mode)
     \/ \E term \in EepTerms : cmd_term(term) \/ cmd_01(term)
     \/ \E short \in BOOLEAN : cmd_string(short)
     \/ \E numbers \in AddrTexts : cmd_addr(numbers)
     \/ cmd_term_store
     \/ cmd_reset
  /\ UNCHANGED <<autoid, prevaddr, next, serial, shortened, instr, last, partial,
                 exchanges, failures>>

(* What a read request does to the termination: its TermCharEnabled bit    *)
(* decides, whatever was set by command.                                   *)
ReadRequest ==
  /\ Executes
  /\ \/ /\ s_terminator' \in TermChars
        /\ s_terminator_enabled' = TRUE
        /\ wanted' = "none"
     \/ /\ s_terminator_enabled' = FALSE
        /\ UNCHANGED <<s_terminator, wanted>>
  /\ UNCHANGED <<pc, autoid, prevaddr, next, gpib_addr, serial, shortened, eeprom,
                 instr, last, partial, exchanges, failures>>

-----------------------------------------------------------------------------
(* The boot loader button (PB2) is looked at wherever main() waits; with   *)
(* it held the restart ends in the boot loader (BootDisk).                 *)
BootloaderButton ==
  /\ pc \in {"wait", "search", "run"}
  /\ pc' = "update"
  /\ UNCHANGED <<autoid, prevaddr, next, gpib_addr, serial, shortened, termVars,
                 eeprom, instr, history, bounds>>

Exchange ==
  /\ exchanges < MaxExchanges
  /\ exchanges' = exchanges + 1
  /\ instr' \in (Instruments \cup {NoInstrument}) \ {instr}
  /\ UNCHANGED <<pc, autoid, prevaddr, next, gpib_addr, serial, shortened, termVars,
                 eeprom, history, failures, commands>>

(* Power fails, or the USB cable is pulled: only EEPROM survives.          *)
PowerFails ==
  /\ pc # "off" /\ failures < MaxFailures
  /\ failures' = failures + 1
  /\ pc' = "off"
  /\ partial' = (partial \/ pc = "save")
  /\ UNCHANGED <<autoid, prevaddr, next, gpib_addr, serial, shortened, termVars,
                 eeprom, instr, last, wanted, exchanges, commands>>

Main == PowerUp \/ Connected \/ findGpibdevice \/ Identify \/ Save \/ Attach
        \/ Disconnected

Next == Main \/ Command \/ ReadRequest \/ BootloaderButton \/ Exchange \/ PowerFails

Spec == Init /\ [][Next]_vars /\ WF_vars(Main)
-----------------------------------------------------------------------------
(* A name on USB belongs to the instrument that last identified itself, at *)
(* the address it was found at then, and is never a mixture of two names,  *)
(* unless the power failed while a name was being stored.                  *)
ReportedNameIsLast ==
  pc = "attach" /\ serial # Whole(Internal) /\ ~partial =>
    /\ serial = Whole(last.name)
    /\ gpib_addr = last.addr

(* Why ReportedNameIsLast holds: while a name is being stored, the cells   *)
(* passed so far hold it, and the address was stored before any of them;   *)
(* at any other time EEPROM holds the last name whole.                     *)
SavingPrefix ==
  pc = "save" => /\ \E name \in Names : serial = Whole(name)
                 /\ next > 0 => eeprom.addr = gpib_addr
                 /\ \A c \in 1..Cells : c <= next => eeprom.string[c] = serial[c]

StoredIsLast ==
  pc # "save" /\ ~partial => /\ eeprom.addr = last.addr
                            /\ eeprom.string = Whole(last.name)

EepromShape ==
  /\ eeprom = [addr |-> eeprom.addr, string |-> eeprom.string,
               autoid |-> eeprom.autoid, term |-> eeprom.term, short |-> eeprom.short]
  /\ eeprom.string \in [1..Cells -> Names \cup {Blank}]
  /\ next \in 0..Cells /\ partial \in BOOLEAN
  /\ instr \in Instruments \cup {NoInstrument}

NamesInv == EepromShape /\ SavingPrefix /\ StoredIsLast /\ ReportedNameIsLast

(* A search finds every instrument with a primary address only or with     *)
(* secondary address 0 (README: all primary addresses and secondary        *)
(* address 0), at an address at which it listens, and without a secondary  *)
(* address if it can be addressed without one.                             *)
SearchFinds ==
  gpib_is_connected =>
    LET found == gpib_search(instr)
    IN IF found = NoAddress
         THEN instr.secondaries # {} /\ 1 \notin instr.secondaries
         ELSE /\ Responds(instr, found)
              /\ Responds(instr, Primary(found)) => Secondary(found) = 0

(* "!addr" sets the documented address and ignores any other: primary      *)
(* 1..30, secondary 0..6 or 96..102.  (For numbers below 255: the parser   *)
(* takes a larger one modulo 256, or for no number.)                       *)
Documented(numbers) ==
  /\ numbers[1] \in 1..30
  /\ Len(numbers) = 2 => numbers[2] \in 0..6 \cup 96..102

AddressAsTyped ==
  \A numbers \in AddrTexts :
    LET set == parser_finalize(numbers, gpib_addr)
    IN IF Documented(numbers)
         THEN /\ Primary(set) = numbers[1]
              /\ Secondary(set) = IF Len(numbers) = 1 THEN 0
                                  ELSE 1 + (numbers[2] % 96)
         ELSE set = gpib_addr

(* The boot of an adapter with an instrument that can be found ends with   *)
(* the adapter on USB, unless somebody interferes.                         *)
Reachable == gpib_is_connected /\ gpib_search(instr) # NoAddress
BootEnds == pc = "wait" /\ Reachable ~> pc \in {"run", "off", "update"} \/ ~Reachable

(* "!term lf" and "!term cr" set the read termination (README), for a host *)
(* that leaves the termination character of read requests alone.           *)
TermCommandWorks ==
  pc = "run" /\ wanted \in {"lf", "cr"} => s_terminator_enabled
=============================================================================
