---------------------------- MODULE AdapterProofs ----------------------------
(***************************************************************************)
(* For every set of instruments and every length of the string: the name   *)
(* the adapter reports is that of the last identified instrument, a search *)
(* finds what it promises, and "!addr" sets the address that was typed.    *)
(***************************************************************************)
EXTENDS Adapter, TLAPS, WellFoundedInduction

(* The steps that touch neither EEPROM nor the reported name: waiting,     *)
(* leaving main()'s boot and exchanging the instrument.                    *)
LEMMA OtherSteps ==
  ASSUME NamesInv,
         UNCHANGED <<next, eeprom, last, partial>>,
         instr' \in Instruments \cup {NoInstrument},
         pc # "save", pc' # "save",
         pc' = "attach" => serial' = Whole(Internal)
  PROVE  NamesInv'
<1>1. EepromShape'
  BY DEF NamesInv, EepromShape
<1>2. SavingPrefix' /\ ReportedNameIsLast'
  BY DEF SavingPrefix, ReportedNameIsLast, Whole
<1>3. StoredIsLast'
  BY DEF NamesInv, StoredIsLast, Whole
<1> QED
  BY <1>1, <1>2, <1>3 DEF NamesInv

(* The steps that do not move main(): only the instrument may change.      *)
LEMMA StillSteps ==
  ASSUME NamesInv,
         UNCHANGED <<pc, next, serial, gpib_addr, eeprom, last, partial>>,
         instr' \in Instruments \cup {NoInstrument}
  PROVE  NamesInv'
<1>1. EepromShape'
  BY DEF NamesInv, EepromShape
<1>2. SavingPrefix'
  BY DEF NamesInv, SavingPrefix, Whole
<1>3. StoredIsLast' /\ ReportedNameIsLast'
  BY DEF NamesInv, StoredIsLast, ReportedNameIsLast, Whole
<1> QED
  BY <1>1, <1>2, <1>3 DEF NamesInv

(* An erased EEPROM holds the last name, which is none.                    *)
LEMMA NamesInit == Init => NamesInv
<1> SUFFICES ASSUME Init PROVE NamesInv
  OBVIOUS
<1>1. eeprom = [addr |-> 255, string |-> Whole(Blank), autoid |-> "on",
                term |-> "eoi", short |-> FALSE]
  BY DEF Init
<1>2. eeprom.string = Whole(Blank) /\ eeprom.addr = 255
  BY <1>1
<1>3. \A S : Blank \in S => [c \in 1..Cells |-> Blank] \in [1..Cells -> S]
  OBVIOUS
<1>4. eeprom.string \in [1..Cells -> Names \cup {Blank}]
  BY <1>2, <1>3 DEF Whole
<1>5. 0 \in 0..Cells
  BY CellsAssumption
<1>6. eeprom = [addr |-> eeprom.addr, string |-> eeprom.string,
                autoid |-> eeprom.autoid, term |-> eeprom.term,
                short |-> eeprom.short]
  BY <1>1, Zenon
<1>7. EepromShape
  BY <1>4, <1>5, <1>6 DEF Init, EepromShape
<1>8. SavingPrefix /\ ReportedNameIsLast
  BY DEF Init, SavingPrefix, ReportedNameIsLast
<1>9. StoredIsLast
  BY <1>2 DEF Init, StoredIsLast
<1> QED
  BY <1>7, <1>8, <1>9 DEF NamesInv
-----------------------------------------------------------------------------
(* A named instrument starts a save whose cells are all still to store; an *)
(* unnamed one is given the stored name only at the address of that name.  *)
LEMMA IdentifyStep == NamesInv /\ Identify => NamesInv'
<1> SUFFICES ASSUME NamesInv, Identify PROVE NamesInv'
  OBVIOUS
<1>1. /\ UNCHANGED <<eeprom, last, partial, instr, gpib_addr>>
      /\ next' = 0 /\ pc = "identify"
  BY DEF Identify, history
<1>2. EepromShape'
  BY <1>1, CellsAssumption DEF NamesInv, EepromShape
<1>3. StoredIsLast'
  BY <1>1 DEF NamesInv, StoredIsLast
<1>4. PICK named \in BOOLEAN :
        /\ IF gpib_is_connected /\ Responds(instr, gpib_addr)
             THEN Identified(named) ELSE named = FALSE
        /\ IF named
             THEN serial' = Whole(instr.name) /\ pc' = "save"
             ELSE /\ serial' = IF StoredFor(gpib_addr)
                                 THEN eeprom.string ELSE Whole(Internal)
                  /\ pc' = "attach"
  BY DEF Identify
<1>5. CASE named
  <2>1. gpib_is_connected /\ serial' = Whole(instr.name) /\ pc' = "save"
    BY <1>4, <1>5
  <2>2. instr.name \in Names
    BY <2>1 DEF NamesInv, EepromShape, gpib_is_connected, Names
  <2>3. SavingPrefix'
    BY <1>1, <2>1, <2>2 DEF SavingPrefix
  <2>4. ReportedNameIsLast'
    BY <2>1 DEF ReportedNameIsLast
  <2> QED
    BY <1>2, <1>3, <2>3, <2>4 DEF NamesInv
<1>6. CASE ~named
  <2>1. /\ pc' = "attach"
        /\ serial' = IF StoredFor(gpib_addr) THEN eeprom.string ELSE Whole(Internal)
    BY <1>4, <1>6
  <2>2. SavingPrefix'
    BY <2>1 DEF SavingPrefix
  <2>3. ReportedNameIsLast'
    <3> SUFFICES ASSUME serial' # Whole(Internal), ~partial'
                 PROVE  serial' = Whole(last'.name) /\ gpib_addr' = last'.addr
      BY DEF ReportedNameIsLast, Whole
    <3>1. StoredFor(gpib_addr) /\ serial' = eeprom.string
      BY <2>1
    <3>2. eeprom.addr = gpib_addr
      BY <3>1 DEF StoredFor, Identify
    <3>3. eeprom.addr = last.addr /\ eeprom.string = Whole(last.name)
      BY <1>1 DEF NamesInv, StoredIsLast
    <3> QED
      BY <1>1, <3>1, <3>2, <3>3
  <2> QED
    BY <1>2, <1>3, <2>2, <2>3 DEF NamesInv
<1> QED
  BY <1>5, <1>6

(* The address is stored before any cell of the string is.                 *)
LEMMA SaveAddressStep == NamesInv /\ SaveAddress /\ Save => NamesInv'
<1> SUFFICES ASSUME NamesInv, SaveAddress, Save PROVE NamesInv'
  OBVIOUS
<1>1. UNCHANGED <<pc, next, last, partial, instr, serial, gpib_addr>> /\ pc = "save"
  BY DEF Save, SaveAddress
<1>2. eeprom' = [eeprom EXCEPT !.addr = gpib_addr]
  BY DEF SaveAddress
<1>3. /\ eeprom'.addr = gpib_addr /\ eeprom'.string = eeprom.string
      /\ eeprom' = [addr |-> eeprom'.addr, string |-> eeprom'.string,
                    autoid |-> eeprom'.autoid, term |-> eeprom'.term,
                    short |-> eeprom'.short]
  BY <1>2 DEF NamesInv, EepromShape
<1>4. EepromShape'
  BY <1>1, <1>3 DEF NamesInv, EepromShape
<1>5. SavingPrefix'
  BY <1>1, <1>3 DEF NamesInv, SavingPrefix, Whole
<1>6. StoredIsLast' /\ ReportedNameIsLast'
  BY <1>1 DEF StoredIsLast, ReportedNameIsLast
<1> QED
  BY <1>4, <1>5, <1>6 DEF NamesInv

(* Each cell extends the stored prefix; after the last one EEPROM holds    *)
(* the name whole, and it becomes the last name.                           *)
LEMMA SaveCellStep == NamesInv /\ SaveCell /\ Save => NamesInv'
<1> SUFFICES ASSUME NamesInv, SaveCell, Save PROVE NamesInv'
  OBVIOUS
<1>1. /\ UNCHANGED <<instr, serial, gpib_addr>>
      /\ pc = "save" /\ eeprom.addr = gpib_addr
  BY DEF Save, SaveCell
<1>2. PICK name \in Names : serial = Whole(name)
  BY <1>1 DEF NamesInv, SavingPrefix
<1>3. next \in 0..Cells /\ Cells \in Nat
  BY CellsAssumption DEF NamesInv, EepromShape
<1>4. CASE StringStored
  <2>1. /\ pc' = "attach" /\ partial' = FALSE /\ UNCHANGED <<eeprom, next>>
        /\ last' = [addr |-> gpib_addr, name |-> serial[1]]
    BY <1>4 DEF SaveCell
  <2>2. next = Cells
    BY <1>3, <1>4 DEF StringStored
  <2>3. \A c \in 1..Cells : eeprom.string[c] = serial[c]
    BY <1>1, <1>3, <2>2 DEF NamesInv, SavingPrefix
  <2>4. eeprom.string = [c \in 1..Cells |-> eeprom.string[c]]
    BY DEF NamesInv, EepromShape
  <2>5. eeprom.string = Whole(name)
    BY <1>2, <2>3, <2>4 DEF Whole
  <2>6. last'.name = name /\ last'.addr = gpib_addr
    BY <1>2, <1>3, <2>1, CellsAssumption DEF Whole
  <2>7. EepromShape'
    BY <1>1, <2>1 DEF NamesInv, EepromShape
  <2>8. StoredIsLast'
    BY <1>1, <2>1, <2>5, <2>6 DEF StoredIsLast, Whole
  <2>9. SavingPrefix' /\ ReportedNameIsLast'
    BY <1>1, <1>2, <2>1, <2>6 DEF SavingPrefix, ReportedNameIsLast, Whole
  <2> QED
    BY <2>7, <2>8, <2>9 DEF NamesInv
<1>5. CASE ~StringStored
  <2>1. /\ eeprom' = [eeprom EXCEPT !.string[next + 1] = serial[next + 1]]
        /\ next' = next + 1 /\ UNCHANGED <<pc, last, partial>>
    BY <1>5 DEF SaveCell
  <2>2. next + 1 \in 1..Cells /\ next + 1 \in 0..Cells
    BY <1>3, <1>5 DEF StringStored
  <2>3. /\ eeprom'.addr = eeprom.addr
        /\ eeprom'.string = [eeprom.string EXCEPT ![next + 1] = serial[next + 1]]
        /\ eeprom' = [addr |-> eeprom'.addr, string |-> eeprom'.string,
                      autoid |-> eeprom'.autoid, term |-> eeprom'.term,
                      short |-> eeprom'.short]
    BY <2>1 DEF NamesInv, EepromShape
  <2>4. serial[next + 1] \in Names
    BY <1>2, <2>2 DEF Whole
  <2>5. eeprom'.string \in [1..Cells -> Names \cup {Blank}]
    BY <2>2, <2>3, <2>4 DEF NamesInv, EepromShape
  <2>6. EepromShape'
    BY <1>1, <2>1, <2>2, <2>3, <2>5 DEF NamesInv, EepromShape
  <2>7. \A c \in 1..Cells : c <= next' => eeprom'.string[c] = serial'[c]
    <3> SUFFICES ASSUME NEW c \in 1..Cells, c <= next + 1
                 PROVE  eeprom'.string[c] = serial[c]
      BY <1>1, <2>1
    <3>1. CASE c = next + 1
      BY <2>2, <2>3, <3>1 DEF NamesInv, EepromShape
    <3>2. CASE c # next + 1
      <4>1. c <= next
        BY <1>3, <3>2
      <4>2. eeprom.string[c] = serial[c]
        BY <1>1, <4>1 DEF NamesInv, SavingPrefix
      <4> QED
        BY <2>3, <3>2, <4>2 DEF NamesInv, EepromShape
    <3> QED
      BY <3>1, <3>2
  <2>8. SavingPrefix'
    BY <1>1, <1>2, <2>1, <2>3, <2>7 DEF SavingPrefix, Whole
  <2>9. StoredIsLast' /\ ReportedNameIsLast'
    BY <1>1, <2>1 DEF StoredIsLast, ReportedNameIsLast
  <2> QED
    BY <2>6, <2>8, <2>9 DEF NamesInv
<1> QED
  BY <1>4, <1>5

(* Power that fails during a save is what partial remembers.               *)
LEMMA PowerFailsStep == NamesInv /\ PowerFails => NamesInv'
<1> SUFFICES ASSUME NamesInv, PowerFails PROVE NamesInv'
  OBVIOUS
<1>1. /\ UNCHANGED <<next, eeprom, last, instr>>
      /\ pc' = "off" /\ partial' = (partial \/ pc = "save")
  BY DEF PowerFails
<1>2. EepromShape'
  BY <1>1 DEF NamesInv, EepromShape
<1>3. StoredIsLast'
  BY <1>1 DEF NamesInv, EepromShape, StoredIsLast, Whole
<1>4. SavingPrefix' /\ ReportedNameIsLast'
  BY <1>1 DEF SavingPrefix, ReportedNameIsLast
<1> QED
  BY <1>2, <1>3, <1>4 DEF NamesInv

(* A command changes other settings in EEPROM, or none.                    *)
LEMMA CommandStep == NamesInv /\ Command => NamesInv'
<1> SUFFICES ASSUME NamesInv, Command PROVE NamesInv'
  OBVIOUS
<1>1. UNCHANGED <<next, last, partial, instr>> /\ pc = "run"
  BY DEF Command, Executes
<1>2. /\ pc' \in {"run", "off"}
      /\ \/ eeprom' = eeprom
         \/ \E mode \in Modes : eeprom' = [eeprom EXCEPT !.autoid = mode]
         \/ \E term \in Terms : eeprom' = [eeprom EXCEPT !.term = term]
         \/ eeprom' = [eeprom EXCEPT !.term = s_terminator]
         \/ \E short \in BOOLEAN : eeprom' = [eeprom EXCEPT !.short = short]
  BY <1>1 DEF Command, Executes, cmd_autoid, cmd_term, cmd_01, cmd_string, cmd_addr,
              cmd_term_store, cmd_reset, Terms
<1>3. /\ eeprom'.addr = eeprom.addr /\ eeprom'.string = eeprom.string
      /\ eeprom' = [addr |-> eeprom'.addr, string |-> eeprom'.string,
                    autoid |-> eeprom'.autoid, term |-> eeprom'.term,
                    short |-> eeprom'.short]
  BY <1>2 DEF NamesInv, EepromShape
<1>4. EepromShape'
  BY <1>1, <1>3 DEF NamesInv, EepromShape
<1>5. StoredIsLast'
  BY <1>1, <1>3 DEF NamesInv, StoredIsLast, Whole
<1>6. SavingPrefix' /\ ReportedNameIsLast'
  BY <1>2 DEF SavingPrefix, ReportedNameIsLast
<1> QED
  BY <1>4, <1>5, <1>6 DEF NamesInv
-----------------------------------------------------------------------------
(* Every step of the adapter keeps NamesInv.                               *)
LEMMA NamesNext == NamesInv /\ [Next]_vars => NamesInv'
<1> SUFFICES ASSUME NamesInv, [Next]_vars PROVE NamesInv'
  OBVIOUS
<1> instr \in Instruments \cup {NoInstrument}
  BY DEF NamesInv, EepromShape
<1>1. CASE PowerUp
  <2>1. /\ pc = "off" /\ pc' = "wait" /\ next' = 0
        /\ UNCHANGED <<eeprom, last, partial, instr>>
    BY <1>1 DEF PowerUp
  <2>2. EepromShape'
    BY <2>1, CellsAssumption DEF NamesInv, EepromShape
  <2>3. StoredIsLast'
    BY <2>1 DEF NamesInv, StoredIsLast, Whole
  <2>4. SavingPrefix' /\ ReportedNameIsLast'
    BY <2>1 DEF SavingPrefix, ReportedNameIsLast, Whole
  <2> QED
    BY <2>2, <2>3, <2>4 DEF NamesInv
<1>2. CASE Connected
  BY <1>2, OtherSteps DEF Connected, history
<1>3. CASE findGpibdevice
  <2>1. pc = "search" /\ pc' \in {"identify", "attach", "search", "off"}
    BY <1>3 DEF findGpibdevice
  <2>2. UNCHANGED <<next, eeprom, last, partial, instr>>
    BY <1>3 DEF findGpibdevice, history
  <2>3. pc' = "attach" => serial' = Whole(Internal)
    BY <1>3 DEF findGpibdevice
  <2> QED
    BY <2>1, <2>2, <2>3, OtherSteps DEF Whole
<1>4. CASE Identify
  BY <1>4, IdentifyStep
<1>5. CASE Save
  BY <1>5, SaveAddressStep, SaveCellStep DEF Save
<1>6. CASE Attach
  BY <1>6, OtherSteps DEF Attach, history
<1>7. CASE Disconnected
  BY <1>7, OtherSteps DEF Disconnected, history
<1>8. CASE Command
  BY <1>8, CommandStep
<1>9. CASE ReadRequest
  BY <1>9, OtherSteps DEF ReadRequest, Executes
<1>10. CASE BootloaderButton
  BY <1>10, OtherSteps DEF BootloaderButton, history
<1>11. CASE Exchange
  BY <1>11, StillSteps DEF Exchange, history
<1>12. CASE PowerFails
  BY <1>12, PowerFailsStep
<1>13. CASE UNCHANGED vars
  BY <1>13, StillSteps DEF vars, history
<1> QED
  BY <1>1, <1>2, <1>3, <1>4, <1>5, <1>6, <1>7, <1>8, <1>9, <1>10, <1>11, <1>12,
     <1>13 DEF Next, Main

(* EEPROM and the reported name agree with the last save, always.          *)
THEOREM NamesKept == Spec => []NamesInv
BY NamesInit, NamesNext, PTL DEF Spec

(* The name reported on USB is that of the last instrument identified.     *)
THEOREM ReportedName == Spec => []ReportedNameIsLast
<1>1. NamesInv => ReportedNameIsLast
  BY DEF NamesInv
<1> QED
  BY <1>1, NamesKept, PTL

-----------------------------------------------------------------------------
(* Less-than on the numbers is well founded.                               *)
LEMMA NatWellFounded == IsWellFoundedOn({ss \in Nat \X Nat : ss[1] < ss[2]}, Nat)
BY NatLessThanWellFounded DEF OpToRel

(* A set of numbers has a least element, which Min chooses.                *)
LEMMA MinIsMember ==
  ASSUME NEW S \in SUBSET Nat, S # {}
  PROVE  Min(S) \in S
<1> DEFINE R == {ss \in Nat \X Nat : ss[1] < ss[2]}
<1>1. IsWellFoundedOn(R, Nat) BY NatWellFounded
<1> HIDE DEF R
<1>2. PICK x \in S : \A y \in S : ~(<<y, x>> \in R) BY <1>1, WFMin, Zenon
<1>3. \A y \in S : x <= y
  <2> TAKE y \in S
  <2>1. x \in Nat /\ y \in Nat OBVIOUS
  <2>2. <<y, x>> \in R <=> y < x BY <2>1 DEF R
  <2> QED BY <1>2, <2>1, <2>2
<1> QED BY <1>3 DEF Min

(* An instrument that answers at all is found at an address it answers.    *)
LEMMA SearchedOnce ==
  ASSUME NEW i
  PROVE  /\ SearchOnce(i) = NoAddress => \A a \in Probes : ~Responds(i, a)
         /\ SearchOnce(i) # NoAddress => SearchOnce(i) \in Probes /\ Responds(i, SearchOnce(i))
<1> DEFINE answering == {a \in Probes : Responds(i, a)}
<1>1. CASE answering = {}
  BY <1>1 DEF SearchOnce
<1>2. CASE answering # {}
  <2>1. answering \in SUBSET Nat BY DEF Probes
  <2>2. Min(answering) \in answering BY <1>2, <2>1, MinIsMember
  <2>3. SearchOnce(i) = Min(answering) BY <1>2 DEF SearchOnce
  <2>4. SearchOnce(i) \in Probes /\ Responds(i, SearchOnce(i)) BY <2>2, <2>3
  <2> QED BY <2>4 DEF Probes, NoAddress
<1> QED BY <1>1, <1>2

(* An address keeps its two parts apart.                                   *)
LEMMA Coding ==
  /\ \A p \in 0..30 : Primary(p) = p /\ Secondary(p) = 0
  /\ \A p \in 0..30, s \in 0..6 :
       /\ WithSecondary(p, s) \in 32..254
       /\ Primary(WithSecondary(p, s)) = p /\ Secondary(WithSecondary(p, s)) = s + 1
  /\ \A a \in 0..255 : Primary(a) \in 0..31
BY DEF Primary, Secondary, WithSecondary

(* gpib_search gives an address at which the instrument listens, with a    *)
(* secondary address only if it needs one, or none of the probes answered. *)
LEMMA Found ==
  ASSUME NEW i \in Instruments
  PROVE  LET found == gpib_search(i)
         IN /\ found = NoAddress => \A a \in Probes : ~Responds(i, a)
            /\ found # NoAddress => /\ found \in 0..62 /\ Primary(found) # 31
                                    /\ Responds(i, found)
                                    /\ Responds(i, Primary(found)) => Secondary(found) = 0
<1>1. i.primary \in 0..30 BY InstrumentsAssumption
<1>2. CASE SearchOnce(i) = NoAddress
  <2>1. ~Responds(i, Primary(63)) BY <1>1 DEF Responds, Primary
  <2>2. gpib_search(i) = NoAddress BY <1>2, <2>1 DEF gpib_search
  <2> QED BY <1>2, <2>2, SearchedOnce
<1>3. CASE SearchOnce(i) # NoAddress
  <2> DEFINE found == SearchOnce(i)
  <2>1. found \in Probes /\ Responds(i, found) BY <1>3, SearchedOnce
  <2>2. found \in 0..62 /\ Primary(found) # 31 BY <2>1 DEF Probes, Primary
  <2>3. CASE found >= 32 /\ Responds(i, Primary(found))
    <3>1. gpib_search(i) = IF found >= 32 /\ Responds(i, Primary(found))
                             THEN Primary(found) ELSE found
      BY <1>3 DEF gpib_search
    <3>2. Primary(found) \in 0..30 BY <2>2 DEF Primary
    <3>3. Primary(Primary(found)) = Primary(found) /\ Secondary(Primary(found)) = 0
      BY <3>2, Coding
    <3>4. Primary(found) # NoAddress BY <3>2 DEF NoAddress
    <3>5. gpib_search(i) = Primary(found) BY <2>3, <3>1
    <3> QED BY <2>2, <2>3, <3>5, <3>2, <3>3, <3>4
  <2>4. CASE ~(found >= 32 /\ Responds(i, Primary(found)))
    <3>1. gpib_search(i) = found BY <1>3, <2>4 DEF gpib_search
    <3>2. found < 32 => Secondary(found) = 0 BY <2>2 DEF Secondary
    <3> QED BY <1>3, <2>1, <2>2, <2>4, <3>1, <3>2
  <2> QED BY <2>3, <2>4
<1> QED BY <1>2, <1>3

(* An instrument without secondary addresses, or with secondary address 0, *)
(* answers one of the probes.                                              *)
LEMMA Searched == TypeOK => SearchFinds
<1> SUFFICES ASSUME TypeOK, gpib_is_connected PROVE SearchFinds BY DEF SearchFinds
<1>1. instr \in Instruments BY DEF TypeOK, MainTypes, gpib_is_connected
<1>2. instr.primary \in 0..30 BY <1>1, InstrumentsAssumption
<1>3. ASSUME instr.secondaries = {} \/ 1 \in instr.secondaries
      PROVE  \E a \in Probes : Responds(instr, a)
  <2>1. CASE 1 \in instr.secondaries \/ instr.primary = 0
    <3>1. instr.primary + 32 \in Probes /\ Primary(instr.primary + 32) = instr.primary
          /\ Secondary(instr.primary + 32) = 1
      BY <1>2 DEF Probes, Primary, Secondary
    <3> QED BY <1>3, <2>1, <3>1 DEF Responds
  <2>2. CASE instr.secondaries = {} /\ instr.primary # 0
    <3>1. instr.primary \in Probes /\ Primary(instr.primary) = instr.primary
      BY <1>2, <2>2 DEF Probes, Primary
    <3> QED BY <2>2, <3>1 DEF Responds
  <2> QED BY <1>3, <2>1, <2>2
<1> QED BY <1>1, <1>3, Found DEF SearchFinds

(* The parser reads every number below 255 as it is, digit by digit.       *)
LEMMA NumbersRead == \A n \in 0..254 : NumberRead(n) = n
<1> TAKE n \in 0..254
<1>1. CASE n < 10 BY <1>1 DEF NumberRead, numparser_addchar
<1>2. CASE n \in 10..99
  <2>1. n \div 10 \in 1..9 /\ n % 10 \in 0..9 /\ n = (n \div 10) * 10 + (n % 10)

    BY <1>2
  <2>2. NumberRead(n) = numparser_addchar(numparser_addchar(255, n \div 10), n % 10)
    BY <1>2 DEF NumberRead
  <2>3. numparser_addchar(255, n \div 10) = n \div 10
    BY <2>1 DEF numparser_addchar
  <2> QED BY <1>2, <2>1, <2>2, <2>3 DEF numparser_addchar
<1>3. CASE n >= 100
  <2> DEFINE h == n \div 100
             t == (n \div 10) % 10
             o == n % 10
  <2>1. h \in 1..2 /\ t \in 0..9 /\ o \in 0..9 /\ n = (h * 10 + t) * 10 + o
    BY <1>3
  <2>2. NumberRead(n)
          = numparser_addchar(numparser_addchar(numparser_addchar(255, h), t), o)
    BY <1>3 DEF NumberRead
  <2> HIDE DEF h, t, o
  <2>3. numparser_addchar(255, h) = h BY <2>1 DEF numparser_addchar
  <2>4. numparser_addchar(h, t) = h * 10 + t BY <2>1 DEF numparser_addchar
  <2>5. h * 10 + t \in 10..29 BY <2>1
  <2>6. numparser_addchar(h * 10 + t, o) = (h * 10 + t) * 10 + o
    BY <2>1, <2>5 DEF numparser_addchar
  <2> QED BY <2>1, <2>2, <2>3, <2>4, <2>6
<1> QED BY <1>1, <1>2, <1>3

(* The numbers of a command that a byte can hold.                          *)
Readable == 0..254
OneByte(numbers) == \/ \E p \in Readable : numbers = <<p>>
                    \/ \E p, s \in Readable : numbers = <<p, s>>

(* What AddressAsTyped says of one command and one address before it.      *)
SetAsTyped(numbers, old) ==
  LET set == parser_finalize(numbers, old)
  IN IF Documented(numbers)
       THEN /\ Primary(set) = numbers[1]
            /\ Secondary(set) = IF Len(numbers) = 1 THEN 0 ELSE 1 + (numbers[2] % 96)
       ELSE set = old

(* A command with one number.                                              *)
LEMMA TypedPrimary ==
  ASSUME NEW p \in Readable, NEW numbers, numbers = <<p>>, NEW old
  PROVE  SetAsTyped(numbers, old)
<1>1. Len(numbers) = 1 /\ numbers[1] = p OBVIOUS
<1>2. NumberRead(p) = p BY NumbersRead DEF Readable
<1>3. AddrNumbers(numbers) = <<p, 255>> BY <1>1, <1>2 DEF AddrNumbers
<1>4. parser_finalize(numbers, old) = IF p \in 1..30 THEN p ELSE old
  BY <1>3 DEF parser_finalize
<1>5. p \in 1..30 => Primary(p) = p /\ Secondary(p) = 0 BY DEF Primary, Secondary
<1>6. Documented(numbers) <=> p \in 1..30 BY <1>1 DEF Documented
<1> QED BY <1>1, <1>4, <1>5, <1>6, Zenon DEF SetAsTyped

(* The two forms of a secondary address are one in gpib_addr.              *)
LEMMA SecondaryForms ==
  ASSUME NEW s \in Readable
  PROVE  IF s \in 0..6 \cup 96..102
           THEN SecondaryGiven(s) = s % 96 /\ s % 96 \in 0..6
           ELSE SecondaryGiven(s) \notin 0..6
BY DEF SecondaryGiven, Readable

(* A command with two numbers.                                             *)
LEMMA TypedSecondary ==
  ASSUME NEW p \in Readable, NEW s \in Readable, NEW numbers, numbers = <<p, s>>, NEW old
  PROVE  SetAsTyped(numbers, old)
<1> DEFINE set == parser_finalize(numbers, old)
<1>1. Len(numbers) = 2 /\ numbers[1] = p /\ numbers[2] = s OBVIOUS
<1>2. NumberRead(p) = p /\ NumberRead(s) = s /\ p # 255 /\ s # 255
  BY NumbersRead DEF Readable
<1>3. AddrNumbers(numbers) = <<p, s>> BY <1>1, <1>2, Zenon DEF AddrNumbers
<1> DEFINE given     == <<p, s>>
           secondary == SecondaryGiven(s)
           Primaries   == 1..30
           Secondaries == 0..6
<1>4. given[1] = p /\ given[2] = s OBVIOUS
<1> HIDE DEF given
<1>5. set = IF p \notin Primaries THEN old
            ELSE IF secondary \in Secondaries THEN WithSecondary(p, secondary) ELSE old
  BY <1>2, <1>3, <1>4 DEF parser_finalize, given
<1> HIDE DEF set, secondary, Primaries, Secondaries
<1>6. Documented(numbers) <=> p \in Primaries /\ s \in 0..6 \cup 96..102
  BY <1>1 DEF Documented, Primaries
<1>7. CASE Documented(numbers)
  <2>1. p \in Primaries /\ secondary = s % 96 /\ secondary \in Secondaries
    BY <1>6, <1>7, SecondaryForms DEF secondary, Secondaries
  <2>2. set = WithSecondary(p, secondary) BY <1>5, <2>1
  <2>3. Primary(set) = p /\ Secondary(set) = 1 + secondary
    <3>1. p \in 1..30 /\ secondary \in 0..6 BY <2>1 DEF Primaries, Secondaries
    <3> QED BY <2>2, <3>1 DEF Primary, Secondary, WithSecondary
  <2>4. /\ Primary(parser_finalize(numbers, old)) = numbers[1]
        /\ Secondary(parser_finalize(numbers, old))
             = IF Len(numbers) = 1 THEN 0 ELSE 1 + (numbers[2] % 96)
    BY <1>1, <2>1, <2>3 DEF set
  <2> QED BY <1>7, <2>4, Zenon DEF SetAsTyped
<1>8. CASE ~Documented(numbers)
  <2>1. p \notin Primaries \/ secondary \notin Secondaries
    BY <1>6, <1>8, SecondaryForms DEF secondary, Secondaries
  <2>2. set = old BY <1>5, <2>1
  <2> QED BY <1>8, <2>2, Zenon DEF SetAsTyped, set
<1> QED BY <1>7, <1>8, Zenon

(* parser_finalize sets a documented address and ignores any other.        *)
LEMMA Typed == ASSUME NEW numbers, OneByte(numbers), NEW old PROVE SetAsTyped(numbers, old)
BY TypedPrimary, TypedSecondary, Zenon DEF OneByte

(* "!addr" sets the address that was typed, for all commands whose numbers *)
(* are below 255; a larger one is read modulo 256, or as no number.        *)
THEOREM AddressTyped ==
  ASSUME \A numbers \in AddrTexts : OneByte(numbers)
  PROVE  Spec => []AddressAsTyped
<1>1. AddressAsTyped BY Typed DEF AddressAsTyped, SetAsTyped
<1> QED BY <1>1, PTL

-----------------------------------------------------------------------------
(* Every address gpib_addr is set to is one byte with a primary address    *)
(* below 31.                                                               *)
Address == {a \in 0..255 : Primary(a) # 31}

(* The address without an instrument.                                      *)
LEMMA OneIsAddress == 1 \in Address
BY DEF Address, Primary

(* The address after a search.                                             *)
LEMMA FoundAddress ==
  ASSUME NEW i \in Instruments
  PROVE  AddressFound(gpib_search(i)) \in Address
<1>1. CASE gpib_search(i) = NoAddress
  <2>1. AddressFound(gpib_search(i)) = 1 BY <1>1 DEF AddressFound
  <2> QED BY <2>1 DEF Address, Primary
<1>2. CASE gpib_search(i) # NoAddress
  <2>1. AddressFound(gpib_search(i)) = gpib_search(i) BY <1>2 DEF AddressFound
  <2>2. gpib_search(i) \in 0..62 /\ Primary(gpib_search(i)) # 31 BY <1>2, Found
  <2> QED BY <2>1, <2>2 DEF Address
<1> QED BY <1>1, <1>2

(* The address after "!addr".                                              *)
LEMMA SetAddress ==
  ASSUME NEW numbers, NEW old \in Address
  PROVE  parser_finalize(numbers, old) \in Address
<1> DEFINE p == AddrNumbers(numbers)[1]
           s == SecondaryGiven(AddrNumbers(numbers)[2])
<1>1. \/ parser_finalize(numbers, old) = old
      \/ p \in 1..30 /\ parser_finalize(numbers, old) = p
      \/ p \in 1..30 /\ s \in 0..6 /\ parser_finalize(numbers, old) = WithSecondary(p, s)
  BY DEF parser_finalize
<1> HIDE DEF p, s
<1>2. p \in 1..30 => p \in Address BY DEF Address, Primary
<1>3. p \in 1..30 /\ s \in 0..6 => WithSecondary(p, s) \in Address
  BY DEF Address, Primary, WithSecondary
<1> QED BY <1>1, <1>2, <1>3

(* A setting stored in EEPROM leaves the others as they are.               *)
LEMMA EepromKept ==
  ASSUME EepromTypes
  PROVE  /\ eeprom.addr \in 0..255 /\ eeprom.autoid \in Modes /\ eeprom.term \in Terms
         /\ eeprom.short \in BOOLEAN /\ eeprom.string \in [1..Cells -> Names \cup {Blank}]
         /\ \A a \in 0..255 : eeprom' = [eeprom EXCEPT !.addr = a] => EepromTypes'
         /\ \A m \in Modes : eeprom' = [eeprom EXCEPT !.autoid = m] => EepromTypes'
         /\ \A t \in Terms : eeprom' = [eeprom EXCEPT !.term = t] => EepromTypes'
         /\ \A b \in BOOLEAN : eeprom' = [eeprom EXCEPT !.short = b] => EepromTypes'
         /\ \A c \in 1..Cells, name \in Names :
              eeprom' = [eeprom EXCEPT !.string[c] = name] => EepromTypes'
<1> DEFINE A == 0..255
           S == [1..Cells -> Names \cup {Blank}]
           M == Modes
           T == Terms
           B == BOOLEAN
           R == [addr : A, string : S, autoid : M, term : T, short : B]
<1>1. EepromTypes => eeprom \in R BY Zenon DEF EepromTypes
<1>2. eeprom' \in R => EepromTypes' BY Zenon DEF EepromTypes
<1>3. \A c \in 1..Cells, name \in Names, t \in S : [t EXCEPT ![c] = name] \in S OBVIOUS
<1> HIDE DEF A, S, M, T, B
<1>4. /\ eeprom.addr \in A /\ eeprom.autoid \in M /\ eeprom.term \in T
      /\ eeprom.short \in B /\ eeprom.string \in S
  BY <1>1
<1>5. \A a \in A : [eeprom EXCEPT !.addr = a] \in R BY <1>1
<1>6. \A m \in M : [eeprom EXCEPT !.autoid = m] \in R BY <1>1
<1>7. \A t \in T : [eeprom EXCEPT !.term = t] \in R BY <1>1
<1>8. \A b \in B : [eeprom EXCEPT !.short = b] \in R BY <1>1
<1>9. \A c \in 1..Cells, name \in Names : [eeprom EXCEPT !.string[c] = name] \in R
  BY <1>1, <1>3, <1>4
<1> HIDE DEF R
<1>10. \A a \in A : eeprom' = [eeprom EXCEPT !.addr = a] => EepromTypes' BY <1>2, <1>5
<1>11. \A m \in M : eeprom' = [eeprom EXCEPT !.autoid = m] => EepromTypes' BY <1>2, <1>6
<1>12. \A t \in T : eeprom' = [eeprom EXCEPT !.term = t] => EepromTypes' BY <1>2, <1>7
<1>13. \A b \in B : eeprom' = [eeprom EXCEPT !.short = b] => EepromTypes' BY <1>2, <1>8
<1>14. \A c \in 1..Cells, name \in Names :
         eeprom' = [eeprom EXCEPT !.string[c] = name] => EepromTypes'
  BY <1>2, <1>9
<1> QED BY <1>4, <1>10, <1>11, <1>12, <1>13, <1>14, Zenon DEF A, S, M, T, B

(* A string of one name.                                                   *)
LEMMA WholeNames ==
  ASSUME NEW name \in Names \cup {Blank, Internal}
  PROVE  Whole(name) \in [1..Cells -> Names \cup {Blank, Internal}]
BY DEF Whole

(* What an erased EEPROM reads as.                                         *)
LEMMA EepromRecord ==
  ASSUME NEW t \in [1..Cells -> Names \cup {Blank}], NEW m \in Modes, NEW e \in Terms
  PROVE  [addr |-> 255, string |-> t, autoid |-> m, term |-> e, short |-> FALSE]
           \in [addr : 0..255, string : [1..Cells -> Names \cup {Blank}],
               autoid : Modes, term : Terms, short : BOOLEAN]
OBVIOUS

(* A new adapter is well typed.                                            *)
LEMMA TypesInit == Init => TypeOK
<1> SUFFICES ASSUME Init PROVE TypeOK OBVIOUS
<1>1. MainTypes BY CellsAssumption DEF Init, MainTypes, Modes
<1>2. ShownTypes
  <2>1. serial \in [1..Cells -> Names \cup {Blank, Internal}] BY WholeNames DEF Init
  <2>2. gpib_addr \in Address BY OneIsAddress DEF Init
  <2>3. s_terminator \in Terms BY DEF Init, Terms, EepTerms
  <2> QED BY <2>1, <2>2, <2>3 DEF Init, ShownTypes, Address
<1>3. EepromTypes
  <2>1. Whole(Blank) \in [1..Cells -> Names \cup {Blank}] BY DEF Whole
  <2>2. "on" \in Modes /\ "eoi" \in Terms BY DEF Modes, Terms, EepTerms
  <2>3. eeprom = [addr |-> 255, string |-> Whole(Blank), autoid |-> "on",
                  term |-> "eoi", short |-> FALSE]
    BY DEF Init
  <2> QED BY <2>1, <2>2, <2>3, EepromRecord DEF EepromTypes
<1>4. HistoryTypes
  <2>1. \A name : [addr |-> 255, name |-> name] \in [addr : 0..255, name : {name}]
    OBVIOUS
  <2>2. last \in [addr : 0..255, name : Names \cup {Blank}] BY <2>1 DEF Init
  <2>3. wanted \in EepTerms \cup {"none"} /\ partial \in BOOLEAN BY DEF Init
  <2>4. exchanges \in 0..MaxExchanges /\ failures \in 0..MaxFailures
        /\ commands \in 0..MaxCommands
    BY BoundsAssumption DEF Init
  <2> QED BY <2>2, <2>3, <2>4 DEF HistoryTypes
<1> QED BY <1>1, <1>2, <1>3, <1>4 DEF TypeOK

(* Every step keeps the types; that a name is stored rests on NamesInv.    *)
LEMMA TypesNext == TypeOK /\ NamesInv /\ [Next]_vars => TypeOK'
<1> SUFFICES ASSUME TypeOK, NamesInv, [Next]_vars PROVE TypeOK' OBVIOUS
<1> USE DEF TypeOK, termVars, history, bounds
<1>1. CASE PowerUp
  <2>1. MainTypes' /\ HistoryTypes'
    BY <1>1, CellsAssumption DEF PowerUp, MainTypes, HistoryTypes
  <2>2. ShownTypes'
    <3>1. serial' \in [1..Cells -> Names \cup {Blank, Internal}]
      BY <1>1, WholeNames DEF PowerUp
    <3>2. gpib_addr' \in Address /\ shortened' \in BOOLEAN
      BY <1>1, OneIsAddress DEF PowerUp
    <3>3. s_terminator' \in Terms /\ s_terminator_enabled' \in BOOLEAN
      BY <1>1 DEF PowerUp, Terms, EepTerms
    <3> QED BY <3>1, <3>2, <3>3 DEF ShownTypes, Address
  <2>3. EepromTypes' BY <1>1 DEF PowerUp, EepromTypes
  <2> QED BY <2>1, <2>2, <2>3
<1>2. CASE Connected
  <2>1. MainTypes' BY <1>2, EepromKept DEF Connected, MainTypes
  <2> QED BY <1>2, <2>1 DEF Connected, ShownTypes, EepromTypes, HistoryTypes
<1>3. CASE findGpibdevice
  <2>1. /\ gpib_addr' = AddressFound(IF gpib_is_connected THEN gpib_search(instr)
                                     ELSE NoAddress)
        /\ serial' \in {serial, Whole(Internal)}
        /\ pc' \in {"identify", "attach", "search", "off"}
        /\ UNCHANGED <<autoid, prevaddr, next, shortened, termVars, eeprom, instr,
                       history, bounds>>
    BY <1>3 DEF findGpibdevice
  <2>2. gpib_addr' \in Address
    <3>1. CASE gpib_is_connected
      BY <2>1, <3>1, FoundAddress DEF MainTypes, gpib_is_connected
    <3>2. CASE ~gpib_is_connected
      BY <2>1, <3>2 DEF AddressFound, Address, Primary
    <3> QED BY <3>1, <3>2
  <2>3. ShownTypes' BY <2>1, <2>2, WholeNames DEF ShownTypes, Address
  <2> QED BY <2>1, <2>3 DEF MainTypes, EepromTypes, HistoryTypes
<1>4. CASE Identify
  <2>1. /\ prevaddr' = eeprom.addr /\ next' = 0 /\ pc' \in {"save", "attach"}
        /\ \/ gpib_is_connected /\ serial' = Whole(instr.name)
           \/ serial' \in {eeprom.string, Whole(Internal)}
        /\ UNCHANGED <<autoid, gpib_addr, shortened, termVars, eeprom, instr, history,
                       bounds>>
    BY <1>4 DEF Identify
  <2>2. serial' \in [1..Cells -> Names \cup {Blank, Internal}]
    <3>1. CASE gpib_is_connected /\ serial' = Whole(instr.name)
      BY <3>1, WholeNames DEF MainTypes, gpib_is_connected, Names
    <3>2. CASE serial' = eeprom.string
      BY <3>2, EepromKept
    <3>3. CASE serial' = Whole(Internal)
      BY <3>3, WholeNames
    <3> QED BY <2>1, <3>1, <3>2, <3>3
  <2>3. ShownTypes' BY <2>1, <2>2 DEF ShownTypes
  <2>4. MainTypes' BY <2>1, EepromKept, CellsAssumption DEF MainTypes
  <2> QED BY <2>1, <2>3, <2>4 DEF EepromTypes, HistoryTypes
<1>5. CASE Save /\ SaveAddress
  <2>1. EepromTypes' BY <1>5, EepromKept DEF Save, SaveAddress, ShownTypes
  <2> QED BY <1>5, <2>1 DEF Save, SaveAddress, MainTypes, ShownTypes, HistoryTypes
<1>6. CASE Save /\ SaveCell
  <2>1. PICK name \in Names : serial = Whole(name)
    BY <1>6 DEF SaveCell, NamesInv, SavingPrefix
  <2>2. next \in 0..Cells /\ Cells \in Nat \ {0} BY CellsAssumption DEF MainTypes
  <2>3. \A c \in 1..Cells : serial[c] = name BY <2>1 DEF Whole
  <2>4. CASE StringStored
    <3>1. last' \in [addr : 0..255, name : Names \cup {Blank}] /\ partial' \in BOOLEAN
      <4>1. last' = [addr |-> gpib_addr, name |-> serial[1]] /\ partial' = FALSE
        BY <1>6, <2>4 DEF SaveCell
      <4>2. serial[1] = name /\ gpib_addr \in 0..255 BY <2>2, <2>3 DEF ShownTypes
      <4> QED BY <4>1, <4>2
    <3>2. HistoryTypes' BY <1>6, <3>1 DEF Save, HistoryTypes
    <3> QED BY <1>6, <2>4, <3>2 DEF Save, SaveCell, MainTypes, ShownTypes, EepromTypes
  <2>5. CASE ~StringStored
    <3>1. next + 1 \in 1..Cells /\ next + 1 \in 0..Cells
      BY <2>2, <2>5 DEF StringStored
    <3>2. EepromTypes' BY <1>6, <2>3, <2>5, <3>1, EepromKept DEF SaveCell
    <3> QED BY <1>6, <2>5, <3>1, <3>2
        DEF Save, SaveCell, MainTypes, ShownTypes, HistoryTypes
  <2> QED BY <2>4, <2>5
<1>7. CASE Attach \/ Disconnected \/ BootloaderButton
  <2>1. MainTypes'
    BY <1>7 DEF Attach, Disconnected, BootloaderButton, MainTypes
  <2>2. shortened' \in BOOLEAN
    BY <1>7, EepromKept DEF Attach, Disconnected, BootloaderButton, ShownTypes
  <2>3. ShownTypes'
    BY <1>7, <2>2 DEF Attach, Disconnected, BootloaderButton, ShownTypes
  <2>4. eeprom' = eeprom BY <1>7 DEF Attach, Disconnected, BootloaderButton
  <2>5. EepromTypes' BY <2>4 DEF EepromTypes
  <2>6. HistoryTypes'
    BY <1>7 DEF Attach, Disconnected, BootloaderButton, HistoryTypes
  <2> QED BY <2>1, <2>3, <2>5, <2>6
<1>8. CASE Command
  <2>1. /\ UNCHANGED <<autoid, prevaddr, next, serial, shortened, instr, last, partial,
                       exchanges, failures>>
        /\ pc' \in {"run", "off"}
        /\ commands < MaxCommands /\ commands' = commands + 1
        /\ wanted' \in EepTerms \cup {"none"} /\ s_terminator' \in Terms
        /\ s_terminator_enabled' = s_terminator_enabled
    BY <1>8 DEF Command, Executes, cmd_autoid, cmd_term, cmd_01, cmd_string, cmd_addr,
                cmd_term_store, cmd_reset, ShownTypes, HistoryTypes, Terms
  <2>2. gpib_addr' = gpib_addr \/ \E numbers : gpib_addr' = parser_finalize(numbers, gpib_addr)
    BY <1>8 DEF Command, cmd_autoid, cmd_term, cmd_01, cmd_string, cmd_addr,
                cmd_term_store, cmd_reset
  <2>3. gpib_addr' \in Address
    <3>1. gpib_addr \in Address BY DEF ShownTypes, Address
    <3> QED BY <2>2, <3>1, SetAddress
  <2>4. EepromTypes'
    <3>1. \/ eeprom' = eeprom
          \/ \E mode \in Modes : eeprom' = [eeprom EXCEPT !.autoid = mode]
          \/ \E term \in Terms : eeprom' = [eeprom EXCEPT !.term = term]
          \/ \E short \in BOOLEAN : eeprom' = [eeprom EXCEPT !.short = short]
      BY <1>8 DEF Command, cmd_autoid, cmd_term, cmd_01, cmd_string, cmd_addr,
                  cmd_term_store, cmd_reset, Terms, ShownTypes
    <3> QED BY <3>1, EepromKept DEF EepromTypes
  <2>5. ShownTypes' BY <2>1, <2>3 DEF ShownTypes, Address
  <2> QED BY <2>1, <2>4, <2>5, BoundsAssumption DEF MainTypes, HistoryTypes
<1>9. CASE ReadRequest
  <2>1. ShownTypes' BY <1>9 DEF ReadRequest, ShownTypes, Terms
  <2>2. HistoryTypes' BY <1>9, BoundsAssumption DEF ReadRequest, Executes, HistoryTypes
  <2> QED BY <1>9, <2>1, <2>2 DEF ReadRequest, Executes, MainTypes, EepromTypes
<1>10. CASE Exchange
  BY <1>10, BoundsAssumption DEF Exchange, MainTypes, ShownTypes, EepromTypes, HistoryTypes
<1>11. CASE PowerFails
  BY <1>11, BoundsAssumption DEF PowerFails, MainTypes, ShownTypes, EepromTypes,
     HistoryTypes
<1>12. CASE UNCHANGED vars
  BY <1>12 DEF vars, MainTypes, ShownTypes, EepromTypes, HistoryTypes
<1> QED
  BY <1>1, <1>2, <1>3, <1>4, <1>5, <1>6, <1>7, <1>8, <1>9, <1>10, <1>11, <1>12
  DEF Next, Main, Save

(* Every variable keeps its type; gpib_addr never holds primary address 31.*)
THEOREM TypeCorrect == Spec => []TypeOK
<1>1. Init => TypeOK BY TypesInit
<1>2. TypeOK /\ NamesInv /\ [Next]_vars => TypeOK' BY TypesNext
<1>3. Spec => []NamesInv BY NamesKept
<1> QED BY <1>1, <1>2, <1>3, PTL DEF Spec

(* A search finds every instrument the documentation promises to find.     *)
THEOREM Finds == Spec => []SearchFinds
<1>1. TypeOK => SearchFinds BY Searched
<1>2. Spec => []TypeOK BY TypeCorrect
<1> QED BY <1>1, <1>2, PTL
=============================================================================
