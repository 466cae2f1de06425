---------------------------- MODULE GpibTransfer ----------------------------
(***************************************************************************)
(* What the functions of gpib.c promise their caller, without the wires: a *)
(* transaction is a sequence of steps that happen one by one, in order and *)
(* each exactly once, until all are done ("ok") or one is given up         *)
(* ("timedout").  GpibHandshake implements it.                             *)
(*                                                                         *)
(* A step is a command byte, a data byte, a loop that reads at most max    *)
(* bytes, or a look at NDAC.  checked: its result is looked at; quick: its *)
(* timeout function is called in every round (quickTimeoutPoll).           *)
(***************************************************************************)
EXTENDS GpibBus, Naturals

CONSTANTS
  Transactions,    \* what the adapter does on the bus: sequences of steps
  Output,          \* what the instrument says: a sequence of [byte, eoi]
  Terminators      \* the bytes that end a read: {} or {s_terminator}

VARIABLES
  trans, pos,      \* the transaction, the step it is at
  n,               \* bytes read by the current reading loop
  role,            \* the instrument: off, or how it is addressed
  heard,           \* data bytes the instrument took
  input,           \* bytes the adapter read
  found,           \* what the last probe saw
  result           \* "none", "busy", "ok", "timedout"

vars == <<trans, pos, n, role, heard, input, found, result>>

(* An instrument with a secondary address is addressed by two bytes: its   *)
(* primary address (PLAG, PTAG), then SAG.                                 *)
HearByte(cmd, a) ==
  CASE cmd = "PLAG"                -> "lpas"
    [] cmd = "PTAG"                -> "tpas"
    [] cmd = "SAG" /\ a = "lpas"   -> "listen"
    [] cmd = "SAG" /\ a = "tpas"   -> "talk"
    [] OTHER -> Hear(cmd, IF a \in {"lpas", "tpas"} THEN "idle" ELSE a)

(* The byte that ends a reading loop (pEoi).                               *)
Ends(item) == item.eoi \/ item.byte \in Terminators

Init ==
  /\ trans = <<>> /\ pos = 1 /\ n = 0 /\ role = "idle"
  /\ heard = <<>> /\ input = <<>> /\ found = FALSE /\ result = "none"

Step(op) == /\ result = "busy" /\ pos <= Len(trans) /\ trans[pos].op = op

(* A new transaction; an instrument that is not talking begins a new reply *)
(* when it is asked again.                                                 *)
Start ==
  /\ result # "busy"
  /\ trans' \in Transactions
  /\ pos' = 1 /\ n' = 0 /\ heard' = <<>> /\ result' = "busy"
  /\ input' = IF role = "talk" THEN input ELSE <<>>
  /\ role' = IF role = "off" THEN "idle" ELSE role
  /\ UNCHANGED found

Command ==
  /\ Step("cmd") /\ role # "off"
  /\ role' = HearByte(trans[pos].byte, role)
  /\ pos' = pos + 1
  /\ UNCHANGED <<trans, n, heard, input, found, result>>

(* A data byte reaches the instrument exactly if it listens.               *)
Send ==
  /\ Step("data") /\ role # "off"
  /\ heard' = IF role = "listen"
                THEN Append(heard, [byte |-> trans[pos].byte, eoi |-> trans[pos].eoi])
                ELSE heard
  /\ pos' = pos + 1
  /\ UNCHANGED <<trans, n, role, input, found, result>>

(* The next byte of the instrument is read; the loop ends with the byte    *)
(* that says so, or when the buffer is full.                               *)
Receive ==
  /\ Step("read") /\ role = "talk"
  /\ Len(input) < Len(Output)
  /\ LET next == Output[Len(input) + 1]
         last == Ends(next) \/ n + 1 = trans[pos].max
     IN /\ input' = Append(input, next)
        /\ pos' = IF last THEN pos + 1 ELSE pos
        /\ n' = IF last THEN 0 ELSE n + 1
  /\ UNCHANGED <<trans, role, heard, found, result>>

(* A probe sees whether the instrument was addressed as a listener, and    *)
(* nobody after addressing was given up.                                   *)
Probe ==
  /\ \/ Step("probe") /\ found' = (role = "listen") /\ pos' = pos + 1
     \/ result = "timedout" /\ found' = FALSE /\ UNCHANGED pos
  /\ UNCHANGED <<trans, n, role, heard, input, result>>

(* gpib_make_talker leaves NDAC low: nothing a caller sees.                *)
Prepare ==
  /\ Step("ndac")
  /\ pos' = pos + 1
  /\ UNCHANGED <<trans, n, role, heard, input, found, result>>

Finish ==
  /\ result = "busy" /\ pos > Len(trans)
  /\ result' = "ok"
  /\ UNCHANGED <<trans, pos, n, role, heard, input, found>>

(* Giving up is reported, and no step follows it.                          *)
Fail ==
  /\ result = "busy"
  /\ result' = "timedout" /\ pos' = 0 /\ n' = 0
  /\ UNCHANGED <<trans, role, heard, input, found>>

(* The interface clear that follows.                                       *)
Clear ==
  /\ result = "timedout" /\ role # "off"
  /\ role' = "idle"
  /\ UNCHANGED <<trans, pos, n, heard, input, found, result>>

SwitchOff ==
  /\ role' = "off"
  /\ UNCHANGED <<trans, pos, n, heard, input, found, result>>

Next == Start \/ Command \/ Send \/ Receive \/ Probe \/ Prepare \/ Finish \/ Fail
        \/ Clear \/ SwitchOff

Spec == Init /\ [][Next]_vars
=============================================================================
