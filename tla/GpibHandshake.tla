---------------------------- MODULE GpibHandshake ----------------------------
(***************************************************************************)
(* The three wire handshake of gpib_priv.h and gpib.c, line by line, with  *)
(* the instrument on the other side (external: the acceptor and the source *)
(* function of IEEE 488.1).                                                *)
(*                                                                         *)
(* drives is the set of lines the adapter pulls low (its DDR bits); a line *)
(* is low if the adapter or the instrument pulls it, and an instrument     *)
(* without power pulls all of them (the adapter has no pull-ups).  expired *)
(* is what the timeout function will say: a clock that has run down stays  *)
(* at zero, an abort flag stays set until the transaction is over.         *)
(***************************************************************************)
EXTENDS GpibBus, Naturals

CONSTANTS
  Transactions,    \* see GpibTransfer
  Output,
  Terminators,
  ByteNames,       \* the names of command and data bytes
  MaxStarts        \* bound: transactions in a behaviour

VARIABLES
  pc,                        \* where the adapter is
  trans, i, n,               \* the transaction, its step, bytes read by a loop
  timedout,                  \* result of the last step
  drives, data,              \* lines and data byte the adapter drives
  c,                         \* the byte it has taken from the data lines
  expired, tick,             \* the timeout function; timer0_ticked
  acc, src,                  \* the instrument: acceptor and source function
  role,                      \* off, or how it is addressed
  k,                         \* which byte of Output it says next
  taken,                     \* history: the instrument took the current byte
  heard, input, found,       \* as in GpibTransfer
  failed, result,            \* history: a step was given up; what was reported
  starts

adapter == <<pc, trans, i, n, timedout, drives, data, c, input, found, failed, result>>
instrument == <<acc, src, role, k, taken, heard>>
vars == <<adapter, instrument, expired, tick, starts>>

Items == [byte : ByteNames, eoi : BOOLEAN]
None  == [byte |-> "none", eoi |-> FALSE]
Steps == [op : {"cmd", "data", "read", "probe", "ndac"}, byte : ByteNames,
          eoi : BOOLEAN, max : Nat, checked : BOOLEAN, quick : BOOLEAN]

(* What every transaction of the code keeps to: gpib_tx polls the timeout  *)
(* function in every round; only the result of an address byte is ignored, *)
(* before a secondary address or a probe; a probe follows an address; and  *)
(* an instrument told to talk is neither written to nor probed.            *)
ASSUME TransactionsAssumption ==
  \A t \in Transactions :
    /\ t \in Seq(Steps)
    /\ \A j \in 1..Len(t) :
         /\ t[j].op = "cmd" => t[j].quick
         /\ t[j].byte = "UNT" => t[j].op = "cmd"
         /\ t[j].op = "read" => t[j].max > 0
         /\ t[j].op = "probe" => j > 1 /\ t[j - 1].op = "cmd"
         /\ ~t[j].checked => /\ t[j].op = "cmd" /\ j < Len(t)
                             /\ \/ t[j + 1].op = "probe"
                                \/ t[j + 1].op = "cmd" /\ t[j + 1].byte = "SAG"
         /\ t[j].op \in {"data", "probe"} =>
              \A m \in 1..(j - 1) : t[m].byte \notin {"TAG", "PTAG"}
ASSUME OutputAssumption ==
  /\ {"none", "255"} \subseteq ByteNames
  /\ Output \in Seq(Items)
  /\ MaxStarts \in Nat

AdapterPcs == {"idle", "begin", "settle", "ready", "accept", "open", "valid",
               "sampled", "unvalid", "probe", "release", "clear"}
Roles == Addressing \cup {"lpas", "tpas", "off"}
Lines == {"ATN", "DAV", "NRFD", "NDAC", "EOI", "REN", "IFC"}

Transfer == INSTANCE GpibTransfer WITH
  pos    <- IF failed THEN 0 ELSE IF taken THEN i + 1 ELSE i,
  n      <- IF failed THEN 0 ELSE n,
  result <- IF failed /\ result = "busy" THEN "timedout" ELSE result

HearByte(cmd, a) == Transfer!HearByte(cmd, a)

-----------------------------------------------------------------------------
(* The bus.                                                                *)
InstrumentLow ==
  (IF acc \in {"ANRS", "ACDS", "AWNS"} THEN {"NRFD"} ELSE {}) \cup
  (IF acc \in {"ANRS", "ACRS", "ACDS"} THEN {"NDAC"} ELSE {}) \cup
  (IF src = "STRS" THEN {"DAV"} ELSE {})

Low(line) == role = "off" \/ line \in drives \/ line \in InstrumentLow

Accepting == role # "off" /\ ("ATN" \in drives \/ role = "listen")
Talking   == role = "talk" /\ "ATN" \notin drives

(* The instrument has followed ATN and IFC; the delays after a change of   *)
(* ATN (70 us), of IFC (120 us) and before a probe (2 ms) are for this.    *)
(* (Mutant: no delay.)                                                     *)
NoDelay == TRUE
Settled == /\ (acc # "AIDS") = Accepting
           /\ src # "SIDS" => Talking

-----------------------------------------------------------------------------
(* The adapter.                                                            *)
More == pc = "begin" /\ i <= Len(trans) /\ ~(timedout /\ trans[i - 1].checked)
Op(op) == More /\ trans[i].op = op
Quick == trans[i].quick

(* Callers write to or probe an instrument that was told to talk only      *)
(* after an UNT: a search runs before any transfer, a write begins with    *)
(* gpib_make_listener.                                                     *)
CanStart(t) ==
  role \in {"talk", "tpas"} =>
    \A j \in 1..Len(t) : t[j].op \in {"data", "probe"} =>
      \E m \in 1..(j - 1) : t[m].byte = "UNT"

Start ==
  /\ pc = "idle" /\ starts < MaxStarts
  /\ trans' \in {t \in Transactions : CanStart(t)}
  /\ pc' = "begin" /\ i' = 1 /\ n' = 0 /\ timedout' = FALSE /\ failed' = FALSE
  /\ result' = "busy" /\ expired' = FALSE /\ heard' = <<>> /\ starts' = starts + 1
  /\ IF role = "talk" THEN UNCHANGED <<input, k>> ELSE input' = <<>> /\ k' = 1
  /\ IF role = "off"
       THEN role' = "idle" /\ acc' = IF "ATN" \in drives THEN "ANRS" ELSE acc
       ELSE UNCHANGED <<role, acc>>
  /\ UNCHANGED <<drives, data, c, tick, src, taken, found>>

(* One round of a wait loop: the timeout function is called in every round *)
(* or, in the quick loops, only when the timer has ticked.                 *)
(* (Mutant: the quick loops never call it.)                                *)
PolledIfQuick == Quick
Polled        == tick \/ Quick
GivesUp       == Polled /\ expired
PollUsesTick  == tick' = FALSE

(* gpib_tx_quick and gpib_writedat_quick: EOI and ATN, then the delay.     *)
Target(op) == IF op = "cmd" THEN {"ATN"} ELSE {}
SetAtn ==
  /\ Op("cmd") \/ Op("data")
  /\ drives' = (drives \ {"ATN"}) \cup Target(trans[i].op)
                 \cup (IF trans[i].eoi THEN {"EOI"} ELSE {})
  /\ pc' = "settle"
  /\ UNCHANGED <<trans, i, n, timedout, data, c, input, found, failed, result, tick>>

(* (Mutant: the adapter goes on holding NRFD after a read.)                *)
DriveHoldingNrfd ==
  /\ pc = "settle" /\ Settled
  /\ drives' = drives \ {"DAV", "NDAC"}
  /\ data' = [byte |-> trans[i].byte, eoi |-> trans[i].eoi]
  /\ pc' = "ready"
  /\ UNCHANGED <<trans, i, n, timedout, c, input, found, failed, result, tick>>
Drive ==
  /\ pc = "settle" /\ Settled
  /\ drives' = drives \ {"DAV", "NRFD", "NDAC"}
  /\ data' = [byte |-> trans[i].byte, eoi |-> trans[i].eoi]
  /\ pc' = "ready"
  /\ UNCHANGED <<trans, i, n, timedout, c, input, found, failed, result, tick>>

GiveUp ==
  /\ timedout' = TRUE /\ failed' = TRUE
  /\ drives' = drives \ {"DAV"} /\ data' = None
  /\ pc' = "release"
  /\ UNCHANGED <<i, n, c, input, result>>

PollReady ==
  /\ pc = "ready"
  /\ \/ GivesUp /\ GiveUp
     \/ /\ ~GivesUp
        /\ IF Low("NRFD") THEN UNCHANGED <<pc, drives>>
                          ELSE pc' = "accept" /\ drives' = drives \cup {"DAV"}
        /\ timedout' = FALSE
        /\ UNCHANGED <<i, n, data, c, input, failed, result>>
  /\ PollUsesTick
  /\ UNCHANGED <<trans, found>>

(* NDAC is high: the next step; EOI is released.                           *)
PollAccept ==
  /\ pc = "accept"
  /\ \/ GivesUp /\ GiveUp
     \/ /\ ~GivesUp /\ Low("NDAC")
        /\ UNCHANGED <<pc, i, n, timedout, drives, data, c, input, failed, result>>
     \/ /\ ~GivesUp /\ ~Low("NDAC")
        /\ drives' = drives \ {"DAV", "EOI"} /\ data' = None
        /\ pc' = "begin" /\ i' = i + 1 /\ timedout' = FALSE
        /\ UNCHANGED <<n, c, input, failed, result>>
  /\ PollUsesTick
  /\ UNCHANGED <<trans, found>>

(* gpib_readdat_quick.  NDAC is low before NRFD goes high: a talker that   *)
(* sees both high takes its byte for accepted.  (Mutant: NDAC left high.)  *)
OpenReadNdacHigh ==
  /\ Op("read")
  /\ drives' = drives \ {"ATN"}
  /\ pc' = "open"
  /\ UNCHANGED <<trans, i, n, timedout, data, c, input, found, failed, result, tick>>
OpenRead ==
  /\ Op("read")
  /\ drives' = (drives \ {"ATN"}) \cup {"NDAC"}
  /\ pc' = "open"
  /\ UNCHANGED <<trans, i, n, timedout, data, c, input, found, failed, result, tick>>

ReadyForData ==
  /\ pc = "open"
  /\ drives' = drives \ {"NRFD"}
  /\ pc' = "valid"
  /\ UNCHANGED <<trans, i, n, timedout, data, c, input, found, failed, result, tick>>

(* What the data lines and EOI hold: the instrument's byte, or all lines   *)
(* low without power.                                                      *)
OnTheLines == IF role = "off" THEN [byte |-> "255", eoi |-> TRUE] ELSE Output[k]

PollValid ==
  /\ pc = "valid" /\ Settled
  /\ \/ GivesUp /\ GiveUp
     \/ /\ ~GivesUp /\ ~Low("DAV")
        /\ UNCHANGED <<pc, i, n, timedout, drives, data, c, input, failed, result>>
     \/ /\ ~GivesUp /\ Low("DAV")
        /\ drives' = drives \cup {"NRFD"}
        /\ c' = OnTheLines
        /\ pc' = "sampled"
        /\ UNCHANGED <<i, n, timedout, data, input, failed, result>>
  /\ PollUsesTick
  /\ UNCHANGED <<trans, found>>

Accept ==
  /\ pc = "sampled"
  /\ drives' = drives \ {"NDAC"}
  /\ pc' = "unvalid"
  /\ UNCHANGED <<trans, i, n, timedout, data, c, input, found, failed, result, tick>>

(* DAV is high again: the byte is the caller's, who reads on until pEoi or *)
(* until the buffer is full.  (Mutant: one byte too many.)                 *)
FullLate == n = trans[i].max
Full     == n + 1 = trans[i].max
PollUnvalid ==
  /\ pc = "unvalid"
  /\ \/ GivesUp /\ GiveUp
     \/ /\ ~GivesUp /\ Low("DAV")
        /\ UNCHANGED <<pc, i, n, timedout, drives, data, c, input, failed, result>>
     \/ /\ ~GivesUp /\ ~Low("DAV")
        /\ input' = Append(input, c)
        /\ LET last == Transfer!Ends(c) \/ Full
           IN /\ i' = IF last THEN i + 1 ELSE i
              /\ n' = IF last THEN 0 ELSE n + 1
        /\ pc' = "begin" /\ timedout' = FALSE
        /\ UNCHANGED <<drives, data, c, failed, result>>
  /\ PollUsesTick
  /\ UNCHANGED <<trans, found>>

(* gpib_make_talker ends with NDAC low; gpib_search releases ATN and looks *)
(* at NDAC.                                                                *)
PullNdac ==
  /\ Op("ndac")
  /\ drives' = drives \cup {"NDAC"}
  /\ i' = i + 1 /\ pc' = "begin"
  /\ UNCHANGED <<trans, n, timedout, data, c, input, found, failed, result, tick>>

ReleaseAtn ==
  /\ Op("probe")
  /\ drives' = drives \ {"ATN"}
  /\ pc' = "probe"
  /\ UNCHANGED <<trans, i, n, timedout, data, c, input, found, failed, result, tick>>

LookAtNdac ==
  /\ pc = "probe" /\ Settled /\ acc # "AWNS"
  /\ found' = (Low("NDAC") /\ ~Low("ATN"))
  /\ i' = i + 1 /\ pc' = "begin"
  /\ UNCHANGED <<trans, n, timedout, drives, data, c, input, failed, result, tick>>

(* gpib_recover: all lines released, REN pulled, an IFC pulse; a read that *)
(* was given up then pulls NRFD.                                           *)
Recover ==
  /\ pc = "release"
  /\ drives' = {"REN", "IFC"}
  /\ pc' = "clear"
  /\ UNCHANGED <<trans, i, n, timedout, data, c, input, found, failed, result, tick>>

InterfaceCleared ==
  /\ pc = "clear" /\ role \in {"idle", "off"} /\ Settled
  /\ drives' = IF trans[i].op = "read" THEN {"REN", "NRFD"} ELSE {"REN"}
  /\ i' = i + 1 /\ n' = 0 /\ pc' = "begin"
  /\ UNCHANGED <<trans, timedout, data, c, input, found, failed, result, tick>>

(* The result of the last step is the caller's; the functions of gpib.c    *)
(* recover once more.                                                      *)
Finish ==
  /\ pc = "begin" /\ ~More
  /\ result' = IF timedout THEN "timedout" ELSE "ok"
  /\ drives' = IF timedout /\ trans[i - 1].quick THEN {"REN"} ELSE drives
  /\ pc' = "idle"
  /\ UNCHANGED <<trans, i, n, timedout, data, c, input, found, failed, tick>>

Adapter ==
  /\ \/ SetAtn \/ Drive \/ PollReady \/ PollAccept
     \/ OpenRead \/ ReadyForData \/ PollValid \/ Accept \/ PollUnvalid
     \/ PullNdac \/ ReleaseAtn \/ LookAtNdac
     \/ Recover \/ InterfaceCleared \/ Finish
  /\ taken' = (taken /\ pc' = pc)
  /\ UNCHANGED <<acc, src, role, k, heard, expired, starts>>

-----------------------------------------------------------------------------
(* The instrument.                                                         *)
AcceptorIdle ==
  /\ acc # "AIDS" /\ ~Accepting
  /\ acc' = "AIDS"
AcceptorBusy ==
  /\ acc = "AIDS" /\ Accepting
  /\ acc' = "ANRS"
AcceptorReady ==
  /\ acc = "ANRS" /\ Accepting
  /\ acc' = "ACRS"

(* DAV is low: the byte is taken, as data or as a command.                 *)
Take ==
  /\ acc = "ACRS" /\ Accepting /\ "DAV" \in drives
  /\ acc' = "ACDS" /\ taken' = TRUE
  /\ IF "ATN" \in drives
       THEN role' = HearByte(data.byte, role) /\ UNCHANGED heard
       ELSE /\ heard' = Append(heard, [byte |-> data.byte, eoi |-> "EOI" \in drives])
            /\ UNCHANGED role
  /\ UNCHANGED <<src, k>>

AcceptorDone ==
  /\ acc = "ACDS"
  /\ acc' = "AWNS"
AcceptorNext ==
  /\ acc = "AWNS" /\ "DAV" \notin drives
  /\ acc' = "ANRS"

SourceIdle ==
  /\ src # "SIDS" /\ ~Talking
  /\ src' = "SIDS" /\ UNCHANGED k
SourceReady ==
  /\ src \in {"SIDS", "SGNS"} /\ Talking /\ k <= Len(Output)
  /\ src' = "SDYS" /\ UNCHANGED k
SourceValid ==
  /\ src = "SDYS" /\ Talking /\ ~Low("NRFD")
  /\ src' = "STRS" /\ UNCHANGED k
SourceSent ==
  /\ src = "STRS" /\ Talking /\ ~Low("NDAC")
  /\ src' = "SGNS" /\ k' = k + 1

HearIfc ==
  /\ "IFC" \in drives /\ role \notin {"idle", "off"}
  /\ role' = "idle"

(* What the hardware of an instrument does at once, whatever its program   *)
(* is doing.                                                               *)
Reacts ==
  /\ \/ /\ AcceptorIdle \/ AcceptorBusy \/ AcceptorNext
        /\ UNCHANGED <<src, role, k>>
     \/ SourceIdle /\ UNCHANGED <<acc, role>>
     \/ HearIfc /\ UNCHANGED <<acc, src, k>>
  /\ UNCHANGED <<adapter, taken, heard, expired, tick, starts>>

(* What may take it any time.                                              *)
Proceeds ==
  /\ \/ /\ AcceptorReady \/ AcceptorDone
        /\ UNCHANGED <<src, role, k, taken, heard>>
     \/ Take
     \/ /\ SourceReady \/ SourceValid \/ SourceSent
        /\ UNCHANGED <<acc, role, taken, heard>>
  /\ UNCHANGED <<adapter, expired, tick, starts>>

SwitchOff ==
  /\ pc # "idle" /\ role # "off"
  /\ role' = "off" /\ acc' = "AIDS" /\ src' = "SIDS"
  /\ UNCHANGED <<adapter, k, taken, heard, expired, tick, starts>>

-----------------------------------------------------------------------------
(* The host aborts, or the clock has run down; the 16 ms timer.            *)
Expire ==
  /\ pc # "idle" /\ ~expired /\ expired' = TRUE
  /\ UNCHANGED <<adapter, instrument, tick, starts>>
TimerTick ==
  /\ ~tick /\ tick' = TRUE
  /\ UNCHANGED <<adapter, instrument, expired, starts>>

Init ==
  /\ pc = "idle" /\ trans = <<>> /\ i = 1 /\ n = 0 /\ timedout = FALSE
  /\ drives = {"REN"} /\ data = None /\ c = None
  /\ expired = FALSE /\ tick = FALSE
  /\ acc = "AIDS" /\ src = "SIDS" /\ role = "idle" /\ k = 1
  /\ taken = FALSE /\ heard = <<>> /\ input = <<>> /\ found = FALSE
  /\ failed = FALSE /\ result = "none" /\ starts = 0

Next == Start \/ Adapter \/ Reacts \/ Proceeds \/ SwitchOff \/ Expire \/ TimerTick

Spec == /\ Init /\ [][Next]_vars
        /\ WF_vars(Adapter) /\ WF_vars(Reacts) /\ WF_vars(TimerTick)
-----------------------------------------------------------------------------
AdapterTypes ==
  /\ pc \in AdapterPcs /\ trans \in Transactions \cup {<<>>}
  /\ i \in 1..(Len(trans) + 1)
  /\ n \in Nat /\ (n > 0 => i <= Len(trans) /\ n < trans[i].max)
  /\ timedout \in BOOLEAN /\ failed \in BOOLEAN /\ found \in BOOLEAN
  /\ result \in {"none", "busy", "ok", "timedout"}
  /\ drives \subseteq Lines
  /\ {data, c} \subseteq Items /\ input \in Seq(Items)
InstrumentTypes ==
  /\ acc \in {"AIDS", "ANRS", "ACRS", "ACDS", "AWNS"}
  /\ src \in {"SIDS", "SGNS", "SDYS", "STRS"}
  /\ role \in Roles
  /\ k \in 1..(Len(Output) + 1)
  /\ taken \in BOOLEAN /\ heard \in Seq(Items)
  /\ expired \in BOOLEAN /\ tick \in BOOLEAN /\ starts \in 0..MaxStarts
TypeOK == AdapterTypes /\ InstrumentTypes

(* Every transaction is carried out as its caller believes: each command   *)
(* and each byte for a listener is taken exactly once, in order and with   *)
(* its EOI, each byte of a talker is read exactly once, "not timed out"    *)
(* means that nothing is missing, and nothing follows a step that was      *)
(* given up, though the result of a primary address byte is thrown away    *)
(* (gpib_cmd_LAG, gpib_cmd_TAG).                                           *)
TransferSpec == Transfer!Spec

(* The adapter and the instrument never drive the data lines at the same   *)
(* time (gpib_tx_quick drives them after ATN and its delay).               *)
OneDriver == data # None => src \in {"SIDS", "SGNS"}

(* A transaction ends once its timeout function says so, whatever the      *)
(* instrument does, or does not do: both wait loops of a byte call it.     *)
EndsWhenExpired == expired ~> pc = "idle"

(* With an instrument that goes on, a transaction ends by itself, unless   *)
(* it waits for a byte from an instrument that has none.                   *)
Starved == \/ role = "off" \/ Len(Output) < k
           \/ pc \in {"valid", "unvalid"} /\ role # "talk"
EndsWithInstrument ==
  WF_vars(Proceeds) => (pc # "idle" ~> (pc = "idle" \/ expired \/ Starved))

(* "wait until ready for data acceptance (NRFD=H, NDAC=L)" (gpib_priv.h):  *)
(* DAV goes low only while an acceptor holds NDAC.                         *)
AcceptorPresent == "DAV" \in drives' \ drives => Low("NDAC")
NdacChecked == [][AcceptorPresent]_vars
=============================================================================
