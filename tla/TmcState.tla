------------------------------ MODULE TmcState ------------------------------
(***************************************************************************)
(* The state of the USB-TMC firmware (TestAndMeasurement.c) together with  *)
(* the parts of the host and of the instrument it can observe.             *)
(*                                                                         *)
(* The firmware is one thread: main() calls TMC_Task and USB_USBTask in    *)
(* turn.  Concurrency comes from the timeout callbacks of the GPIB         *)
(* handshakes (tmc_gpib_write_timedout, tmc_gpib_read_timedout), which     *)
(* call USB_USBTask: a control request is then handled INSIDE a GPIB       *)
(* transfer.  pc is the location of the thread; pc = "bus" while it waits  *)
(* in such a handshake.                                                    *)
(***************************************************************************)
EXTENDS Integers, Sequences, FiniteSets, GpibBus

CONSTANTS
  FirstChunk,    \* payload bytes in the packet that carries a header (52)
  Chunk,         \* payload bytes in a continuation packet (64)
  BufferSize,    \* sizeof(readbuffer) (1012)
  Sizes,         \* TransferSize values the host uses
  Kinds,         \* message kinds the host uses
  Requests,      \* control requests the host uses
  Habits,        \* deviations from the polite host, see UsbTmc
  MaxMessages,   \* bound: bulk messages sent by the host
  MaxRequests,   \* bound: control requests sent by the host (checks excepted)
  MaxEvents,     \* bound: service requests raised by the instrument
  MaxReply,      \* bound: bytes of an instrument response
  MaxResponse    \* bound: bytes of an internal command response (7)

Initiates == {"InitiateAbortBulkOut", "InitiateAbortBulkIn", "InitiateClear"}
Checks    == {"CheckAbortBulkOutStatus", "CheckAbortBulkInStatus",
              "CheckClearStatus"}
RenRequests  == {"RenOn", "RenOff"}
AllRequests  == Initiates \cup Checks \cup RenRequests \cup
                {"ReadStatusByte", "IndicatorPulse", "LocalLockout", "GoToLocal"}
MessageKinds == {"OUT", "IN", "TRIGGER"}

ASSUME ChunkAssumption == /\ FirstChunk \in Nat \ {0}
                          /\ Chunk \in Nat \ {0}
                          /\ BufferSize \in Nat \ {0}
ASSUME HostAssumption == /\ Sizes \subseteq Nat
                         /\ Kinds \subseteq MessageKinds
                         /\ Requests \subseteq AllRequests \ Checks
                         /\ MaxMessages \in Nat
                         /\ MaxRequests \in Nat
ASSUME InstrumentAssumption == /\ MaxEvents \in Nat
                               /\ MaxReply \in Nat
                               /\ MaxResponse \in Nat

VARIABLES
  \* --- split requests and abort flags
  RequestInProgress, IsTMCBulkINReset, IsTMCBulkOUTReset,
  \* --- actions a control request asks TMC_Task for
  handleSDC, handleLocalLockout, handleGoToLocal, handleRenControl,
  \* --- status byte
  handleReadStatusByte, handleRSTB, srq_statusbyte,
  \* --- bulk transfer state
  s_remaining_bytes_receive, TMC_eom, TMC_LastMessageComplete,
  TMC_InLastMessageComplete, gpib_write_is_busy, CurrentTransferTag,
  \* --- internal commands and read termination
  s_nextwrite_mightbeparameterset, internal_response, s_terminator_enabled,
  \* --- the thread: location, GPIB function in progress, locals
  pc, fn, k, ret, byte, timedout, Length, lastmessage,
  \* --- the instrument (external)
  addr, REN, stb, raised, reply, msgsize, rx, rxEoi,
  \* --- the host (external)
  outq, hleft, hin, hmore, htag, ctl, nreq, told, reqTag

abortVars    == <<RequestInProgress, IsTMCBulkINReset, IsTMCBulkOUTReset>>
handleVars   == <<handleSDC, handleLocalLockout, handleGoToLocal, handleRenControl>>
statusVars   == <<handleReadStatusByte, handleRSTB, srq_statusbyte>>
messageVars  == <<s_remaining_bytes_receive, TMC_eom, TMC_LastMessageComplete,
                  TMC_InLastMessageComplete, gpib_write_is_busy, CurrentTransferTag>>
internalVars == <<s_nextwrite_mightbeparameterset, internal_response,
                  s_terminator_enabled>>
callVars     == <<fn, k, ret, byte>>
localVars    == <<timedout, Length, lastmessage>>
busVars      == <<addr, REN>>
eventVars    == <<stb, raised, told>>
deliveryVars == <<msgsize, rx, rxEoi>>
hostVars     == <<hleft, hin, hmore, htag, nreq>>

vars == <<abortVars, handleVars, statusVars, messageVars, internalVars, pc,
          callVars, localVars, busVars, eventVars, reply, deliveryVars,
          hostVars, outq, ctl, reqTag>>

(* The locations of TMC_Task ("srq" ... "reset"), of ProcessSentMessage    *)
(* ("psm_..." and the three places "poll_..." where it answers a deferred  *)
(* status request) and of GetNextMessage ("gnm_...").                      *)
TaskLabels == {"usb", "srq", "sdc", "llo", "gtl", "hdr", "more", "in_reply",
               "rstb", "reset"}
PsmLabels  == {"psm_top", "psm_loop", "psm_dat", "psm_done", "psm_end", "psm_ret",
               "poll_top", "poll_loop", "poll_end"}
GnmLabels  == {"gnm_loop", "gnm_end"}
Labels     == TaskLabels \cup PsmLabels \cup GnmLabels \cup {"bus"}
BusFns     == AddressingFns \cup {"writedat", "readdat"}

(* A bulk OUT packet.  "DATA" continues an earlier OUT message; eom is the *)
(* end-of-message bit of an OUT header and the TermCharEnabled bit of an   *)
(* IN header (the same header byte); bang: the payload starts with '!'.    *)
Packets == [kind : MessageKinds \cup {"DATA"}, tag : Nat, size : Nat,
            eom : BOOLEAN, bang : BOOLEAN]

FlagTypes ==
  /\ RequestInProgress \in Initiates \cup {"none"}
  /\ IsTMCBulkINReset \in BOOLEAN /\ IsTMCBulkOUTReset \in BOOLEAN
  /\ handleSDC \in BOOLEAN /\ handleLocalLockout \in BOOLEAN
  /\ handleGoToLocal \in BOOLEAN
  /\ handleRenControl \in RenRequests \cup {"none"}
  /\ handleReadStatusByte \in BOOLEAN /\ handleRSTB \in BOOLEAN

StatusTypes ==
  /\ srq_statusbyte \subseteq 1..MaxEvents /\ stb \subseteq 1..MaxEvents
  /\ told \subseteq 1..MaxEvents /\ raised \in 0..MaxEvents

MessageTypes ==
  /\ s_remaining_bytes_receive \in Nat /\ TMC_eom \in BOOLEAN
  /\ TMC_LastMessageComplete \in BOOLEAN /\ TMC_InLastMessageComplete \in BOOLEAN
  /\ gpib_write_is_busy \in BOOLEAN /\ CurrentTransferTag \in Nat
  /\ s_nextwrite_mightbeparameterset \in BOOLEAN
  /\ internal_response \in Nat /\ s_terminator_enabled \in BOOLEAN

CallTypes ==
  /\ pc \in Labels /\ fn \in BusFns \cup {"none"} /\ k \in 0..4
  /\ ret \in Labels \cup {"none"} /\ byte \in {"good", "nul", "jam"}

LocalTypes == timedout \in BOOLEAN /\ Length \in Nat /\ lastmessage \in BOOLEAN

BusTypes ==
  /\ addr \in Addressing /\ REN \in BOOLEAN /\ reply \in Nat
  /\ msgsize \in Nat /\ rx \in Nat /\ rxEoi \in BOOLEAN

HostTypes ==
  /\ outq \in Seq(Packets) /\ hleft \in Nat /\ hin \in BOOLEAN
  /\ hmore \in BOOLEAN /\ htag \in Nat /\ nreq \in Nat /\ reqTag \in Nat
  /\ ctl \in AllRequests \cup {"none", "deferred"}

TypeOK == FlagTypes /\ StatusTypes /\ MessageTypes /\ CallTypes /\ LocalTypes
          /\ BusTypes /\ HostTypes

(* The static initializers, at the first TMC_Task after USB_Attach.  The   *)
(* read termination comes from the EEPROM, so it is either value.          *)
Init ==
  /\ RequestInProgress = "none"
  /\ IsTMCBulkINReset = FALSE /\ IsTMCBulkOUTReset = FALSE
  /\ handleSDC = FALSE /\ handleLocalLockout = FALSE /\ handleGoToLocal = FALSE
  /\ handleRenControl = "none"
  /\ handleReadStatusByte = FALSE /\ handleRSTB = FALSE /\ srq_statusbyte = {}
  /\ s_remaining_bytes_receive = 0 /\ TMC_eom = FALSE
  /\ TMC_LastMessageComplete = TRUE /\ TMC_InLastMessageComplete = TRUE
  /\ gpib_write_is_busy = FALSE /\ CurrentTransferTag = 0
  /\ s_nextwrite_mightbeparameterset = FALSE /\ internal_response = 0
  /\ s_terminator_enabled \in BOOLEAN
  /\ pc = "usb" /\ fn = "none" /\ k = 0 /\ ret = "none" /\ byte = "good"
  /\ timedout = FALSE /\ Length = 0 /\ lastmessage = FALSE
  /\ addr = "idle" /\ REN = TRUE /\ stb = {} /\ raised = 0 /\ told = {}
  /\ reply = 0 /\ msgsize = 0 /\ rx = 0 /\ rxEoi = FALSE
  /\ outq = <<>> /\ hleft = 0 /\ hin = FALSE /\ hmore = FALSE /\ htag = 0
  /\ ctl = "none" /\ nreq = 0 /\ reqTag = 0

(* The share of a message that fits.  (Mutant: the comparison turned.)     *)
GreaterOf(a, b) == IF a > b THEN a ELSE b
LesserOf(a, b) == IF a < b THEN a ELSE b
Aborting == IsTMCBulkOUTReset \/ IsTMCBulkINReset
=============================================================================
