----------------------------- MODULE TmcTransfer -----------------------------
(***************************************************************************)
(* The GPIB transfers that call USB_USBTask while they wait: the           *)
(* handshakes, ProcessSentMessage and GetNextMessage.                      *)
(*                                                                         *)
(* A GPIB function in progress is fn (with k, the command byte it is at);  *)
(* ret is where the thread goes on when it returns.                        *)
(***************************************************************************)
EXTENDS TmcControl

Goto(l) == pc' = l /\ UNCHANGED callVars

Call(f, l) == pc' = "bus" /\ fn' = f /\ k' = 1 /\ ret' = l /\ byte' = "good"

Return == pc' = ret /\ fn' = "none" /\ k' = 0 /\ ret' = "none" /\ byte' = "good"

ctlVars == <<abortVars, handleVars, statusVars, eventVars, ctl, reqTag>>

(* The result of a GPIB function; that of gpib_untalk_unlisten is ignored  *)
(* by both callers.                                                        *)
Result(r) == timedout' = IF fn = "untalk_unlisten" THEN timedout ELSE r

(* EOI goes out with the last byte of an end-of-message transfer.          *)
(* (Mutant: with the last byte of every packet.)                           *)
EndsPacket  == Length = 1 /\ TMC_eom
EndsMessage == Length = 1 /\ TMC_eom /\ lastmessage

(* The listener has accepted the data byte and the EOI line with it.       *)
InstrumentHears == rx' = rx + 1 /\ rxEoi' = EndsMessage

(* What a handshake that runs into the abort flags leaves behind:          *)
(* gpib_recover pulses IFC and asserts REN.  ProcessSentMessage has        *)
(* already counted the byte, GetNextMessage stores one more.  The          *)
(* instrument may or may not have completed its half of a data byte.       *)
TimedOut ==
  /\ addr' = Unaddressed
  /\ REN' = TRUE
  /\ Return
  /\ Result(TRUE)
  /\ Length' = IF fn \in {"writedat", "readdat"} THEN Length - 1 ELSE Length
  /\ \/ fn = "writedat" /\ addr = "listen" /\ InstrumentHears
     \/ UNCHANGED <<rx, rxEoi>>
  /\ reply' \in (IF fn = "readdat" /\ addr = "talk" /\ reply > 0
                   THEN {reply, reply - 1} ELSE {reply})
  /\ UNCHANGED <<msgsize, lastmessage>>

(* The handshake goes on waiting.                                          *)
KeepsWaiting ==
  UNCHANGED <<pc, fn, k, ret, localVars, reply, deliveryVars>>

(* tmc_gpib_write_timedout and tmc_gpib_read_timedout after USB_USBTask:   *)
(* either abort flag ends the handshake.  (Mutant: one of them.)           *)
OutAbortPending == IsTMCBulkOUTReset'
AbortPending    == IsTMCBulkOUTReset' \/ IsTMCBulkINReset'

(* One call of the timeout function inside a handshake: USB_USBTask        *)
(* handles at most one request, then the abort flags decide.               *)
PollTimeout ==
  /\ pc = "bus"
  /\ FlagRequest \/ (NoRequest /\ Aborting)
  /\ \/ AbortPending /\ TimedOut
     \/ ~AbortPending /\ KeepsWaiting /\ UNCHANGED <<byte, busVars>>
  /\ UNCHANGED <<messageVars, internal_response, s_terminator_enabled, hostVars, outq>>

(* A status byte read inside a handshake: the serial poll runs on the bus  *)
(* in the middle of the interrupted byte.  Its handshakes release DAV and  *)
(* the data lines, so the interrupted byte goes out as 0, or, when the     *)
(* instrument had not yet accepted it, is waited for in vain.              *)
PollTimeoutReadStatusByte ==
  /\ pc = "bus"
  /\ ReadStatusByteNow
  /\ IF Aborting
       THEN TimedOut
       ELSE /\ byte' \in (IF fn = "readdat" \/ byte = "jam"
                            THEN {byte} ELSE {"nul", "jam"})
            /\ KeepsWaiting
  /\ UNCHANGED <<messageVars, internal_response, s_terminator_enabled, hostVars, outq>>

(* The instrument accepts a command byte.  gpib_tx polls its timeout       *)
(* function before it looks at the lines, so no abort is pending.          *)
CommandAccepted ==
  /\ pc = "bus" /\ fn \in AddressingFns
  /\ byte # "jam"
  /\ ~Aborting
  /\ addr' = IF byte = "good" THEN Hear(CommandsOf(fn)[k], addr) ELSE addr
  /\ IF k < Len(CommandsOf(fn))
       THEN /\ k' = k + 1 /\ byte' = "good"
            /\ UNCHANGED <<pc, fn, ret, timedout>>
       ELSE Return /\ Result(FALSE)
  /\ UNCHANGED <<ctlVars, messageVars, internalVars, REN, Length, lastmessage,
                 reply, deliveryVars, hostVars, outq>>

(* gpib_writedat_quick: its timeout function is only polled on a timer     *)
(* tick, so the byte may go out although an abort is pending.  Without a   *)
(* listener nothing holds NRFD or NDAC low: the handshake completes and    *)
(* the byte is lost.                                                       *)
DataAccepted ==
  /\ pc = "bus" /\ fn = "writedat"
  /\ byte # "jam"
  /\ Length' = Length - 1
  /\ IF addr = "listen" /\ byte = "good"
       THEN InstrumentHears
       ELSE UNCHANGED <<rx, rxEoi>>
  /\ Return
  /\ Result(FALSE)
  /\ UNCHANGED <<ctlVars, messageVars, internalVars, busVars, lastmessage, reply,
                 msgsize, hostVars, outq>>

(* gpib_readdat_quick: the talker sources a byte, EOI with its last one;   *)
(* a byte may also match the read termination character.                   *)
DataRead ==
  /\ pc = "bus" /\ fn = "readdat"
  /\ addr = "talk" /\ reply > 0
  /\ reply' = reply - 1
  /\ Length' = Length - 1
  /\ \E terminator \in BOOLEAN :
       lastmessage' = (reply = 1 \/ (s_terminator_enabled /\ terminator))
  /\ Return
  /\ Result(FALSE)
  /\ UNCHANGED <<ctlVars, messageVars, internalVars, busVars, deliveryVars,
                 hostVars, outq>>

-----------------------------------------------------------------------------
(* ProcessSentMessage from the point where curlen, first and last are      *)
(* known.  remaining is the new s_remaining_bytes_receive.                 *)
InternalCommand(first, packet) ==
  first /\ s_nextwrite_mightbeparameterset /\ packet.bang

ProcessSentMessage(first, packet, curlen) ==
  /\ gpib_write_is_busy' = TRUE
  /\ timedout' = FALSE
  /\ Length' = curlen
  /\ IF InternalCommand(first, packet)
       THEN /\ internal_response' \in 0..MaxResponse
            /\ Goto("psm_end")
            /\ UNCHANGED REN
       ELSE /\ UNCHANGED internal_response
            /\ REN' = TRUE
            /\ IF first THEN Call("make_listener", "psm_top") ELSE Goto("psm_top")

(* What the steps inside ProcessSentMessage and GetNextMessage leave alone *)
InsideTransfer ==
  UNCHANGED <<messageVars, internalVars, reply, deliveryVars, hostVars, outq>>

(* A deferred status request is due unless the transfer is being aborted.  *)
(* (Mutant: the last packet forgotten.)                                    *)
StatusDueMidMessage == handleReadStatusByte /\ ~timedout /\ ~lastmessage
StatusDue           == handleReadStatusByte /\ ~timedout

(* The bus is given up after the last byte of a message.  (Mutant: after   *)
(* every packet.)                                                          *)
EveryPacketEnds == ~timedout
MessageEnds     == lastmessage /\ ~timedout

(* A status request is answered before the first byte ...                  *)
PsmTop ==
  /\ pc = "psm_top"
  /\ IF StatusDue
       THEN Call("untalk_unlisten", "poll_top") ELSE Goto("psm_loop")
  /\ InsideTransfer
  /\ UNCHANGED <<ctlVars, localVars, busVars>>

(* ... and before every byte.                                              *)
PsmLoop ==
  /\ pc = "psm_loop"
  /\ IF Length > 0 /\ ~timedout
       THEN IF handleReadStatusByte
              THEN Call("untalk_unlisten", "poll_loop")
              ELSE Goto("psm_dat")
       ELSE Goto("psm_done")
  /\ InsideTransfer
  /\ UNCHANGED <<ctlVars, localVars, busVars>>

PsmWrite ==
  /\ pc = "psm_dat"
  /\ Call("writedat", "psm_loop")
  /\ InsideTransfer
  /\ UNCHANGED <<ctlVars, localVars, busVars>>

PsmUntalk ==
  /\ pc = "psm_done"
  /\ IF MessageEnds
       THEN Call("untalk_unlisten", "psm_end") ELSE Goto("psm_end")
  /\ InsideTransfer
  /\ UNCHANGED <<ctlVars, localVars, busVars>>

(* The poll between two halves of a write; afterwards the instrument is    *)
(* made a listener again, unless the message is complete.                  *)
PsmAnswerStatus(at, next) ==
  /\ pc = at
  /\ handle_control_Req_ReadStatusByte
  /\ next
  /\ InsideTransfer
  /\ UNCHANGED <<abortVars, handleVars, raised, reqTag, localVars>>

PsmAnswerTop  == PsmAnswerStatus("poll_top", Call("make_listener", "psm_loop"))

(* (Mutants: the instrument is not addressed again.)                       *)
PsmAnswerLoopUnaddressed == PsmAnswerStatus("poll_loop", Goto("psm_dat"))
PsmAnswerLoop == PsmAnswerStatus("poll_loop", Call("make_listener", "psm_dat"))

PsmAnswerEndUnaddressed == PsmAnswerStatus("poll_end", Goto("psm_ret"))
PsmAnswerEnd ==
  PsmAnswerStatus("poll_end", IF lastmessage THEN Goto("psm_ret")
                                             ELSE Call("make_listener", "psm_ret"))

(* The write stays busy while packets are to come.  (Mutant: it does not.) *)
WriteNotBusy   == gpib_write_is_busy' = FALSE
WriteContinues == gpib_write_is_busy' = ~lastmessage

PsmEnd ==
  /\ pc = "psm_end"
  /\ s_nextwrite_mightbeparameterset' = FALSE
  /\ WriteContinues
  /\ IF StatusDue
       THEN IF lastmessage THEN Goto("poll_end")
                           ELSE Call("untalk_unlisten", "poll_end")
       ELSE Goto("psm_ret")
  /\ UNCHANGED <<s_remaining_bytes_receive, TMC_eom, TMC_LastMessageComplete,
                 TMC_InLastMessageComplete, CurrentTransferTag>>
  /\ UNCHANGED <<internal_response, s_terminator_enabled, ctlVars, localVars,
                 busVars, reply, deliveryVars, hostVars, outq>>

-----------------------------------------------------------------------------
(* GetNextMessage: read until EOI, a full buffer or an abort.              *)
GetNextMessage(curlen) ==
  /\ REN' = TRUE
  /\ timedout' = FALSE
  /\ lastmessage' = FALSE
  /\ Length' = curlen
  /\ IF TMC_InLastMessageComplete
       THEN Call("make_talker", "gnm_loop") ELSE Goto("gnm_loop")

GnmLoop ==
  /\ pc = "gnm_loop"
  /\ IF ~lastmessage /\ Length > 0 /\ ~timedout
       THEN Call("readdat", "gnm_loop") ELSE Goto("gnm_end")
  /\ InsideTransfer
  /\ UNCHANGED <<ctlVars, localVars, busVars>>

(* A timeout counts as the end of the message.                             *)
GnmEnd ==
  /\ pc = "gnm_end"
  /\ IF MessageEnds
       THEN Call("untalk_unlisten", "in_reply") ELSE Goto("in_reply")
  /\ lastmessage' = (lastmessage \/ timedout)
  /\ InsideTransfer
  /\ UNCHANGED <<ctlVars, timedout, Length, busVars>>
=============================================================================
