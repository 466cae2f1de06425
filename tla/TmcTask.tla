------------------------------ MODULE TmcTask ------------------------------
(***************************************************************************)
(* TMC_Task and the USB_USBTask call of main(): the firmware's main loop.  *)
(* The GPIB functions called here run under the clock timeout (is_timedout *)
(* handles no control request), so each is one step that succeeds or times *)
(* out.                                                                    *)
(***************************************************************************)
EXTENDS TmcTransfer

transferVars == <<callVars, localVars, reply, deliveryVars>>

(* USB_USBTask in main(), then the first test of TMC_Task.                 *)
UsbTask ==
  /\ pc = "usb"
  /\ \/ (FlagRequest \/ NoRequest) /\ UNCHANGED busVars
     \/ ReadStatusByteNow
  /\ pc' = IF s_remaining_bytes_receive = 0 THEN "srq" ELSE "more"
  /\ UNCHANGED <<messageVars, internal_response, s_terminator_enabled, transferVars,
                 hostVars, outq>>

(* The SRQ line is low while the instrument has unread status: it is       *)
(* polled, kept in srq_statusbyte and notified on the interrupt endpoint.  *)
ServiceRequest ==
  /\ pc = "srq"
  /\ \/ /\ stb # {}
        /\ \E got, ok \in BOOLEAN :
             /\ ok => got
             /\ SerialPoll(got)
             /\ srq_statusbyte' = srq_statusbyte \cup StatusRead(got)
             /\ REN' = (REN \/ ~ok)
     \/ stb = {} /\ UNCHANGED <<stb, srq_statusbyte, busVars>>
  /\ Goto("sdc")
  /\ UNCHANGED <<handleReadStatusByte, handleRSTB, raised, told>>
  /\ UNCHANGED <<abortVars, handleVars, ctl, reqTag, messageVars, internalVars,
                 localVars, reply, deliveryVars, hostVars, outq>>

(* Whatever gpib_sdc, gpib_trigger or gpib_gotoLocal achieves, it ends     *)
(* with UNL or with IFC.                                                   *)
AddressedCommand == addr' = Unaddressed

SelectiveDeviceClear ==
  /\ pc = "sdc"
  /\ IF handleSDC THEN REN' = TRUE /\ AddressedCommand ELSE UNCHANGED busVars
  /\ handleSDC' = FALSE
  /\ Goto("llo")
  /\ UNCHANGED <<handleLocalLockout, handleGoToLocal, handleRenControl>>
  /\ UNCHANGED <<abortVars, statusVars, eventVars, ctl, reqTag, messageVars,
                 internalVars, localVars, reply, deliveryVars, hostVars, outq>>

SendLocalLockout ==
  /\ pc = "llo"
  /\ IF handleLocalLockout
       THEN \E ok \in BOOLEAN : /\ addr' = IF ok THEN addr ELSE Unaddressed
                                /\ REN' = (REN \/ ~ok)
       ELSE UNCHANGED busVars
  /\ handleLocalLockout' = FALSE
  /\ Goto("gtl")
  /\ UNCHANGED <<handleSDC, handleGoToLocal, handleRenControl>>
  /\ UNCHANGED <<abortVars, statusVars, eventVars, ctl, reqTag, messageVars,
                 internalVars, localVars, reply, deliveryVars, hostVars, outq>>

(* Go to local and REN wait for both transfers and for the OUT endpoint.   *)
(* (Mutant: the endpoint forgotten.)                                       *)
TransfersCompleteInTask == TMC_LastMessageComplete /\ TMC_InLastMessageComplete
TransfersComplete ==
  TMC_LastMessageComplete /\ TMC_InLastMessageComplete /\ outq = <<>>

GotoLocalAndRen ==
  /\ pc = "gtl"
  /\ IF TransfersComplete
       THEN /\ addr' = IF handleGoToLocal THEN Unaddressed ELSE addr
            /\ \E ok \in BOOLEAN :
                 REN' = IF handleRenControl # "none" THEN handleRenControl = "RenOn"
                        ELSE REN \/ (handleGoToLocal /\ ~ok)
            /\ handleGoToLocal' = FALSE
            /\ handleRenControl' = "none"
       ELSE UNCHANGED <<busVars, handleGoToLocal, handleRenControl>>
  /\ Goto("hdr")
  /\ UNCHANGED <<handleSDC, handleLocalLockout>>
  /\ UNCHANGED <<abortVars, statusVars, eventVars, ctl, reqTag, messageVars,
                 internalVars, localVars, reply, deliveryVars, hostVars, outq>>

-----------------------------------------------------------------------------
(* ReadTMCHeader finds no packet, or refuses it during an OUT abort.       *)
NoHeader ==
  /\ pc = "hdr"
  /\ outq = <<>> \/ IsTMCBulkOUTReset
  /\ CurrentTransferTag' = IF outq = <<>> THEN CurrentTransferTag ELSE Head(outq).tag
  /\ Goto("rstb")
  /\ UNCHANGED <<s_remaining_bytes_receive, TMC_eom, TMC_LastMessageComplete,
                 TMC_InLastMessageComplete, gpib_write_is_busy>>
  /\ UNCHANGED <<ctlVars, internalVars, localVars, busVars, reply, deliveryVars,
                 hostVars, outq>>

Header(kind) ==
  /\ pc = "hdr"
  /\ outq # <<>> /\ ~IsTMCBulkOUTReset
  /\ Head(outq).kind = kind
  /\ CurrentTransferTag' = Head(outq).tag

(* Bytes that are no header at all: the endpoint is stalled; the host      *)
(* clears the halt, which resets the endpoint's banks.                     *)
UnknownMessage ==
  /\ Header("DATA")
  /\ outq' = <<>>
  /\ Goto("rstb")
  /\ UNCHANGED <<s_remaining_bytes_receive, TMC_eom, TMC_LastMessageComplete,
                 TMC_InLastMessageComplete, gpib_write_is_busy>>
  /\ UNCHANGED <<ctlVars, internalVars, localVars, busVars, reply, deliveryVars,
                 hostVars>>

Trigger ==
  /\ Header("TRIGGER")
  /\ REN' = TRUE
  /\ AddressedCommand
  /\ outq' = Tail(outq)
  /\ Goto("rstb")
  /\ UNCHANGED <<s_remaining_bytes_receive, TMC_eom, TMC_LastMessageComplete,
                 TMC_InLastMessageComplete, gpib_write_is_busy>>
  /\ UNCHANGED <<ctlVars, internalVars, localVars, reply, deliveryVars, hostVars>>

(* The first packet of a write; it stays in its bank until PsmReturn.      *)
DeviceOut ==
  /\ Header("OUT")
  /\ LET packet == Head(outq)
         curlen == LesserOf(FirstChunk, packet.size)
     IN /\ s_remaining_bytes_receive' = packet.size - curlen
        /\ TMC_eom' = packet.eom
        /\ lastmessage' = (curlen = packet.size)
        /\ ProcessSentMessage(TMC_LastMessageComplete, packet, curlen)
        /\ msgsize' = IF InternalCommand(TMC_LastMessageComplete, packet)
                        THEN 0 ELSE packet.size
  /\ rx' = 0 /\ rxEoi' = FALSE
  /\ UNCHANGED <<TMC_LastMessageComplete, TMC_InLastMessageComplete,
                 s_nextwrite_mightbeparameterset, s_terminator_enabled>>
  /\ UNCHANGED <<ctlVars, addr, reply, hostVars, outq>>

(* Further packets of a write.                                             *)
ReceiveMore ==
  /\ pc = "more"
  /\ IF outq = <<>>
       THEN /\ Goto("rstb")
            /\ UNCHANGED <<messageVars, internalVars, localVars, REN>>
       ELSE LET curlen == LesserOf(Chunk, s_remaining_bytes_receive)
            IN /\ s_remaining_bytes_receive' = s_remaining_bytes_receive - curlen
               /\ lastmessage' = (curlen = s_remaining_bytes_receive)
               /\ TMC_LastMessageComplete' = lastmessage'
               /\ ProcessSentMessage(FALSE, Head(outq), curlen)
               /\ UNCHANGED <<TMC_eom, TMC_InLastMessageComplete, CurrentTransferTag,
                              s_nextwrite_mightbeparameterset, s_terminator_enabled>>
  /\ UNCHANGED <<ctlVars, addr, reply, deliveryVars, hostVars, outq>>

(* After ProcessSentMessage: release the bank.                             *)
PsmReturn ==
  /\ pc = "psm_ret"
  /\ outq' = Tail(outq)
  /\ TMC_LastMessageComplete' = lastmessage
  /\ Goto("rstb")
  /\ UNCHANGED <<s_remaining_bytes_receive, TMC_eom, TMC_InLastMessageComplete,
                 gpib_write_is_busy, CurrentTransferTag>>
  /\ UNCHANGED <<ctlVars, internalVars, localVars, busVars, reply, deliveryVars,
                 hostVars>>

(* A read request: answered from the response of an internal command if    *)
(* there is one, else from the instrument.                                 *)
DeviceIn ==
  /\ Header("IN")
  /\ outq' = Tail(outq)
  /\ s_terminator_enabled' = Head(outq).eom
  /\ LET size == Head(outq).size
     IN IF internal_response > 0
          THEN LET sent == LesserOf(internal_response, size)
               IN /\ internal_response' = internal_response - sent
                  /\ lastmessage' = (sent = internal_response)
                  /\ Goto("in_reply")
                  /\ UNCHANGED <<timedout, Length, REN>>
          ELSE /\ GetNextMessage(LesserOf(BufferSize, size))
               /\ UNCHANGED internal_response
  /\ UNCHANGED <<s_remaining_bytes_receive, TMC_eom, TMC_LastMessageComplete,
                 TMC_InLastMessageComplete, gpib_write_is_busy,
                 s_nextwrite_mightbeparameterset>>
  /\ UNCHANGED <<ctlVars, addr, reply, deliveryVars, hostVars>>

(* gpib_interface_clear releases the instrument.  (Mutant: left out.)      *)
NoInterfaceClear     == UNCHANGED addr
gpib_interface_clear == addr' = Unaddressed

(* TMC_resetstates, for its callers' frame conditions.                     *)
TMC_resetstates ==
  /\ internal_response' = 0
  /\ handleRenControl' = "none" /\ handleGoToLocal' = FALSE
  /\ handleSDC' = FALSE /\ handleLocalLockout' = FALSE
  /\ handleReadStatusByte' = FALSE
  /\ TMC_LastMessageComplete' = TRUE /\ TMC_InLastMessageComplete' = TRUE
  /\ s_remaining_bytes_receive' = 0
  /\ gpib_interface_clear

(* The response goes to the host unless a bulk IN abort is pending; then   *)
(* the states are reset here already.                                      *)
ReplyIn ==
  /\ pc = "in_reply"
  /\ IF IsTMCBulkINReset
       THEN TMC_resetstates /\ UNCHANGED <<hin, hmore>>
       ELSE /\ TMC_InLastMessageComplete' = lastmessage
            /\ hmore' = (hin /\ ~lastmessage)
            /\ hin' = FALSE
            /\ UNCHANGED <<internal_response, handleVars, handleReadStatusByte,
                           TMC_LastMessageComplete, s_remaining_bytes_receive, addr>>
  /\ Goto("rstb")
  /\ UNCHANGED <<handleRSTB, srq_statusbyte, TMC_eom, gpib_write_is_busy,
                 CurrentTransferTag, s_nextwrite_mightbeparameterset,
                 s_terminator_enabled, REN>>
  /\ UNCHANGED <<abortVars, eventVars, ctl, reqTag, localVars, reply, deliveryVars,
                 hleft, htag, nreq, outq>>

-----------------------------------------------------------------------------
(* The interrupt notification of an answered status request.               *)
NotifyStatusByte ==
  /\ pc = "rstb"
  /\ handleRSTB' = FALSE
  /\ Goto("reset")
  /\ UNCHANGED <<handleReadStatusByte, srq_statusbyte>>
  /\ UNCHANGED <<abortVars, handleVars, eventVars, ctl, reqTag, messageVars,
                 internalVars, localVars, busVars, reply, deliveryVars, hostVars, outq>>

(* Both banks of the OUT endpoint are emptied.  (Mutant: only one.)        *)
FlushOneBank  == outq' = IF outq = <<>> THEN <<>> ELSE Tail(outq)
FlushOutBanks == outq' = <<>>

(* The end of TMC_Task: an abort empties both banks of the OUT endpoint,   *)
(* sends SDC if a clear asked for it and resets the states; then the abort *)
(* flags are cleared.                                                      *)
FinishTask ==
  /\ pc = "reset"
  /\ IF Aborting
       THEN /\ FlushOutBanks
            /\ TMC_resetstates
            /\ REN' = (REN \/ handleSDC)
       ELSE UNCHANGED <<outq, internal_response, handleVars, handleReadStatusByte,
                        TMC_LastMessageComplete, TMC_InLastMessageComplete,
                        s_remaining_bytes_receive, busVars>>
  /\ IsTMCBulkINReset' = FALSE /\ IsTMCBulkOUTReset' = FALSE
  /\ Goto("usb")
  /\ UNCHANGED <<RequestInProgress, handleRSTB, srq_statusbyte, TMC_eom,
                 gpib_write_is_busy, CurrentTransferTag,
                 s_nextwrite_mightbeparameterset, s_terminator_enabled>>
  /\ UNCHANGED <<eventVars, ctl, reqTag, localVars, reply, deliveryVars, hostVars>>
=============================================================================
