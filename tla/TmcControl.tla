----------------------------- MODULE TmcControl -----------------------------
(***************************************************************************)
(* EVENT_USB_Device_ControlRequest: what one control request does to the   *)
(* firmware.  USB_USBTask calls it, from main() or from inside a GPIB      *)
(* handshake, so these actions leave pc and the interrupted transfer to    *)
(* the caller (TmcTransfer and TmcTask).                                   *)
(*                                                                         *)
(* ctl is the request on the control endpoint: "none", a request that      *)
(* waits for USB_USBTask, or "deferred" for a status request that was      *)
(* accepted and not yet answered.                                          *)
(***************************************************************************)
EXTENDS TmcState

Replied == ctl' = "none"

(* An abort is accepted when no split request is in progress and its tag   *)
(* is that of the last header read (the host aborts its newest transfer).  *)
(* The abort flag is raised whether or not it is accepted.                 *)
AcceptAbort(request) ==
  RequestInProgress' =
    IF RequestInProgress = "none" /\ htag = CurrentTransferTag
      THEN request ELSE RequestInProgress

InitiateAbortBulkOut ==
  /\ ctl = "InitiateAbortBulkOut"
  /\ AcceptAbort(ctl)
  /\ IsTMCBulkOUTReset' = TRUE
  /\ Replied
  /\ UNCHANGED <<IsTMCBulkINReset, handleVars, statusVars,
                 s_nextwrite_mightbeparameterset, reqTag>>

InitiateAbortBulkIn ==
  /\ ctl = "InitiateAbortBulkIn"
  /\ AcceptAbort(ctl)
  /\ IsTMCBulkINReset' = TRUE
  /\ Replied
  /\ UNCHANGED <<IsTMCBulkOUTReset, handleVars, statusVars,
                 s_nextwrite_mightbeparameterset, reqTag>>

InitiateClear ==
  /\ ctl = "InitiateClear"
  /\ IF RequestInProgress = "none"
       THEN /\ RequestInProgress' = ctl
            /\ IsTMCBulkINReset' = TRUE
            /\ IsTMCBulkOUTReset' = TRUE
            /\ handleSDC' = TRUE
       ELSE UNCHANGED <<abortVars, handleSDC>>
  /\ Replied
  /\ UNCHANGED <<handleLocalLockout, handleGoToLocal, handleRenControl, statusVars,
                 s_nextwrite_mightbeparameterset, reqTag>>

(* The three status checks: not in progress, pending, or done.             *)
CheckStatus(check, request, pending) ==
  /\ ctl = check
  /\ RequestInProgress' =
       IF RequestInProgress = request /\ ~pending THEN "none" ELSE RequestInProgress
  /\ Replied
  /\ UNCHANGED <<IsTMCBulkINReset, IsTMCBulkOUTReset, handleVars, statusVars,
                 s_nextwrite_mightbeparameterset, reqTag>>

CheckAbortBulkOutStatus ==
  CheckStatus("CheckAbortBulkOutStatus", "InitiateAbortBulkOut", IsTMCBulkOUTReset)

(* (Mutant: the request of the other endpoint, a copy and paste slip.)     *)
CheckAbortBulkInOfOut ==
  CheckStatus("CheckAbortBulkInStatus", "InitiateAbortBulkOut", IsTMCBulkINReset)

CheckAbortBulkInStatus ==
  CheckStatus("CheckAbortBulkInStatus", "InitiateAbortBulkIn", IsTMCBulkINReset)

CheckClearStatus ==
  CheckStatus("CheckClearStatus", "InitiateClear", Aborting \/ handleSDC)

IndicatorPulse ==
  /\ ctl = "IndicatorPulse"
  /\ s_nextwrite_mightbeparameterset' = TRUE
  /\ Replied
  /\ UNCHANGED <<abortVars, handleVars, statusVars, reqTag>>

(* The requests that only ask TMC_Task for an action, answered at once.    *)
(* reqTag remembers which messages the host had sent before asking.        *)
RenControl ==
  /\ ctl \in RenRequests
  /\ handleRenControl' = ctl
  /\ UNCHANGED <<handleLocalLockout, handleGoToLocal>>

LocalLockout ==
  /\ ctl = "LocalLockout"
  /\ handleLocalLockout' = TRUE
  /\ UNCHANGED <<handleRenControl, handleGoToLocal>>

GoToLocal ==
  /\ ctl = "GoToLocal"
  /\ handleGoToLocal' = TRUE
  /\ UNCHANGED <<handleRenControl, handleLocalLockout>>

AskTask ==
  /\ RenControl \/ LocalLockout \/ GoToLocal
  /\ reqTag' = htag
  /\ Replied
  /\ UNCHANGED <<abortVars, handleSDC, statusVars, s_nextwrite_mightbeparameterset>>

(* A status request during a write is left to ProcessSentMessage.          *)
DeferReadStatusByte ==
  /\ ctl = "ReadStatusByte"
  /\ gpib_write_is_busy
  /\ handleReadStatusByte' = TRUE
  /\ ctl' = "deferred"
  /\ UNCHANGED <<abortVars, handleVars, handleRSTB, srq_statusbyte,
                 s_nextwrite_mightbeparameterset, reqTag>>

(* gpib_readStatusByte under the clock timeout, which handles no control   *)
(* request: got says whether the instrument delivered its status.          *)
SerialPoll(got) ==
  /\ addr' = Unaddressed
  /\ stb' = IF got THEN {} ELSE stb

StatusRead(got) == IF got THEN stb ELSE {}

(* The status byte of the response: what this poll read and what earlier   *)
(* service requests left in srq_statusbyte; told collects what was put on  *)
(* the control endpoint.  (Mutant: the fresh status only.)                 *)
RespondFreshOnly(got) == told' = told \cup StatusRead(got)
Respond(got) == told' = told \cup StatusRead(got) \cup srq_statusbyte

(* The host may have given up the request by the time it is answered.      *)
handle_control_Req_ReadStatusByte ==
  \E got \in BOOLEAN :
    /\ SerialPoll(got)
    /\ REN' = TRUE
    /\ Respond(got)
    /\ srq_statusbyte' = {}
    /\ handleRSTB' = TRUE
    /\ handleReadStatusByte' = FALSE
    /\ ctl' = IF ctl \in {"ReadStatusByte", "deferred"} THEN "none" ELSE ctl

(* No write is active: answered where USB_USBTask happens to run.          *)
ReadStatusByteNow ==
  /\ ctl = "ReadStatusByte"
  /\ ~gpib_write_is_busy
  /\ handle_control_Req_ReadStatusByte
  /\ UNCHANGED <<abortVars, handleVars, raised, s_nextwrite_mightbeparameterset,
                 reqTag>>

(* Every request but a status byte read at once, which uses the bus.       *)
FlagRequest ==
  /\ \/ InitiateAbortBulkOut \/ InitiateAbortBulkIn \/ InitiateClear
     \/ CheckAbortBulkOutStatus \/ CheckAbortBulkInStatus \/ CheckClearStatus
     \/ IndicatorPulse \/ AskTask \/ DeferReadStatusByte
  /\ UNCHANGED <<stb, raised, told>>

NoRequest ==
  /\ ctl \in {"none", "deferred"}
  /\ UNCHANGED <<ctl, abortVars, handleVars, statusVars, eventVars,
                 s_nextwrite_mightbeparameterset, reqTag>>
=============================================================================
