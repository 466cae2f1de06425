------------------------------- MODULE UsbTmc -------------------------------
(***************************************************************************)
(* The USB-TMC firmware between a host and an instrument, and the          *)
(* properties that make it correct.                                        *)
(*                                                                         *)
(* The host follows USBTMC: one bulk message at a time, no new message     *)
(* while a response or a split request is outstanding, no more bulk data   *)
(* once it has asked for an abort.  Habits adds what some hosts do:        *)
(*   "rush"       after an abort was refused the next message is sent at   *)
(*                once (a polite host lets the adapter finish first);      *)
(*   "interrupt"  a new message before the whole response was read;        *)
(*   "curious"    a status request while a response is outstanding, from   *)
(*                another thread of the host (viReadSTB during viRead).    *)
(***************************************************************************)
EXTENDS TmcTask

hostFrame == <<abortVars, handleVars, statusVars, messageVars, internalVars, pc,
               callVars, localVars, busVars, told, deliveryVars>>

MayStartMessage ==
  /\ htag < MaxMessages
  /\ hleft = 0 /\ ~hin /\ Len(outq) < 2
  /\ RequestInProgress = "none" /\ ctl \notin Initiates
  /\ "rush" \in Habits \/ ~Aborting

Packet(kind, size, eom, bang) ==
  [kind |-> kind, tag |-> htag + 1, size |-> size, eom |-> eom, bang |-> bang]

(* Internal commands fit in the packet that carries their header.          *)
HostSend ==
  /\ MayStartMessage
  /\ \E kind \in Kinds, size \in Sizes, eom, bang \in BOOLEAN :
       /\ kind = "IN" => /\ size > 0 /\ ~bang
                         /\ ctl # "ReadStatusByte" \/ "curious" \in Habits
       /\ kind = "TRIGGER" => size = 0 /\ ~eom /\ ~bang
       /\ bang => size \in 1..FirstChunk /\ s_nextwrite_mightbeparameterset
       /\ kind = "IN" \/ ~hmore \/ "interrupt" \in Habits
       /\ outq' = Append(outq, Packet(kind, size, eom, bang))
       /\ hleft' = IF kind = "OUT" THEN size - LesserOf(FirstChunk, size) ELSE 0
       /\ hin' = (kind = "IN")
       /\ hmore' = (hmore /\ kind = "IN")
  /\ htag' = htag + 1
  /\ UNCHANGED <<hostFrame, stb, raised, reply, nreq, ctl, reqTag>>

HostContinue ==
  /\ hleft > 0 /\ Len(outq) < 2
  /\ LET size == LesserOf(Chunk, hleft)
     IN /\ outq' = Append(outq, [kind |-> "DATA", tag |-> htag, size |-> size,
                                 eom |-> FALSE, bang |-> FALSE])
        /\ hleft' = hleft - size
  /\ UNCHANGED <<hostFrame, stb, raised, reply, nreq, ctl, reqTag, hin, hmore, htag>>

(* Control requests are sent one at a time; an abort or a clear ends the   *)
(* host's own part of every bulk transfer.                                 *)
HostRequest ==
  /\ ctl = "none" /\ nreq < MaxRequests
  /\ nreq' = nreq + 1
  /\ \E r \in Requests :
       /\ ctl' = r
       /\ r \in Initiates /\ r # "InitiateClear" => htag > 0
       /\ r = "ReadStatusByte" => (~hin /\ ~hmore) \/ "curious" \in Habits
       /\ IF r \in Initiates
            THEN hleft' = 0 /\ hin' = FALSE /\ hmore' = FALSE
            ELSE UNCHANGED <<hleft, hin, hmore>>
  /\ UNCHANGED <<hostFrame, stb, raised, reply, outq, reqTag, htag>>

CheckFor(request) == CASE request = "InitiateAbortBulkOut" -> "CheckAbortBulkOutStatus"
                       [] request = "InitiateAbortBulkIn"  -> "CheckAbortBulkInStatus"
                       [] request = "InitiateClear"        -> "CheckClearStatus"

HostCheck ==
  /\ ctl = "none" /\ RequestInProgress # "none"
  /\ ctl' = CheckFor(RequestInProgress)
  /\ UNCHANGED <<hostFrame, stb, raised, reply, hostVars, outq, reqTag>>

(* The host gives up a status request that is not answered in time.        *)
HostCancel ==
  /\ ctl = "deferred"
  /\ ctl' = "none"
  /\ UNCHANGED <<hostFrame, stb, raised, reply, hostVars, outq, reqTag>>

InstrumentRaises ==
  /\ raised < MaxEvents
  /\ raised' = raised + 1
  /\ stb' = stb \cup {raised + 1}
  /\ UNCHANGED <<hostFrame, reply, hostVars, outq, ctl, reqTag>>

InstrumentAnswers ==
  /\ reply = 0
  /\ reply' \in 1..MaxReply
  /\ UNCHANGED <<hostFrame, stb, raised, hostVars, outq, ctl, reqTag>>

-----------------------------------------------------------------------------
Waiting == PollTimeout \/ PollTimeoutReadStatusByte

Transfer ==
  \/ PsmTop \/ PsmLoop \/ PsmWrite \/ PsmUntalk \/ PsmEnd \/ PsmReturn
  \/ PsmAnswerTop \/ PsmAnswerLoop \/ PsmAnswerEnd
  \/ GnmLoop \/ GnmEnd \/ ReplyIn

Task ==
  \/ UsbTask \/ ServiceRequest \/ SelectiveDeviceClear \/ SendLocalLockout
  \/ GotoLocalAndRen \/ NoHeader \/ UnknownMessage \/ Trigger \/ DeviceOut
  \/ DeviceIn \/ ReceiveMore \/ NotifyStatusByte \/ FinishTask

Firmware   == Waiting \/ Transfer \/ Task
Handshakes == CommandAccepted \/ DataAccepted \/ DataRead
Host       == HostSend \/ HostContinue \/ HostRequest \/ HostCheck \/ HostCancel
Instrument == InstrumentRaises \/ InstrumentAnswers

Next == Firmware \/ Handshakes \/ Host \/ Instrument

(* The thread never rests and its timeout functions are polled; nothing is *)
(* assumed of the instrument or of the host.                               *)
Spec == Init /\ [][Next]_vars /\ WF_vars(Firmware)

(* A host that polls the status of its split requests.                     *)
CheckingSpec == Spec /\ WF_vars(HostCheck) /\ WF_vars(HostCancel)

(* An instrument that takes part in every handshake and answers, and a     *)
(* host that completes the messages it begins.                             *)
HelpfulSpec == Spec /\ WF_vars(Handshakes) /\ WF_vars(InstrumentAnswers)
                    /\ WF_vars(HostContinue)
-----------------------------------------------------------------------------
(* SAFETY                                                                  *)

(* A data byte on the bus always has a listener: whatever status requests  *)
(* were answered in the middle of the message, and however the message is  *)
(* split in packets, gpib_writedat_quick runs with the instrument          *)
(* addressed and its handshake untouched, unless an abort is pending.      *)
WriteReachesListener ==
  pc = "bus" /\ fn = "writedat" /\ ~Aborting => addr = "listen" /\ byte = "good"

(* When ProcessSentMessage is done with the last packet of a message that  *)
(* nobody aborts, the instrument has accepted every byte of it exactly     *)
(* once, and EOI came with the last byte of an end-of-message transfer.    *)
MessageDelivered ==
  pc = "psm_ret" /\ lastmessage /\ ~Aborting =>
    rx = msgsize /\ (rxEoi <=> TMC_eom /\ msgsize > 0)

(* TMC_Task never takes payload for a header nor a header for payload:     *)
(* aborts and resets keep s_remaining_bytes_receive in step with the       *)
(* packets that are in the OUT endpoint.                                   *)
HeaderSync ==
  /\ pc = "hdr" /\ outq # <<>> /\ ~Aborting => Head(outq).kind # "DATA"
  /\ pc = "more" /\ outq # <<>> /\ ~Aborting => Head(outq).kind = "DATA"

(* Between two rounds of the main loop the instrument listens while a      *)
(* message is unfinished, and is unaddressed when neither a message nor a  *)
(* response is, so that polls and triggers may use the bus.  (What it is   *)
(* while a response is unfinished: TalkerInv in UsbTmcSync.)               *)
BusMatchesTransfers ==
  pc = "usb" /\ ~Aborting =>
    /\ s_remaining_bytes_receive > 0 => addr = "listen"
    /\ s_remaining_bytes_receive = 0 /\ TMC_InLastMessageComplete => addr = "idle"

(* Status is never lost: what serial polls took from the instrument is in  *)
(* srq_statusbyte or was put in the answer to a status request (the reason *)
(* srq_statusbyte exists).                                                 *)
NoStatusLost == 1..raised \subseteq stb \cup srq_statusbyte \cup told

(* Go to local is executed after the messages sent before it: when it      *)
(* happens, no packet of an earlier message is left, none is half written  *)
(* and the bus is quiet.                                                   *)
LocalAfterWrites ==
  [][pc = "gtl" /\ handleGoToLocal /\ ~handleGoToLocal' =>
       /\ addr = "idle" /\ s_remaining_bytes_receive = 0
       /\ \A i \in 1..Len(outq) : outq[i].tag > reqTag]_vars

(* An abort flag only falls when the adapter has dropped what was pending: *)
(* no packet of the aborted transfer is left in the endpoint, no part of a *)
(* message is expected and the instrument is unaddressed.                  *)
AbortFlushes ==
  [][Aborting /\ ~Aborting' =>
       /\ outq' = <<>> /\ s_remaining_bytes_receive' = 0
       /\ addr' = "idle" /\ TMC_LastMessageComplete' /\ TMC_InLastMessageComplete'
       /\ ~handleSDC']_vars

(* A clear that was asked for leads to a selective device clear on the     *)
(* bus: handleSDC only falls where gpib_sdc is called.                     *)
ClearReachesInstrument ==
  [][handleSDC /\ ~handleSDC' => pc \in {"sdc", "reset"}]_vars

(* A status request answered in the middle of a read does not race with    *)
(* the transfer: an instrument that is being read stays the talker.        *)
ReadKeepsTalker ==
  pc = "bus" /\ fn = "readdat" /\ ~Aborting => addr = "talk"

-----------------------------------------------------------------------------
(* LIVENESS                                                                *)

(* Every abort and every clear comes to an end even if the instrument is   *)
(* dead in the middle of a handshake: the abort flags fall again.          *)
AbortsEnd == Aborting ~> ~Aborting

(* A host that checks the status of an accepted abort or clear eventually  *)
(* learns that it is complete.                                             *)
SplitRequestsEnd == RequestInProgress # "none" ~> RequestInProgress = "none"

(* A status request that was deferred because of a write is answered,      *)
(* without waiting for the end of the message, while the write goes on.    *)
DeferredStatusAnswered == handleReadStatusByte ~> ~handleReadStatusByte

(* A read request is answered if the instrument answers.                   *)
ReadsEnd == hin ~> ~hin
=============================================================================
