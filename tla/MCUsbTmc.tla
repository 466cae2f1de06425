------------------------------ MODULE MCUsbTmc ------------------------------
(* Small hosts and instruments for TLC: chunks of one and two bytes in     *)
(* place of 52 and 64, so that a message of three bytes takes two packets. *)
EXTENDS UsbTmcSync

WriteRequests   == {"ReadStatusByte", "InitiateAbortBulkOut", "InitiateClear",
                    "GoToLocal", "LocalLockout", "RenOff"}
ReadRequests    == {"InitiateAbortBulkIn", "InitiateClear", "IndicatorPulse",
                    "ReadStatusByte"}
AbortRequests   == Initiates \cup {"ReadStatusByte"}
LocalRequests   == {"ReadStatusByte", "GoToLocal"}
StatusRequests  == {"ReadStatusByte"}
ClearRequests   == {"InitiateClear"}
=============================================================================
