---------------------------- MODULE HandshakeInv ----------------------------
(* The inductive invariant of GpibHandshake: what the place of the adapter *)
(* says about the lines, the instrument and the bytes that went over.      *)
EXTENDS GpibHandshake

SendPcs == {"settle", "ready", "accept"}
ReadPcs == {"open", "valid", "sampled", "unvalid"}
FailPcs == {"release", "clear"}

(* The step that is under way.                                             *)
AtStep ==
  /\ pc \in SendPcs \cup ReadPcs \cup FailPcs \cup {"probe"} => i <= Len(trans)
  /\ pc \in SendPcs => trans[i].op \in {"cmd", "data"}
  /\ pc \in ReadPcs => trans[i].op = "read"
  /\ pc = "probe" => trans[i].op = "probe"
  /\ n > 0 => trans[i].op = "read"
  /\ result = "busy" <=> pc # "idle"

(* The lines the adapter drives.                                           *)
AdapterLines ==
  /\ "DAV" \in drives <=> pc = "accept"
  /\ "IFC" \in drives <=> pc = "clear"
  /\ pc \in SendPcs => ("ATN" \in drives <=> trans[i].op = "cmd")
  /\ pc \in ReadPcs \cup {"probe", "clear"} => "ATN" \notin drives
  /\ pc \in SendPcs => ("EOI" \in drives <=> trans[i].eoi)
  /\ pc \notin SendPcs \cup {"release"} => "EOI" \notin drives
  /\ pc \in {"ready", "accept"} => {"NRFD", "NDAC"} \cap drives = {}
  /\ pc \in {"unvalid", "probe"} => "NDAC" \notin drives
  /\ pc = "begin" /\ i > 1 /\ trans[i - 1].op = "cmd" => "NDAC" \notin drives
  /\ pc \in {"open", "valid", "sampled"} => "NDAC" \in drives
  /\ pc \in {"sampled", "unvalid"} => "NRFD" \in drives
  /\ Talking /\ pc \notin {"open", "valid"} \cup FailPcs => "NRFD" \in drives

(* The byte on the data lines, and how far its acceptance is.              *)
ByteOut ==
  /\ pc \in {"ready", "accept"} =>
       data = [byte |-> trans[i].byte, eoi |-> trans[i].eoi]
  /\ pc \notin {"ready", "accept"} => data = None
  /\ pc \in {"ready", "accept"} => src = "SIDS" /\ (acc # "AIDS") = Accepting
  /\ taken => pc = "accept"
  /\ pc = "accept" /\ role # "off" =>
       IF taken THEN acc \in {"ACDS", "AWNS"} ELSE acc \in {"ACRS", "AIDS"}

(* The bytes the instrument says, and which of them the adapter has.       *)
ByteIn ==
  /\ role = "off" => acc = "AIDS" /\ src = "SIDS"
  /\ src \in {"SDYS", "STRS"} => k <= Len(Output)
  /\ src = "STRS" => pc \in ReadPcs \cup FailPcs
  /\ ~failed /\ role # "off" =>
       k = IF pc = "unvalid" /\ src # "STRS" THEN Len(input) + 2 ELSE Len(input) + 1
  /\ pc \in {"sampled", "unvalid"} /\ role # "off" =>
       /\ role = "talk"
       /\ src \in (IF pc = "sampled" THEN {"STRS"} ELSE {"STRS", "SGNS", "SDYS"})
       /\ Len(input) < Len(Output)
       /\ c = Output[Len(input) + 1]

(* Nobody talks when the adapter writes or probes.                         *)
Position == IF taken THEN i + 1 ELSE i
Untalked ==
  pc # "idle" /\ role \in {"talk", "tpas"} =>
    \A j \in Position..Len(trans) : trans[j].op \in {"data", "probe"} =>
      \E m \in Position..(j - 1) : trans[m].byte = "UNT"

(* What is done after a step was given up.                                 *)
GivenUp ==
  /\ timedout = failed
  /\ failed => /\ expired
               /\ pc \notin ReadPcs
               /\ pc \notin FailPcs => role \in {"idle", "off"}
               /\ pc = "begin" => i > 1
               /\ pc \in SendPcs => trans[i].op = "cmd" /\ trans[i].byte = "SAG"
  /\ pc \in FailPcs => failed

IInv == TypeOK /\ AtStep /\ AdapterLines /\ ByteOut /\ ByteIn /\ Untalked /\ GivenUp
=============================================================================
