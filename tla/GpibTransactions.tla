-------------------------- MODULE GpibTransactions --------------------------
(* The functions of gpib.c and their callers as sequences of steps for     *)
(* GpibHandshake.                                                          *)
EXTENDS GpibBus, Naturals

Bytes(cmds) == [j \in 1..Len(cmds) |->
  [op |-> "cmd", byte |-> cmds[j], eoi |-> FALSE, max |-> 0, checked |-> TRUE, quick |-> TRUE]]
DataByte(b, eoi) ==
  <<[op |-> "data", byte |-> b, eoi |-> eoi, max |-> 0, checked |-> TRUE, quick |-> FALSE]>>
Reading(max, quick) ==
  <<[op |-> "read", byte |-> "none", eoi |-> FALSE, max |-> max, checked |-> TRUE, quick |-> quick]>>
Line(op) ==
  <<[op |-> op, byte |-> "none", eoi |-> FALSE, max |-> 0, checked |-> TRUE, quick |-> TRUE]>>

(* gpib_cmd_LAG and gpib_cmd_TAG: with a secondary address two bytes, of   *)
(* which only the second one's result is returned.                         *)
Primary == [LAG |-> "PLAG", TAG |-> "PTAG"]
Ignored(step) == [step EXCEPT !.checked = FALSE]
Address(cmd, secondary) ==
  IF secondary THEN <<Ignored(Bytes(<<Primary[cmd]>>)[1])>> \o Bytes(<<"SAG">>)
               ELSE Bytes(<<cmd>>)

gpib_make_listener(s) == Bytes(SubSeq(make_listener, 1, 3)) \o Address("LAG", s)
gpib_make_talker(s)   == Bytes(SubSeq(make_talker, 1, 2)) \o Address("TAG", s) \o Line("ndac")
gpib_untalk_unlisten  == Bytes(untalk_unlisten)
gpib_readStatusByte(s) ==
  Bytes(<<"LAG0", "SPE">>) \o Address("TAG", s) \o Reading(1, TRUE) \o Bytes(<<"SPD", "UNT">>)

(* gpib_sdc, gpib_trigger and gpib_gotoLocal differ in the command.        *)
Addressed(cmd, s) == Address("LAG", s) \o Bytes(<<cmd, "UNL">>)
gpib_localLockout == Bytes(<<"LLO">>)

(* ProcessSentMessage for a message of two bytes, the last with EOI.       *)
Message(s) == gpib_make_listener(s) \o DataByte("a", FALSE) \o DataByte("b", TRUE)
              \o gpib_untalk_unlisten

(* GetNextMessage: its first call, a later one, and the untalk after EOI.  *)
FirstRead(s, max) == gpib_make_talker(s) \o Reading(max, FALSE)
NextRead(max)     == Reading(max, FALSE)

(* gpib_search: one address, whose results nobody looks at.                *)
SearchStep(s) ==
  LET lag == Address("LAG", s)
  IN [j \in 1..Len(lag) |-> Ignored(lag[j])] \o Line("probe")
=============================================================================
