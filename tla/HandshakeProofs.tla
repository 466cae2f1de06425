--------------------------- MODULE HandshakeProofs ---------------------------
(* The proofs about GpibHandshake: IInv is inductive, and the handshake    *)
(* implements GpibTransfer, for every set of transactions and every reply  *)
(* that the assumptions of GpibHandshake admit.                            *)
(*                                                                         *)
(* One lemma per action shows IInv' part by part; then one lemma per       *)
(* action that a caller sees shows the step of GpibTransfer it makes.      *)
EXTENDS HandshakeInv, TLAPS

(* The instrument's part of a step of the adapter.                         *)
InstrumentWaits ==
  /\ taken' = (taken /\ pc' = pc)
  /\ UNCHANGED <<acc, src, role, k, heard, expired, starts>>

(* The assumption on transactions, for the one under way.                  *)
LEMMA StepFacts ==
  ASSUME TypeOK
  PROVE  /\ trans \in Seq(Steps) /\ Len(trans) \in Nat
         /\ i \in Nat /\ i > 0 /\ i <= Len(trans) + 1
         /\ \A j \in 1..Len(trans) :
              /\ trans[j] \in Steps
              /\ trans[j].op = "cmd" => trans[j].quick
              /\ trans[j].byte = "UNT" => trans[j].op = "cmd"
              /\ trans[j].op = "read" => trans[j].max > 0
              /\ trans[j].op = "probe" => j > 1 /\ trans[j - 1].op = "cmd"
              /\ ~trans[j].checked => /\ trans[j].op = "cmd" /\ j < Len(trans)
                             /\ \/ trans[j + 1].op = "probe"
                                \/ trans[j + 1].op = "cmd" /\ trans[j + 1].byte = "SAG"
              /\ trans[j].op \in {"data", "probe"} =>
                   \A m \in 1..(j - 1) : trans[m].byte \notin {"TAG", "PTAG"}
<1>1. CASE trans \in Transactions
  BY <1>1, TransactionsAssumption DEF TypeOK, AdapterTypes
<1>2. CASE trans = <<>>
  BY <1>2 DEF TypeOK, AdapterTypes
<1> QED
  BY <1>1, <1>2 DEF TypeOK, AdapterTypes

(* Before a data byte or a probe the instrument was told not to talk.      *)
LEMMA NobodyTalks ==
  ASSUME IInv, pc # "idle", ~taken, i <= Len(trans), trans[i].op \in {"data", "probe"}
  PROVE  role \notin {"talk", "tpas"}
BY StepFacts DEF IInv, Untalked, Position

(* What may follow a step that was given up: its result was thrown away.   *)
LEMMA GoesOn ==
  ASSUME IInv, More, failed
  PROVE  trans[i].op = "probe" \/ (trans[i].op = "cmd" /\ trans[i].byte = "SAG")
BY StepFacts DEF IInv, GivenUp, More, FailPcs

(* A step after one that was given up is given up at its first poll.       *)
LEMMA PollsAgain ==
  ASSUME IInv, pc \in {"ready", "accept"}, ~GivesUp
  PROVE  failed = FALSE
BY StepFacts
   DEF IInv, GivenUp, SendPcs, FailPcs, AtStep, GivesUp, Polled, Quick, TypeOK,
       AdapterTypes

LEMMA InstrumentKept ==
  ASSUME TypeOK, InstrumentWaits, tick' \in BOOLEAN
  PROVE  InstrumentTypes'
<1>1. taken' \in BOOLEAN
  BY DEF InstrumentWaits
<1> QED
  BY <1>1 DEF TypeOK, InstrumentTypes, InstrumentWaits

-----------------------------------------------------------------------------
(* The adapter.                                                            *)
LEMMA SetAtnStep == IInv /\ SetAtn /\ InstrumentWaits => IInv'
<1> SUFFICES ASSUME IInv, SetAtn, InstrumentWaits PROVE IInv'
  OBVIOUS
<1>1. /\ pc = "begin" /\ i <= Len(trans) /\ trans[i].op \in {"cmd", "data"} /\ More
      /\ pc' = "settle"
      /\ drives' = (drives \ {"ATN"}) \cup Target(trans[i].op)
                 \cup (IF trans[i].eoi THEN {"EOI"} ELSE {})
      /\ UNCHANGED <<trans, i, n, timedout, data, c, input, found, failed, result, tick>>
      /\ UNCHANGED <<acc, src, role, k, heard, expired, starts>>
  BY DEF SetAtn, Op, More, InstrumentWaits
<1>2. taken = FALSE /\ taken' = FALSE
  BY <1>1 DEF IInv, TypeOK, InstrumentTypes, ByteOut, InstrumentWaits
<1>a. trans[i].op = "data" => role # "talk"
  BY <1>1, <1>2, NobodyTalks
<1>3. TypeOK'
  <2>1. AdapterTypes'
    BY <1>1 DEF IInv, TypeOK, AdapterTypes, AdapterPcs, Lines, Target
  <2>2. InstrumentTypes'
    BY <1>1, InstrumentKept DEF IInv, TypeOK, InstrumentTypes
  <2> QED
    BY <2>1, <2>2 DEF TypeOK
<1>4. AtStep'
  BY <1>1 DEF IInv, AtStep, SendPcs, ReadPcs, FailPcs
<1>5. AdapterLines'
  BY <1>1, <1>a DEF IInv, AdapterLines, SendPcs, ReadPcs, FailPcs, Talking, Target
<1>6. ByteOut'
  BY <1>1, <1>2 DEF IInv, ByteOut
<1>7. ByteIn'
  BY <1>1 DEF IInv, ByteIn, ReadPcs, FailPcs
<1>8. Untalked'
  BY <1>1, <1>2 DEF IInv, Untalked, Position
<1>9. GivenUp'
  BY <1>1, GoesOn DEF IInv, GivenUp, SendPcs, ReadPcs, FailPcs
<1> QED
  BY <1>3, <1>4, <1>5, <1>6, <1>7, <1>8, <1>9 DEF IInv

LEMMA DriveStep == IInv /\ Drive /\ InstrumentWaits => IInv'
<1> SUFFICES ASSUME IInv, Drive, InstrumentWaits PROVE IInv'
  OBVIOUS
<1>1. /\ pc = "settle" /\ Settled
      /\ pc' = "ready"
      /\ drives' = drives \ {"DAV", "NRFD", "NDAC"}
      /\ data' = [byte |-> trans[i].byte, eoi |-> trans[i].eoi]
      /\ UNCHANGED <<trans, i, n, timedout, c, input, found, failed, result, tick>>
      /\ UNCHANGED <<acc, src, role, k, heard, expired, starts>>
  BY DEF Drive, InstrumentWaits
<1>2. taken = FALSE /\ taken' = FALSE
  BY <1>1 DEF IInv, TypeOK, InstrumentTypes, ByteOut, InstrumentWaits
<1>a. i <= Len(trans) /\ trans[i].op \in {"cmd", "data"}
  BY <1>1 DEF IInv, AtStep, SendPcs
<1>b. ~Talking
  BY <1>1, <1>2, <1>a, NobodyTalks DEF IInv, AdapterLines, SendPcs, Talking
<1>3. TypeOK'
  <2>1. AdapterTypes'
    BY <1>1, <1>a, StepFacts
       DEF IInv, TypeOK, AdapterTypes, AdapterPcs, Lines, Steps, Items
  <2>2. InstrumentTypes'
    BY <1>1, InstrumentKept DEF IInv, TypeOK, InstrumentTypes
  <2> QED
    BY <2>1, <2>2 DEF TypeOK
<1>4. AtStep'
  BY <1>1 DEF IInv, AtStep, SendPcs, ReadPcs, FailPcs
<1>5. AdapterLines'
  BY <1>1, <1>b DEF IInv, AdapterLines, SendPcs, ReadPcs, FailPcs, Talking
<1>6. ByteOut'
  BY <1>1, <1>2, <1>b DEF IInv, ByteOut, Settled, Accepting, Talking
<1>7. ByteIn'
  BY <1>1 DEF IInv, ByteIn, ReadPcs, FailPcs
<1>8. Untalked'
  BY <1>1, <1>2 DEF IInv, Untalked, Position
<1>9. GivenUp'
  BY <1>1 DEF IInv, GivenUp, SendPcs, ReadPcs, FailPcs
<1> QED
  BY <1>3, <1>4, <1>5, <1>6, <1>7, <1>8, <1>9 DEF IInv

LEMMA OpenReadStep == IInv /\ OpenRead /\ InstrumentWaits => IInv'
<1> SUFFICES ASSUME IInv, OpenRead, InstrumentWaits PROVE IInv'
  OBVIOUS
<1>1. /\ pc = "begin" /\ i <= Len(trans) /\ trans[i].op = "read" /\ More
      /\ pc' = "open"
      /\ drives' = (drives \ {"ATN"}) \cup {"NDAC"}
      /\ UNCHANGED <<trans, i, n, timedout, data, c, input, found, failed, result, tick>>
      /\ UNCHANGED <<acc, src, role, k, heard, expired, starts>>
  BY DEF OpenRead, Op, More, InstrumentWaits
<1>2. taken = FALSE /\ taken' = FALSE
  BY <1>1 DEF IInv, TypeOK, InstrumentTypes, ByteOut, InstrumentWaits
<1>3. TypeOK'
  <2>1. AdapterTypes'
    BY <1>1 DEF IInv, TypeOK, AdapterTypes, AdapterPcs, Lines
  <2>2. InstrumentTypes'
    BY <1>1, InstrumentKept DEF IInv, TypeOK, InstrumentTypes
  <2> QED
    BY <2>1, <2>2 DEF TypeOK
<1>4. AtStep'
  BY <1>1 DEF IInv, AtStep, SendPcs, ReadPcs, FailPcs
<1>5. AdapterLines'
  BY <1>1 DEF IInv, AdapterLines, SendPcs, ReadPcs, FailPcs, Talking
<1>6. ByteOut'
  BY <1>1, <1>2 DEF IInv, ByteOut
<1>7. ByteIn'
  BY <1>1 DEF IInv, ByteIn, ReadPcs, FailPcs
<1>8. Untalked'
  BY <1>1, <1>2 DEF IInv, Untalked, Position
<1>9. GivenUp'
  BY <1>1, GoesOn DEF IInv, GivenUp, SendPcs, ReadPcs, FailPcs
<1> QED
  BY <1>3, <1>4, <1>5, <1>6, <1>7, <1>8, <1>9 DEF IInv

LEMMA ReadyForDataStep == IInv /\ ReadyForData /\ InstrumentWaits => IInv'
<1> SUFFICES ASSUME IInv, ReadyForData, InstrumentWaits PROVE IInv'
  OBVIOUS
<1>1. /\ pc = "open" /\ pc' = "valid"
      /\ drives' = drives \ {"NRFD"}
      /\ UNCHANGED <<trans, i, n, timedout, data, c, input, found, failed, result, tick>>
      /\ UNCHANGED <<acc, src, role, k, heard, expired, starts>>
  BY DEF ReadyForData, InstrumentWaits
<1>2. taken = FALSE /\ taken' = FALSE
  BY <1>1 DEF IInv, TypeOK, InstrumentTypes, ByteOut, InstrumentWaits
<1>3. TypeOK'
  <2>1. AdapterTypes'
    BY <1>1 DEF IInv, TypeOK, AdapterTypes, AdapterPcs, Lines
  <2>2. InstrumentTypes'
    BY <1>1, InstrumentKept DEF IInv, TypeOK, InstrumentTypes
  <2> QED
    BY <2>1, <2>2 DEF TypeOK
<1>4. AtStep'
  BY <1>1 DEF IInv, AtStep, SendPcs, ReadPcs, FailPcs
<1>5. AdapterLines'
  BY <1>1 DEF IInv, AdapterLines, SendPcs, ReadPcs, FailPcs, Talking
<1>6. ByteOut'
  BY <1>1, <1>2 DEF IInv, ByteOut
<1>7. ByteIn'
  BY <1>1 DEF IInv, ByteIn, ReadPcs, FailPcs
<1>8. Untalked'
  BY <1>1, <1>2 DEF IInv, Untalked, Position
<1>9. GivenUp'
  BY <1>1 DEF IInv, GivenUp, SendPcs, ReadPcs, FailPcs
<1> QED
  BY <1>3, <1>4, <1>5, <1>6, <1>7, <1>8, <1>9 DEF IInv

LEMMA AcceptStep == IInv /\ Accept /\ InstrumentWaits => IInv'
<1> SUFFICES ASSUME IInv, Accept, InstrumentWaits PROVE IInv'
  OBVIOUS
<1>1. /\ pc = "sampled" /\ pc' = "unvalid"
      /\ drives' = drives \ {"NDAC"}
      /\ UNCHANGED <<trans, i, n, timedout, data, c, input, found, failed, result, tick>>
      /\ UNCHANGED <<acc, src, role, k, heard, expired, starts>>
  BY DEF Accept, InstrumentWaits
<1>2. taken = FALSE /\ taken' = FALSE
  BY <1>1 DEF IInv, TypeOK, InstrumentTypes, ByteOut, InstrumentWaits
<1>3. TypeOK'
  <2>1. AdapterTypes'
    BY <1>1 DEF IInv, TypeOK, AdapterTypes, AdapterPcs, Lines
  <2>2. InstrumentTypes'
    BY <1>1, InstrumentKept DEF IInv, TypeOK, InstrumentTypes
  <2> QED
    BY <2>1, <2>2 DEF TypeOK
<1>4. AtStep'
  BY <1>1 DEF IInv, AtStep, SendPcs, ReadPcs, FailPcs
<1>5. AdapterLines'
  BY <1>1 DEF IInv, AdapterLines, SendPcs, ReadPcs, FailPcs, Talking
<1>6. ByteOut'
  BY <1>1, <1>2 DEF IInv, ByteOut
<1>7. ByteIn'
  BY <1>1 DEF IInv, ByteIn, ReadPcs, FailPcs
<1>8. Untalked'
  BY <1>1, <1>2 DEF IInv, Untalked, Position
<1>9. GivenUp'
  BY <1>1 DEF IInv, GivenUp, SendPcs, ReadPcs, FailPcs
<1> QED
  BY <1>3, <1>4, <1>5, <1>6, <1>7, <1>8, <1>9 DEF IInv

LEMMA PullNdacStep == IInv /\ PullNdac /\ InstrumentWaits => IInv'
<1> SUFFICES ASSUME IInv, PullNdac, InstrumentWaits PROVE IInv'
  OBVIOUS
<1>1. /\ pc = "begin" /\ i <= Len(trans) /\ trans[i].op = "ndac" /\ More
      /\ pc' = "begin" /\ i' = i + 1
      /\ drives' = drives \cup {"NDAC"}
      /\ UNCHANGED <<trans, n, timedout, data, c, input, found, failed, result, tick>>
      /\ UNCHANGED <<acc, src, role, k, heard, expired, starts>>
  BY DEF PullNdac, Op, More, InstrumentWaits
<1>2. taken = FALSE /\ taken' = FALSE
  BY <1>1 DEF IInv, TypeOK, InstrumentTypes, ByteOut, InstrumentWaits
<1>3. TypeOK'
  <2>1. AdapterTypes'
    BY <1>1, StepFacts DEF IInv, TypeOK, AdapterTypes, AdapterPcs, Lines, AtStep
  <2>2. InstrumentTypes'
    BY <1>1, InstrumentKept DEF IInv, TypeOK, InstrumentTypes
  <2> QED
    BY <2>1, <2>2 DEF TypeOK
<1>4. AtStep'
  BY <1>1, StepFacts DEF IInv, AtStep, SendPcs, ReadPcs, FailPcs
<1>5. AdapterLines'
  BY <1>1, StepFacts DEF IInv, AdapterLines, SendPcs, ReadPcs, FailPcs, Talking
<1>6. ByteOut'
  BY <1>1, <1>2 DEF IInv, ByteOut
<1>7. ByteIn'
  BY <1>1 DEF IInv, ByteIn, ReadPcs, FailPcs
<1>8. Untalked'
  BY <1>1, <1>2, StepFacts DEF IInv, Untalked, Position
<1>9. GivenUp'
  BY <1>1, GoesOn, StepFacts DEF IInv, GivenUp, SendPcs, ReadPcs, FailPcs
<1> QED
  BY <1>3, <1>4, <1>5, <1>6, <1>7, <1>8, <1>9 DEF IInv

LEMMA ReleaseAtnStep == IInv /\ ReleaseAtn /\ InstrumentWaits => IInv'
<1> SUFFICES ASSUME IInv, ReleaseAtn, InstrumentWaits PROVE IInv'
  OBVIOUS
<1>1. /\ pc = "begin" /\ i <= Len(trans) /\ trans[i].op = "probe"
      /\ pc' = "probe"
      /\ drives' = drives \ {"ATN"}
      /\ UNCHANGED <<trans, i, n, timedout, data, c, input, found, failed, result, tick>>
      /\ UNCHANGED <<acc, src, role, k, heard, expired, starts>>
  BY DEF ReleaseAtn, Op, More, InstrumentWaits
<1>2. taken = FALSE /\ taken' = FALSE
  BY <1>1 DEF IInv, TypeOK, InstrumentTypes, ByteOut, InstrumentWaits
<1>3. TypeOK'
  <2>1. AdapterTypes'
    BY <1>1 DEF IInv, TypeOK, AdapterTypes, AdapterPcs, Lines
  <2>2. InstrumentTypes'
    BY <1>1, InstrumentKept DEF IInv, TypeOK, InstrumentTypes
  <2> QED
    BY <2>1, <2>2 DEF TypeOK
<1>4. AtStep'
  BY <1>1 DEF IInv, AtStep, SendPcs, ReadPcs, FailPcs
<1>5. AdapterLines'
  BY <1>1, <1>2, NobodyTalks, StepFacts
     DEF IInv, AdapterLines, SendPcs, ReadPcs, FailPcs, Talking
<1>6. ByteOut'
  BY <1>1, <1>2 DEF IInv, ByteOut
<1>7. ByteIn'
  BY <1>1 DEF IInv, ByteIn, ReadPcs, FailPcs
<1>8. Untalked'
  BY <1>1, <1>2 DEF IInv, Untalked, Position
<1>9. GivenUp'
  BY <1>1 DEF IInv, GivenUp, SendPcs, ReadPcs, FailPcs
<1> QED
  BY <1>3, <1>4, <1>5, <1>6, <1>7, <1>8, <1>9 DEF IInv

LEMMA LookAtNdacStep == IInv /\ LookAtNdac /\ InstrumentWaits => IInv'
<1> SUFFICES ASSUME IInv, LookAtNdac, InstrumentWaits PROVE IInv'
  OBVIOUS
<1>1. /\ pc = "probe"
      /\ pc' = "begin" /\ i' = i + 1 /\ found' \in BOOLEAN
      /\ UNCHANGED <<drives>>
      /\ UNCHANGED <<trans, n, timedout, data, c, input, failed, result, tick>>
      /\ UNCHANGED <<acc, src, role, k, heard, expired, starts>>
  BY DEF LookAtNdac, InstrumentWaits
<1>2. taken = FALSE /\ taken' = FALSE
  BY <1>1 DEF IInv, TypeOK, InstrumentTypes, ByteOut, InstrumentWaits
<1>3. TypeOK'
  <2>1. AdapterTypes'
    BY <1>1, StepFacts DEF IInv, TypeOK, AdapterTypes, AdapterPcs, Lines, AtStep
  <2>2. InstrumentTypes'
    BY <1>1, InstrumentKept DEF IInv, TypeOK, InstrumentTypes
  <2> QED
    BY <2>1, <2>2 DEF TypeOK
<1>4. AtStep'
  BY <1>1, StepFacts DEF IInv, AtStep, SendPcs, ReadPcs, FailPcs
<1>5. AdapterLines'
  BY <1>1, StepFacts
     DEF IInv, AdapterLines, SendPcs, ReadPcs, FailPcs, Talking, AtStep
<1>6. ByteOut'
  BY <1>1, <1>2 DEF IInv, ByteOut
<1>7. ByteIn'
  BY <1>1 DEF IInv, ByteIn, ReadPcs, FailPcs
<1>8. Untalked'
  BY <1>1, <1>2, StepFacts DEF IInv, Untalked, Position, AtStep
<1>9. GivenUp'
  BY <1>1, StepFacts DEF IInv, GivenUp, SendPcs, ReadPcs, FailPcs
<1> QED
  BY <1>3, <1>4, <1>5, <1>6, <1>7, <1>8, <1>9 DEF IInv

LEMMA RecoverStep == IInv /\ Recover /\ InstrumentWaits => IInv'
<1> SUFFICES ASSUME IInv, Recover, InstrumentWaits PROVE IInv'
  OBVIOUS
<1>1. /\ pc = "release" /\ pc' = "clear"
      /\ drives' = {"REN", "IFC"}
      /\ UNCHANGED <<trans, i, n, timedout, data, c, input, found, failed, result, tick>>
      /\ UNCHANGED <<acc, src, role, k, heard, expired, starts>>
  BY DEF Recover, InstrumentWaits
<1>2. taken = FALSE /\ taken' = FALSE
  BY <1>1 DEF IInv, TypeOK, InstrumentTypes, ByteOut, InstrumentWaits
<1>3. TypeOK'
  <2>1. AdapterTypes'
    BY <1>1 DEF IInv, TypeOK, AdapterTypes, AdapterPcs, Lines
  <2>2. InstrumentTypes'
    BY <1>1, InstrumentKept DEF IInv, TypeOK, InstrumentTypes
  <2> QED
    BY <2>1, <2>2 DEF TypeOK
<1>4. AtStep'
  BY <1>1 DEF IInv, AtStep, SendPcs, ReadPcs, FailPcs
<1>5. AdapterLines'
  BY <1>1 DEF IInv, AdapterLines, SendPcs, ReadPcs, FailPcs, Talking
<1>6. ByteOut'
  BY <1>1, <1>2 DEF IInv, ByteOut
<1>7. ByteIn'
  BY <1>1 DEF IInv, ByteIn, ReadPcs, FailPcs
<1>8. Untalked'
  BY <1>1, <1>2 DEF IInv, Untalked, Position
<1>9. GivenUp'
  BY <1>1 DEF IInv, GivenUp, SendPcs, ReadPcs, FailPcs
<1> QED
  BY <1>3, <1>4, <1>5, <1>6, <1>7, <1>8, <1>9 DEF IInv

LEMMA InterfaceClearedStep == IInv /\ InterfaceCleared /\ InstrumentWaits => IInv'
<1> SUFFICES ASSUME IInv, InterfaceCleared, InstrumentWaits PROVE IInv'
  OBVIOUS
<1>1. /\ pc = "clear" /\ role \in {"idle", "off"} /\ Settled
      /\ pc' = "begin" /\ i' = i + 1 /\ n' = 0
      /\ drives' = IF trans[i].op = "read" THEN {"REN", "NRFD"} ELSE {"REN"}
      /\ UNCHANGED <<trans, timedout, data, c, input, found, failed, result, tick>>
      /\ UNCHANGED <<acc, src, role, k, heard, expired, starts>>
  BY DEF InterfaceCleared, InstrumentWaits
<1>2. taken = FALSE /\ taken' = FALSE
  BY <1>1 DEF IInv, TypeOK, InstrumentTypes, ByteOut, InstrumentWaits
<1>3. TypeOK'
  <2>1. AdapterTypes'
    BY <1>1, StepFacts
       DEF IInv, TypeOK, AdapterTypes, AdapterPcs, Lines, AtStep, FailPcs
  <2>2. InstrumentTypes'
    BY <1>1, InstrumentKept DEF IInv, TypeOK, InstrumentTypes
  <2> QED
    BY <2>1, <2>2 DEF TypeOK
<1>4. AtStep'
  BY <1>1 DEF IInv, AtStep, SendPcs, ReadPcs, FailPcs
<1>5. AdapterLines'
  BY <1>1 DEF IInv, AdapterLines, SendPcs, ReadPcs, FailPcs, Talking
<1>6. ByteOut'
  BY <1>1, <1>2 DEF IInv, ByteOut
<1>7. ByteIn'
  BY <1>1, StepFacts DEF IInv, ByteIn, ReadPcs, FailPcs, GivenUp, Settled, Talking
<1>8. Untalked'
  BY <1>1, <1>2 DEF IInv, Untalked, Position
<1>9. GivenUp'
  BY <1>1, StepFacts DEF IInv, GivenUp, SendPcs, ReadPcs, FailPcs
<1> QED
  BY <1>3, <1>4, <1>5, <1>6, <1>7, <1>8, <1>9 DEF IInv

LEMMA FinishStep == IInv /\ Finish /\ InstrumentWaits => IInv'
<1> SUFFICES ASSUME IInv, Finish, InstrumentWaits PROVE IInv'
  OBVIOUS
<1>1. /\ pc = "begin" /\ pc' = "idle" /\ ~More
      /\ result' = IF timedout THEN "timedout" ELSE "ok"
      /\ drives' = IF timedout /\ trans[i - 1].quick THEN {"REN"} ELSE drives
      /\ UNCHANGED <<trans, i, n, timedout, data, c, input, found, failed, tick>>
      /\ UNCHANGED <<acc, src, role, k, heard, expired, starts>>
  BY DEF Finish, InstrumentWaits
<1>2. taken = FALSE /\ taken' = FALSE
  BY <1>1 DEF IInv, TypeOK, InstrumentTypes, ByteOut, InstrumentWaits
<1>3. TypeOK'
  <2>1. AdapterTypes'
    BY <1>1 DEF IInv, TypeOK, AdapterTypes, AdapterPcs, Lines
  <2>2. InstrumentTypes'
    BY <1>1, InstrumentKept DEF IInv, TypeOK, InstrumentTypes
  <2> QED
    BY <2>1, <2>2 DEF TypeOK
<1>4. AtStep'
  BY <1>1 DEF IInv, AtStep, SendPcs, ReadPcs, FailPcs
<1>5. AdapterLines'
  BY <1>1 DEF IInv, AdapterLines, SendPcs, ReadPcs, FailPcs, Talking, GivenUp
<1>6. ByteOut'
  BY <1>1, <1>2 DEF IInv, ByteOut
<1>7. ByteIn'
  BY <1>1 DEF IInv, ByteIn, ReadPcs, FailPcs
<1>8. Untalked'
  BY <1>1, <1>2 DEF IInv, Untalked, Position
<1>9. GivenUp'
  BY <1>1 DEF IInv, GivenUp, SendPcs, ReadPcs, FailPcs
<1> QED
  BY <1>3, <1>4, <1>5, <1>6, <1>7, <1>8, <1>9 DEF IInv

(* The wait loops: give up, wait on, or go on.                             *)
LEMMA GiveUpStep ==
  ASSUME IInv, pc \in {"ready", "accept", "valid", "unvalid"},
         GivesUp, GiveUp, PollUsesTick, UNCHANGED <<trans, found>>, InstrumentWaits
  PROVE  IInv'
<1>1. /\ pc' = "release" /\ timedout' = TRUE /\ failed' = TRUE /\ expired = TRUE
      /\ drives' = drives \ {"DAV"} /\ data' = None
      /\ tick' = FALSE
      /\ UNCHANGED <<trans, i, n, c, input, found, result>>
      /\ UNCHANGED <<acc, src, role, k, heard, expired, starts>>
  BY
     DEF GivesUp, GiveUp, PollUsesTick, IInv, TypeOK, InstrumentTypes,
         InstrumentWaits
<1>e. None \in Items
  BY OutputAssumption DEF None, Items
<1>2. taken' = FALSE
  BY <1>1 DEF InstrumentWaits
<1>a. Position' = i /\ (taken => role \notin {"talk", "tpas"} \/ trans[i].op = "cmd")
  BY <1>1, <1>2
     DEF IInv, AtStep, AdapterLines, ByteOut, Position, SendPcs, Accepting,
         InstrumentTypes, TypeOK
<1>3. TypeOK'
  <2>1. AdapterTypes'
    BY <1>1, <1>e DEF IInv, TypeOK, AdapterTypes, AdapterPcs, Lines
  <2>2. InstrumentTypes'
    BY <1>1, InstrumentKept DEF IInv, TypeOK, InstrumentTypes
  <2> QED
    BY <2>1, <2>2 DEF TypeOK
<1>4. AtStep'
  BY <1>1 DEF IInv, AtStep, SendPcs, ReadPcs, FailPcs
<1>5. AdapterLines'
  BY <1>1 DEF IInv, AdapterLines, SendPcs, ReadPcs, FailPcs, Talking
<1>6. ByteOut'
  BY <1>1, <1>2 DEF IInv, ByteOut
<1>7. ByteIn'
  BY <1>1 DEF IInv, ByteIn, ReadPcs, FailPcs
<1>8. Untalked'
  BY <1>1, StepFacts, <1>a, <1>2 DEF IInv, Untalked, Position
<1>9. GivenUp'
  BY <1>1 DEF IInv, GivenUp, SendPcs, ReadPcs, FailPcs
<1> QED
  BY <1>3, <1>4, <1>5, <1>6, <1>7, <1>8, <1>9 DEF IInv

LEMMA WaitStep ==
  ASSUME IInv, UNCHANGED adapter, tick' \in BOOLEAN, InstrumentWaits
  PROVE  IInv'
<1>1. taken' = taken /\ UNCHANGED <<acc, src, role, k, heard, expired, starts>>
  BY DEF InstrumentWaits, adapter, IInv, TypeOK, InstrumentTypes
<1>2. UNCHANGED <<pc, trans, i, n, timedout, drives, data, c, input, found,
                  failed, result>>
  BY DEF adapter
<1>3. TypeOK'
  <2>1. AdapterTypes'
    BY <1>2 DEF IInv, TypeOK, AdapterTypes
  <2>2. InstrumentTypes'
    BY InstrumentKept DEF IInv
  <2> QED
    BY <2>1, <2>2 DEF TypeOK
<1>4. AtStep' /\ AdapterLines' /\ GivenUp'
  BY <1>1, <1>2 DEF IInv, AtStep, AdapterLines, GivenUp, Talking
<1>5. ByteOut' /\ ByteIn'
  BY <1>1, <1>2 DEF IInv, ByteOut, ByteIn, Accepting
<1>6. Untalked'
  BY <1>1, <1>2 DEF IInv, Untalked, Position
<1> QED
  BY <1>3, <1>4, <1>5, <1>6 DEF IInv

LEMMA PollReadyStep == IInv /\ PollReady /\ InstrumentWaits => IInv'
<1> SUFFICES ASSUME IInv, PollReady, InstrumentWaits PROVE IInv'
  OBVIOUS
<1>g. CASE GivesUp
  BY <1>g, GiveUpStep DEF PollReady
<1>w. CASE ~GivesUp /\ Low("NRFD")
  BY <1>w, WaitStep, PollsAgain DEF PollReady, adapter, PollUsesTick, IInv, GivenUp
<1> SUFFICES ASSUME ~GivesUp, ~(Low("NRFD")) PROVE IInv'
  BY <1>g, <1>w
<1>1. /\ pc = "ready" /\ pc' = "accept"
      /\ drives' = drives \cup {"DAV"} /\ timedout' = FALSE
      /\ tick' = FALSE
      /\ UNCHANGED <<trans, i, n, data, c, input, found, failed, result>>
      /\ UNCHANGED <<acc, src, role, k, heard, expired, starts>>
  BY DEF PollReady, PollUsesTick, InstrumentWaits
<1>2. taken = FALSE /\ taken' = FALSE
  BY <1>1 DEF IInv, TypeOK, InstrumentTypes, ByteOut, InstrumentWaits
<1>a. failed = FALSE /\ timedout = FALSE
  BY <1>1, PollsAgain DEF IInv, GivenUp
<1>b. role # "off" /\ acc \in {"AIDS", "ACRS"}
  BY <1>1 DEF Low, InstrumentLow, IInv, TypeOK, InstrumentTypes
<1>3. TypeOK'
  <2>1. AdapterTypes'
    BY <1>1 DEF IInv, TypeOK, AdapterTypes, AdapterPcs, Lines
  <2>2. InstrumentTypes'
    BY <1>1, InstrumentKept DEF IInv, TypeOK, InstrumentTypes
  <2> QED
    BY <2>1, <2>2 DEF TypeOK
<1>4. AtStep'
  BY <1>1 DEF IInv, AtStep, SendPcs, ReadPcs, FailPcs
<1>5. AdapterLines'
  BY <1>1 DEF IInv, AdapterLines, SendPcs, ReadPcs, FailPcs, Talking
<1>6. ByteOut'
  BY <1>1, <1>2, <1>b DEF IInv, ByteOut, Accepting
<1>7. ByteIn'
  BY <1>1 DEF IInv, ByteIn, ReadPcs, FailPcs
<1>8. Untalked'
  BY <1>1, <1>2 DEF IInv, Untalked, Position
<1>9. GivenUp'
  BY <1>1, <1>a DEF IInv, GivenUp, SendPcs, ReadPcs, FailPcs
<1> QED
  BY <1>3, <1>4, <1>5, <1>6, <1>7, <1>8, <1>9 DEF IInv

LEMMA PollAcceptStep == IInv /\ PollAccept /\ InstrumentWaits => IInv'
<1> SUFFICES ASSUME IInv, PollAccept, InstrumentWaits PROVE IInv'
  OBVIOUS
<1>g. CASE GivesUp
  BY <1>g, GiveUpStep DEF PollAccept
<1>w. CASE ~GivesUp /\ Low("NDAC")
  BY <1>w, WaitStep, PollsAgain DEF PollAccept, adapter, PollUsesTick, IInv, GivenUp
<1> SUFFICES ASSUME ~GivesUp, ~(Low("NDAC")) PROVE IInv'
  BY <1>g, <1>w
<1>1. /\ pc = "accept" /\ pc' = "begin" /\ i' = i + 1
      /\ drives' = drives \ {"DAV", "EOI"} /\ data' = None /\ timedout' = FALSE
      /\ tick' = FALSE
      /\ UNCHANGED <<trans, n, c, input, found, failed, result>>
      /\ UNCHANGED <<acc, src, role, k, heard, expired, starts>>
  BY DEF PollAccept, PollUsesTick, InstrumentWaits
<1>2. taken' = FALSE
  BY <1>1 DEF InstrumentWaits
<1>a. failed = FALSE /\ timedout = FALSE
  BY <1>1, PollsAgain DEF IInv, GivenUp
<1>b. role # "off" /\ acc \in {"AIDS", "AWNS"}
  BY <1>1 DEF Low, InstrumentLow, IInv, TypeOK, InstrumentTypes
<1>c. i <= Len(trans) /\ trans[i].op \in {"cmd", "data"}
  BY <1>1 DEF IInv, AtStep, SendPcs
<1>e. None \in Items
  BY OutputAssumption DEF None, Items
<1>f. n' = 0 /\ i' \in 1..(Len(trans') + 1) /\ drives' \subseteq Lines /\ data' \in Items
      /\ pc' = "begin" /\ timedout' = FALSE /\ UNCHANGED <<trans, c, input, found, failed, result>>
  BY <1>1, <1>c, <1>e, StepFacts DEF IInv, TypeOK, AdapterTypes, AtStep
<1>d. ~taken => trans[i].byte # "UNT"
  BY <1>1, <1>b, <1>c, StepFacts DEF IInv, ByteOut, AdapterLines, SendPcs, Accepting
<1>3. TypeOK'
  <2>1. AdapterTypes'
    <3>1. /\ pc' \in AdapterPcs /\ trans' \in Transactions \cup {<<>>}
          /\ i' \in 1..(Len(trans') + 1)
          /\ n' \in Nat /\ (n' > 0 => i' <= Len(trans') /\ n' < trans'[i'].max)
      BY <1>f DEF IInv, TypeOK, AdapterTypes, AdapterPcs
    <3>2. /\ timedout' \in BOOLEAN /\ failed' \in BOOLEAN /\ found' \in BOOLEAN
          /\ result' \in {"none", "busy", "ok", "timedout"}
          /\ {data', c'} \subseteq Items /\ input' \in Seq(Items)
      BY <1>f DEF IInv, TypeOK, AdapterTypes
    <3> QED
      BY <1>f, <3>1, <3>2 DEF AdapterTypes
  <2>2. InstrumentTypes'
    BY <1>1, InstrumentKept DEF IInv, TypeOK, InstrumentTypes
  <2> QED
    BY <2>1, <2>2 DEF TypeOK
<1>4. AtStep'
  BY <1>1, <1>c, StepFacts DEF IInv, AtStep, SendPcs, ReadPcs, FailPcs
<1>5. AdapterLines'
  BY <1>1, <1>c, StepFacts
     DEF IInv, AdapterLines, SendPcs, ReadPcs, FailPcs, Talking
<1>6. ByteOut'
  BY <1>1, <1>2 DEF IInv, ByteOut
<1>7. ByteIn'
  BY <1>1 DEF IInv, ByteIn, ReadPcs, FailPcs
<1>8. Untalked'
  BY <1>1, StepFacts, <1>d, <1>2 DEF IInv, Untalked, Position
<1>9. GivenUp'
  BY <1>1, <1>a, StepFacts DEF IInv, GivenUp, SendPcs, ReadPcs, FailPcs
<1> QED
  BY <1>3, <1>4, <1>5, <1>6, <1>7, <1>8, <1>9 DEF IInv

LEMMA PollValidStep == IInv /\ PollValid /\ InstrumentWaits => IInv'
<1> SUFFICES ASSUME IInv, PollValid, InstrumentWaits PROVE IInv'
  OBVIOUS
<1>g. CASE GivesUp
  BY <1>g, GiveUpStep DEF PollValid
<1>w. CASE ~GivesUp /\ ~Low("DAV")
  BY <1>w, WaitStep, PollsAgain DEF PollValid, adapter, PollUsesTick, IInv, GivenUp
<1> SUFFICES ASSUME ~GivesUp, ~(~Low("DAV")) PROVE IInv'
  BY <1>g, <1>w
<1>1. /\ pc = "valid" /\ pc' = "sampled" /\ Settled
      /\ drives' = drives \cup {"NRFD"} /\ c' = OnTheLines
      /\ tick' = FALSE
      /\ UNCHANGED <<trans, i, n, timedout, data, input, found, failed, result>>
      /\ UNCHANGED <<acc, src, role, k, heard, expired, starts>>
  BY DEF PollValid, PollUsesTick, InstrumentWaits
<1>2. taken = FALSE /\ taken' = FALSE
  BY <1>1 DEF IInv, TypeOK, InstrumentTypes, ByteOut, InstrumentWaits
<1>a. failed = FALSE /\ timedout = FALSE
  BY <1>1 DEF IInv, GivenUp, ReadPcs, FailPcs, TypeOK, AdapterTypes
<1>b. role = "off" \/ src = "STRS"
  BY <1>1 DEF Low, InstrumentLow, IInv, AdapterLines
<1>c. role # "off" => role = "talk" /\ k = Len(input) + 1 /\ k <= Len(Output) /\ c' = Output[k]
  BY <1>1, <1>a, <1>b DEF IInv, ByteIn, Settled, Talking, OnTheLines
<1>d. c' \in Items
  <2>1. CASE role = "off"
    BY <1>1, <2>1, OutputAssumption DEF OnTheLines, Items
  <2>2. CASE role # "off"
    <3>1. k \in 1..Len(Output)
      BY <1>c, <2>2, OutputAssumption DEF IInv, TypeOK, InstrumentTypes
    <3> QED
      BY <1>c, <2>2, <3>1, OutputAssumption
  <2> QED
    BY <2>1, <2>2
<1>3. TypeOK'
  <2>1. AdapterTypes'
    BY <1>1, <1>d DEF IInv, TypeOK, AdapterTypes, AdapterPcs, Lines
  <2>2. InstrumentTypes'
    BY <1>1, InstrumentKept DEF IInv, TypeOK, InstrumentTypes
  <2> QED
    BY <2>1, <2>2 DEF TypeOK
<1>4. AtStep'
  BY <1>1 DEF IInv, AtStep, SendPcs, ReadPcs, FailPcs
<1>5. AdapterLines'
  BY <1>1 DEF IInv, AdapterLines, SendPcs, ReadPcs, FailPcs, Talking
<1>6. ByteOut'
  BY <1>1, <1>2 DEF IInv, ByteOut
<1>7. ByteIn'
  BY <1>1, <1>b, <1>c, OutputAssumption DEF IInv, ByteIn, ReadPcs, FailPcs
<1>8. Untalked'
  BY <1>1, <1>2 DEF IInv, Untalked, Position
<1>9. GivenUp'
  BY <1>1, <1>a DEF IInv, GivenUp, SendPcs, ReadPcs, FailPcs
<1> QED
  BY <1>3, <1>4, <1>5, <1>6, <1>7, <1>8, <1>9 DEF IInv

LEMMA PollUnvalidStep == IInv /\ PollUnvalid /\ InstrumentWaits => IInv'
<1> SUFFICES ASSUME IInv, PollUnvalid, InstrumentWaits PROVE IInv'
  OBVIOUS
<1>g. CASE GivesUp
  BY <1>g, GiveUpStep DEF PollUnvalid
<1>w. CASE ~GivesUp /\ Low("DAV")
  BY <1>w, WaitStep, PollsAgain
     DEF PollUnvalid, adapter, PollUsesTick, IInv, GivenUp
<1> SUFFICES ASSUME ~GivesUp, ~(Low("DAV")) PROVE IInv'
  BY <1>g, <1>w
<1>1. /\ pc = "unvalid" /\ pc' = "begin"
      /\ input' = Append(input, c) /\ timedout' = FALSE /\ drives' = drives
      /\ \/ i' = i + 1 /\ n' = 0
         \/ i' = i /\ n' = n + 1 /\ n + 1 # trans[i].max
      /\ tick' = FALSE
      /\ UNCHANGED <<trans, data, c, found, failed, result>>
      /\ UNCHANGED <<acc, src, role, k, heard, expired, starts>>
  BY DEF PollUnvalid, Full, PollUsesTick, InstrumentWaits
<1>2. taken = FALSE /\ taken' = FALSE
  BY <1>1 DEF IInv, TypeOK, InstrumentTypes, ByteOut, InstrumentWaits
<1>a. failed = FALSE /\ timedout = FALSE
  BY <1>1 DEF IInv, GivenUp, ReadPcs, FailPcs, TypeOK, AdapterTypes
<1>b. role # "off" /\ src # "STRS"
  BY <1>1 DEF Low, InstrumentLow, IInv, AdapterLines
<1>c. i <= Len(trans) /\ trans[i].op = "read"
  BY <1>1 DEF IInv, AtStep, ReadPcs
<1>e. input' \in Seq(Items)
  BY <1>1 DEF IInv, TypeOK, AdapterTypes
<1>d. /\ i' \in 1..(Len(trans) + 1) /\ n' \in Nat
      /\ n' > 0 => i' <= Len(trans) /\ n' < trans[i'].max
  <2>1. i \in Nat /\ i > 0 /\ Len(trans) \in Nat /\ trans[i].max \in Nat /\ trans[i].max > 0
    BY <1>c, StepFacts DEF Steps, IInv
  <2>2. n \in Nat /\ (n > 0 => n < trans[i].max)
    BY DEF IInv, TypeOK, AdapterTypes
  <2> QED
    BY <1>1, <1>c, <2>1, <2>2
<1>3. TypeOK'
  <2>1. AdapterTypes'
    BY <1>1, <1>d, <1>e DEF IInv, TypeOK, AdapterTypes, AdapterPcs, Lines
  <2>2. InstrumentTypes'
    BY <1>1, InstrumentKept DEF IInv, TypeOK, InstrumentTypes
  <2> QED
    BY <2>1, <2>2 DEF TypeOK
<1>4. AtStep'
  BY <1>1, <1>c, StepFacts DEF IInv, AtStep, SendPcs, ReadPcs, FailPcs
<1>5. AdapterLines'
  BY <1>1, <1>c, StepFacts
     DEF IInv, AdapterLines, SendPcs, ReadPcs, FailPcs, Talking, AtStep
<1>6. ByteOut'
  BY <1>1, <1>2 DEF IInv, ByteOut
<1>7. ByteIn'
  BY <1>1, <1>a, <1>b DEF IInv, ByteIn, ReadPcs, FailPcs, TypeOK, AdapterTypes
<1>8. Untalked'
  BY <1>1, <1>2, StepFacts, <1>c DEF IInv, Untalked, Position
<1>9. GivenUp'
  BY <1>1, <1>a, StepFacts DEF IInv, GivenUp, SendPcs, ReadPcs, FailPcs
<1> QED
  BY <1>3, <1>4, <1>5, <1>6, <1>7, <1>8, <1>9 DEF IInv

-----------------------------------------------------------------------------
(* The instrument and the environment.                                     *)
LEMMA AcceptorIdleStep ==
  ASSUME IInv, AcceptorIdle,
         UNCHANGED adapter, UNCHANGED <<src, role, k, taken, heard, expired, tick, starts>>
  PROVE  IInv'
<1>1. /\ UNCHANGED <<pc, trans, i, n, timedout, drives, data, c, input, found,
                     failed, result>>
      /\ UNCHANGED <<src, role, k, taken, heard, expired, tick, starts>>
      /\ acc # "AIDS" /\ acc' = "AIDS" /\ ~Accepting
  BY DEF adapter, AcceptorIdle
<1>3. TypeOK'
  <2>1. AdapterTypes'
    BY <1>1 DEF IInv, TypeOK, AdapterTypes
  <2>2. InstrumentTypes'
    BY <1>1 DEF IInv, TypeOK, InstrumentTypes
  <2> QED
    BY <2>1, <2>2 DEF TypeOK
<1>4. AtStep'
  BY <1>1 DEF IInv, AtStep
<1>5. AdapterLines'
  BY <1>1 DEF IInv, AdapterLines, Talking
<1>6. ByteOut'
  BY <1>1 DEF IInv, ByteOut, Accepting
<1>7. ByteIn'
  BY <1>1 DEF IInv, ByteIn, SendPcs, ReadPcs, FailPcs
<1>8. Untalked'
  BY <1>1 DEF IInv, Untalked, Position
<1>9. GivenUp'
  BY <1>1 DEF IInv, GivenUp, SendPcs, ReadPcs, FailPcs
<1> QED
  BY <1>3, <1>4, <1>5, <1>6, <1>7, <1>8, <1>9 DEF IInv

LEMMA AcceptorBusyStep ==
  ASSUME IInv, AcceptorBusy,
         UNCHANGED adapter, UNCHANGED <<src, role, k, taken, heard, expired, tick, starts>>
  PROVE  IInv'
<1>1. /\ UNCHANGED <<pc, trans, i, n, timedout, drives, data, c, input, found,
                     failed, result>>
      /\ UNCHANGED <<src, role, k, taken, heard, expired, tick, starts>>
      /\ acc = "AIDS" /\ acc' = "ANRS" /\ Accepting
  BY DEF adapter, AcceptorBusy
<1>3. TypeOK'
  <2>1. AdapterTypes'
    BY <1>1 DEF IInv, TypeOK, AdapterTypes
  <2>2. InstrumentTypes'
    BY <1>1 DEF IInv, TypeOK, InstrumentTypes
  <2> QED
    BY <2>1, <2>2 DEF TypeOK
<1>4. AtStep'
  BY <1>1 DEF IInv, AtStep
<1>5. AdapterLines'
  BY <1>1 DEF IInv, AdapterLines, Talking
<1>6. ByteOut'
  BY <1>1 DEF IInv, ByteOut, Accepting
<1>7. ByteIn'
  BY <1>1 DEF IInv, ByteIn, SendPcs, ReadPcs, FailPcs, Accepting
<1>8. Untalked'
  BY <1>1 DEF IInv, Untalked, Position
<1>9. GivenUp'
  BY <1>1 DEF IInv, GivenUp, SendPcs, ReadPcs, FailPcs
<1> QED
  BY <1>3, <1>4, <1>5, <1>6, <1>7, <1>8, <1>9 DEF IInv

LEMMA AcceptorReadyStep ==
  ASSUME IInv, AcceptorReady,
         UNCHANGED adapter, UNCHANGED <<src, role, k, taken, heard, expired, tick, starts>>
  PROVE  IInv'
<1>1. /\ UNCHANGED <<pc, trans, i, n, timedout, drives, data, c, input, found,
                     failed, result>>
      /\ UNCHANGED <<src, role, k, taken, heard, expired, tick, starts>>
      /\ acc = "ANRS" /\ acc' = "ACRS" /\ Accepting
  BY DEF adapter, AcceptorReady
<1>3. TypeOK'
  <2>1. AdapterTypes'
    BY <1>1 DEF IInv, TypeOK, AdapterTypes
  <2>2. InstrumentTypes'
    BY <1>1 DEF IInv, TypeOK, InstrumentTypes
  <2> QED
    BY <2>1, <2>2 DEF TypeOK
<1>4. AtStep'
  BY <1>1 DEF IInv, AtStep
<1>5. AdapterLines'
  BY <1>1 DEF IInv, AdapterLines, Talking
<1>6. ByteOut'
  BY <1>1 DEF IInv, ByteOut, Accepting
<1>7. ByteIn'
  BY <1>1 DEF IInv, ByteIn, SendPcs, ReadPcs, FailPcs
<1>8. Untalked'
  BY <1>1 DEF IInv, Untalked, Position
<1>9. GivenUp'
  BY <1>1 DEF IInv, GivenUp, SendPcs, ReadPcs, FailPcs
<1> QED
  BY <1>3, <1>4, <1>5, <1>6, <1>7, <1>8, <1>9 DEF IInv

LEMMA AcceptorDoneStep ==
  ASSUME IInv, AcceptorDone,
         UNCHANGED adapter, UNCHANGED <<src, role, k, taken, heard, expired, tick, starts>>
  PROVE  IInv'
<1>1. /\ UNCHANGED <<pc, trans, i, n, timedout, drives, data, c, input, found,
                     failed, result>>
      /\ UNCHANGED <<src, role, k, taken, heard, expired, tick, starts>>
      /\ acc = "ACDS" /\ acc' = "AWNS"
  BY DEF adapter, AcceptorDone
<1>3. TypeOK'
  <2>1. AdapterTypes'
    BY <1>1 DEF IInv, TypeOK, AdapterTypes
  <2>2. InstrumentTypes'
    BY <1>1 DEF IInv, TypeOK, InstrumentTypes
  <2> QED
    BY <2>1, <2>2 DEF TypeOK
<1>4. AtStep'
  BY <1>1 DEF IInv, AtStep
<1>5. AdapterLines'
  BY <1>1 DEF IInv, AdapterLines, Talking
<1>6. ByteOut'
  BY <1>1 DEF IInv, ByteOut, Accepting
<1>7. ByteIn'
  BY <1>1 DEF IInv, ByteIn, SendPcs, ReadPcs, FailPcs
<1>8. Untalked'
  BY <1>1 DEF IInv, Untalked, Position
<1>9. GivenUp'
  BY <1>1 DEF IInv, GivenUp, SendPcs, ReadPcs, FailPcs
<1> QED
  BY <1>3, <1>4, <1>5, <1>6, <1>7, <1>8, <1>9 DEF IInv

LEMMA AcceptorNextStep ==
  ASSUME IInv, AcceptorNext,
         UNCHANGED adapter, UNCHANGED <<src, role, k, taken, heard, expired, tick, starts>>
  PROVE  IInv'
<1>1. /\ UNCHANGED <<pc, trans, i, n, timedout, drives, data, c, input, found,
                     failed, result>>
      /\ UNCHANGED <<src, role, k, taken, heard, expired, tick, starts>>
      /\ acc = "AWNS" /\ acc' = "ANRS" /\ "DAV" \notin drives
  BY DEF adapter, AcceptorNext
<1>3. TypeOK'
  <2>1. AdapterTypes'
    BY <1>1 DEF IInv, TypeOK, AdapterTypes
  <2>2. InstrumentTypes'
    BY <1>1 DEF IInv, TypeOK, InstrumentTypes
  <2> QED
    BY <2>1, <2>2 DEF TypeOK
<1>4. AtStep'
  BY <1>1 DEF IInv, AtStep
<1>5. AdapterLines'
  BY <1>1 DEF IInv, AdapterLines, Talking
<1>6. ByteOut'
  BY <1>1 DEF IInv, ByteOut, Accepting, AdapterLines
<1>7. ByteIn'
  BY <1>1 DEF IInv, ByteIn, SendPcs, ReadPcs, FailPcs
<1>8. Untalked'
  BY <1>1 DEF IInv, Untalked, Position
<1>9. GivenUp'
  BY <1>1 DEF IInv, GivenUp, SendPcs, ReadPcs, FailPcs
<1> QED
  BY <1>3, <1>4, <1>5, <1>6, <1>7, <1>8, <1>9 DEF IInv

LEMMA SourceIdleStep ==
  ASSUME IInv, SourceIdle,
         UNCHANGED adapter, UNCHANGED <<acc, role, k, taken, heard, expired, tick, starts>>
  PROVE  IInv'
<1>1. /\ UNCHANGED <<pc, trans, i, n, timedout, drives, data, c, input, found,
                     failed, result>>
      /\ UNCHANGED <<acc, role, k, taken, heard, expired, tick, starts>>
      /\ ~Talking /\ src' = "SIDS"
  BY DEF adapter, SourceIdle
<1>3. TypeOK'
  <2>1. AdapterTypes'
    BY <1>1 DEF IInv, TypeOK, AdapterTypes
  <2>2. InstrumentTypes'
    BY <1>1 DEF IInv, TypeOK, InstrumentTypes
  <2> QED
    BY <2>1, <2>2 DEF TypeOK
<1>4. AtStep'
  BY <1>1 DEF IInv, AtStep
<1>5. AdapterLines'
  BY <1>1 DEF IInv, AdapterLines, Talking
<1>6. ByteOut'
  BY <1>1 DEF IInv, ByteOut, Accepting
<1>7. ByteIn'
  BY <1>1 DEF IInv, ByteIn, SendPcs, ReadPcs, FailPcs, AdapterLines, Talking
<1>8. Untalked'
  BY <1>1 DEF IInv, Untalked, Position
<1>9. GivenUp'
  BY <1>1 DEF IInv, GivenUp, SendPcs, ReadPcs, FailPcs
<1> QED
  BY <1>3, <1>4, <1>5, <1>6, <1>7, <1>8, <1>9 DEF IInv

LEMMA SourceReadyStep ==
  ASSUME IInv, SourceReady,
         UNCHANGED adapter, UNCHANGED <<acc, role, k, taken, heard, expired, tick, starts>>
  PROVE  IInv'
<1>1. /\ UNCHANGED <<pc, trans, i, n, timedout, drives, data, c, input, found,
                     failed, result>>
      /\ UNCHANGED <<acc, role, k, taken, heard, expired, tick, starts>>
      /\ src \in {"SIDS", "SGNS"} /\ Talking /\ k <= Len(Output) /\ src' = "SDYS"
  BY DEF adapter, SourceReady
<1>3. TypeOK'
  <2>1. AdapterTypes'
    BY <1>1 DEF IInv, TypeOK, AdapterTypes
  <2>2. InstrumentTypes'
    BY <1>1 DEF IInv, TypeOK, InstrumentTypes
  <2> QED
    BY <2>1, <2>2 DEF TypeOK
<1>4. AtStep'
  BY <1>1 DEF IInv, AtStep
<1>5. AdapterLines'
  BY <1>1 DEF IInv, AdapterLines, Talking
<1>6. ByteOut'
  BY <1>1 DEF IInv, ByteOut, Accepting, AdapterLines, FailPcs
<1>7. ByteIn'
  BY <1>1 DEF IInv, ByteIn, SendPcs, ReadPcs, FailPcs, AdapterLines, Talking
<1>8. Untalked'
  BY <1>1 DEF IInv, Untalked, Position
<1>9. GivenUp'
  BY <1>1 DEF IInv, GivenUp, SendPcs, ReadPcs, FailPcs
<1> QED
  BY <1>3, <1>4, <1>5, <1>6, <1>7, <1>8, <1>9 DEF IInv

LEMMA SourceValidStep ==
  ASSUME IInv, SourceValid,
         UNCHANGED adapter, UNCHANGED <<acc, role, k, taken, heard, expired, tick, starts>>
  PROVE  IInv'
<1>1. /\ UNCHANGED <<pc, trans, i, n, timedout, drives, data, c, input, found,
                     failed, result>>
      /\ UNCHANGED <<acc, role, k, taken, heard, expired, tick, starts>>
      /\ src = "SDYS" /\ Talking /\ "NRFD" \notin drives /\ src' = "STRS"
  BY DEF adapter, SourceValid, Low
<1>3. TypeOK'
  <2>1. AdapterTypes'
    BY <1>1 DEF IInv, TypeOK, AdapterTypes
  <2>2. InstrumentTypes'
    BY <1>1 DEF IInv, TypeOK, InstrumentTypes
  <2> QED
    BY <2>1, <2>2 DEF TypeOK
<1>4. AtStep'
  BY <1>1 DEF IInv, AtStep
<1>5. AdapterLines'
  BY <1>1 DEF IInv, AdapterLines, Talking
<1>6. ByteOut'
  BY <1>1 DEF IInv, ByteOut, Accepting, AdapterLines, FailPcs
<1>7. ByteIn'
  BY <1>1 DEF IInv, ByteIn, SendPcs, ReadPcs, FailPcs, AdapterLines, Talking
<1>8. Untalked'
  BY <1>1 DEF IInv, Untalked, Position
<1>9. GivenUp'
  BY <1>1 DEF IInv, GivenUp, SendPcs, ReadPcs, FailPcs
<1> QED
  BY <1>3, <1>4, <1>5, <1>6, <1>7, <1>8, <1>9 DEF IInv

LEMMA SourceSentStep ==
  ASSUME IInv, SourceSent,
         UNCHANGED adapter, UNCHANGED <<acc, role, taken, heard, expired, tick, starts>>
  PROVE  IInv'
<1>1. /\ UNCHANGED <<pc, trans, i, n, timedout, drives, data, c, input, found,
                     failed, result>>
      /\ UNCHANGED <<acc, role, taken, heard, expired, tick, starts>>
      /\ src = "STRS" /\ Talking /\ "NDAC" \notin drives /\ src' = "SGNS" /\ k' = k + 1
  BY DEF adapter, SourceSent, Low
<1>3. TypeOK'
  <2>1. AdapterTypes'
    BY <1>1 DEF IInv, TypeOK, AdapterTypes
  <2>2. InstrumentTypes'
    BY <1>1, OutputAssumption DEF IInv, TypeOK, InstrumentTypes, ByteIn
  <2> QED
    BY <2>1, <2>2 DEF TypeOK
<1>4. AtStep'
  BY <1>1 DEF IInv, AtStep
<1>5. AdapterLines'
  BY <1>1 DEF IInv, AdapterLines, Talking
<1>6. ByteOut'
  BY <1>1 DEF IInv, ByteOut, Accepting
<1>7. ByteIn'
  BY <1>1
     DEF IInv, ByteIn, SendPcs, ReadPcs, FailPcs, AdapterLines, GivenUp, TypeOK,
         InstrumentTypes, AdapterTypes
<1>8. Untalked'
  BY <1>1 DEF IInv, Untalked, Position
<1>9. GivenUp'
  BY <1>1 DEF IInv, GivenUp, SendPcs, ReadPcs, FailPcs
<1> QED
  BY <1>3, <1>4, <1>5, <1>6, <1>7, <1>8, <1>9 DEF IInv

LEMMA HearIfcStep ==
  ASSUME IInv, HearIfc,
         UNCHANGED adapter, UNCHANGED <<acc, src, k, taken, heard, expired, tick, starts>>
  PROVE  IInv'
<1>1. /\ UNCHANGED <<pc, trans, i, n, timedout, drives, data, c, input, found,
                     failed, result>>
      /\ UNCHANGED <<acc, src, k, taken, heard, expired, tick, starts>>
      /\ "IFC" \in drives /\ role' = "idle" /\ role # "off" /\ pc = "clear"
  BY DEF adapter, HearIfc, IInv, AdapterLines
<1>3. TypeOK'
  <2>1. AdapterTypes'
    BY <1>1 DEF IInv, TypeOK, AdapterTypes
  <2>2. InstrumentTypes'
    BY <1>1 DEF IInv, TypeOK, InstrumentTypes, Roles, Addressing
  <2> QED
    BY <2>1, <2>2 DEF TypeOK
<1>4. AtStep'
  BY <1>1 DEF IInv, AtStep
<1>5. AdapterLines'
  BY <1>1 DEF IInv, AdapterLines, Talking
<1>6. ByteOut'
  BY <1>1 DEF IInv, ByteOut, Accepting
<1>7. ByteIn'
  BY <1>1 DEF IInv, ByteIn, SendPcs, ReadPcs, FailPcs, GivenUp
<1>8. Untalked'
  BY <1>1 DEF IInv, Untalked, Position
<1>9. GivenUp'
  BY <1>1 DEF IInv, GivenUp, SendPcs, ReadPcs, FailPcs
<1> QED
  BY <1>3, <1>4, <1>5, <1>6, <1>7, <1>8, <1>9 DEF IInv

LEMMA OffStep ==
  ASSUME IInv, role' = "off" /\ acc' = "AIDS" /\ src' = "SIDS",
         UNCHANGED adapter, UNCHANGED <<k, taken, heard, expired, tick, starts>>
  PROVE  IInv'
<1>1. /\ UNCHANGED <<pc, trans, i, n, timedout, drives, data, c, input, found,
                     failed, result>>
      /\ UNCHANGED <<k, taken, heard, expired, tick, starts>>
      /\ role' = "off" /\ acc' = "AIDS" /\ src' = "SIDS"
  BY DEF adapter, IInv
<1>3. TypeOK'
  <2>1. AdapterTypes'
    BY <1>1 DEF IInv, TypeOK, AdapterTypes
  <2>2. InstrumentTypes'
    BY <1>1 DEF IInv, TypeOK, InstrumentTypes, Roles
  <2> QED
    BY <2>1, <2>2 DEF TypeOK
<1>4. AtStep'
  BY <1>1 DEF IInv, AtStep
<1>5. AdapterLines'
  BY <1>1 DEF IInv, AdapterLines, Talking
<1>6. ByteOut'
  BY <1>1 DEF IInv, ByteOut, Accepting
<1>7. ByteIn'
  BY <1>1 DEF IInv, ByteIn, SendPcs, ReadPcs, FailPcs
<1>8. Untalked'
  BY <1>1 DEF IInv, Untalked, Position
<1>9. GivenUp'
  BY <1>1 DEF IInv, GivenUp, SendPcs, ReadPcs, FailPcs
<1> QED
  BY <1>3, <1>4, <1>5, <1>6, <1>7, <1>8, <1>9 DEF IInv

LEMMA ExpireStep ==
  ASSUME IInv, expired' = TRUE,
         UNCHANGED adapter, UNCHANGED <<acc, src, role, k, taken, heard, tick, starts>>
  PROVE  IInv'
<1>1. /\ UNCHANGED <<pc, trans, i, n, timedout, drives, data, c, input, found,
                     failed, result>>
      /\ UNCHANGED <<acc, src, role, k, taken, heard, tick, starts>>
      /\ expired' = TRUE
  BY DEF adapter, IInv
<1>3. TypeOK'
  <2>1. AdapterTypes'
    BY <1>1 DEF IInv, TypeOK, AdapterTypes
  <2>2. InstrumentTypes'
    BY <1>1 DEF IInv, TypeOK, InstrumentTypes
  <2> QED
    BY <2>1, <2>2 DEF TypeOK
<1>4. AtStep'
  BY <1>1 DEF IInv, AtStep
<1>5. AdapterLines'
  BY <1>1 DEF IInv, AdapterLines, Talking
<1>6. ByteOut'
  BY <1>1 DEF IInv, ByteOut, Accepting
<1>7. ByteIn'
  BY <1>1 DEF IInv, ByteIn, SendPcs, ReadPcs, FailPcs
<1>8. Untalked'
  BY <1>1 DEF IInv, Untalked, Position
<1>9. GivenUp'
  BY <1>1 DEF IInv, GivenUp, SendPcs, ReadPcs, FailPcs
<1> QED
  BY <1>3, <1>4, <1>5, <1>6, <1>7, <1>8, <1>9 DEF IInv

LEMMA TickStep ==
  ASSUME IInv, tick' = TRUE,
         UNCHANGED adapter, UNCHANGED <<acc, src, role, k, taken, heard, expired, starts>>
  PROVE  IInv'
<1>1. /\ UNCHANGED <<pc, trans, i, n, timedout, drives, data, c, input, found,
                     failed, result>>
      /\ UNCHANGED <<acc, src, role, k, taken, heard, expired, starts>>
      /\ tick' = TRUE
  BY DEF adapter, IInv
<1>3. TypeOK'
  <2>1. AdapterTypes'
    BY <1>1 DEF IInv, TypeOK, AdapterTypes
  <2>2. InstrumentTypes'
    BY <1>1 DEF IInv, TypeOK, InstrumentTypes
  <2> QED
    BY <2>1, <2>2 DEF TypeOK
<1>4. AtStep'
  BY <1>1 DEF IInv, AtStep
<1>5. AdapterLines'
  BY <1>1 DEF IInv, AdapterLines, Talking
<1>6. ByteOut'
  BY <1>1 DEF IInv, ByteOut, Accepting
<1>7. ByteIn'
  BY <1>1 DEF IInv, ByteIn, SendPcs, ReadPcs, FailPcs
<1>8. Untalked'
  BY <1>1 DEF IInv, Untalked, Position
<1>9. GivenUp'
  BY <1>1 DEF IInv, GivenUp, SendPcs, ReadPcs, FailPcs
<1> QED
  BY <1>3, <1>4, <1>5, <1>6, <1>7, <1>8, <1>9 DEF IInv

LEMMA StutterStep ==
  ASSUME IInv,
         UNCHANGED adapter, UNCHANGED <<acc, src, role, k, taken, heard, expired, tick, starts>>
  PROVE  IInv'
<1>1. /\ UNCHANGED <<pc, trans, i, n, timedout, drives, data, c, input, found,
                     failed, result>>
      /\ UNCHANGED <<acc, src, role, k, taken, heard, expired, tick, starts>>
  BY DEF adapter, IInv
<1>3. TypeOK'
  <2>1. AdapterTypes'
    BY <1>1 DEF IInv, TypeOK, AdapterTypes
  <2>2. InstrumentTypes'
    BY <1>1 DEF IInv, TypeOK, InstrumentTypes
  <2> QED
    BY <2>1, <2>2 DEF TypeOK
<1>4. AtStep'
  BY <1>1 DEF IInv, AtStep
<1>5. AdapterLines'
  BY <1>1 DEF IInv, AdapterLines, Talking
<1>6. ByteOut'
  BY <1>1 DEF IInv, ByteOut, Accepting
<1>7. ByteIn'
  BY <1>1 DEF IInv, ByteIn, SendPcs, ReadPcs, FailPcs
<1>8. Untalked'
  BY <1>1 DEF IInv, Untalked, Position
<1>9. GivenUp'
  BY <1>1 DEF IInv, GivenUp, SendPcs, ReadPcs, FailPcs
<1> QED
  BY <1>3, <1>4, <1>5, <1>6, <1>7, <1>8, <1>9 DEF IInv

(* A command byte at an instrument that has power.                         *)
LEMMA HearFacts ==
  ASSUME NEW cmd, NEW a \in Roles, a # "off"
  PROVE  /\ HearByte(cmd, a) \in Roles /\ HearByte(cmd, a) # "off"
         /\ cmd = "SAG" /\ a = "idle" => HearByte(cmd, a) = "idle"
         /\ cmd = "UNT" => HearByte(cmd, a) \notin {"talk", "tpas"}
         /\ HearByte(cmd, a) \in {"talk", "tpas"} =>
              a \in {"talk", "tpas"} \/ cmd \in {"TAG", "PTAG"}
<1> DEFINE b == IF a \in {"lpas", "tpas"} THEN "idle" ELSE a
<1>1. /\ Transfer!Hear(cmd, b) \in {"listen", "talk", "idle"}
      /\ cmd = "SAG" /\ b = "idle" => Transfer!Hear(cmd, b) = "idle"
      /\ cmd = "UNT" => Transfer!Hear(cmd, b) # "talk"
      /\ Transfer!Hear(cmd, b) = "talk" => a = "talk" \/ cmd = "TAG"
  BY DEF Transfer!Hear, Roles, Addressing
<1>2. HearByte(cmd, a) = CASE cmd = "PLAG" -> "lpas"
                           [] cmd = "PTAG" -> "tpas"
                           [] cmd = "SAG" /\ a = "lpas" -> "listen"
                           [] cmd = "SAG" /\ a = "tpas" -> "talk"
                           [] OTHER -> Transfer!Hear(cmd, b)
  BY DEF HearByte, Transfer!HearByte
<1> QED
  BY <1>1, <1>2 DEF Roles, Addressing

LEMMA TakeStep ==
  ASSUME IInv, Take, UNCHANGED adapter, UNCHANGED <<expired, tick, starts>>
  PROVE  IInv'
<1>1. /\ UNCHANGED <<pc, trans, i, n, timedout, drives, data, c, input, found,
                     failed, result>>
      /\ UNCHANGED <<src, k, expired, tick, starts>>
      /\ acc = "ACRS" /\ Accepting /\ acc' = "ACDS" /\ taken' = TRUE
      /\ pc = "accept" /\ taken = FALSE /\ role # "off"
      /\ i <= Len(trans) /\ trans[i].op \in {"cmd", "data"}
      /\ data = [byte |-> trans[i].byte, eoi |-> trans[i].eoi]
  BY DEF adapter, Take, Accepting, IInv, AdapterLines, AtStep, SendPcs, ByteOut,
         TypeOK, InstrumentTypes
<1>2. \/ /\ trans[i].op = "cmd" /\ "ATN" \in drives
         /\ role' = HearByte(trans[i].byte, role) /\ heard' = heard
      \/ /\ trans[i].op = "data" /\ "ATN" \notin drives /\ role = "listen" /\ role' = role
         /\ heard' = Append(heard, [byte |-> trans[i].byte, eoi |-> "EOI" \in drives])
  BY <1>1 DEF Take, Accepting, IInv, AdapterLines, SendPcs
<1>a. role \in Roles /\ role' \in Roles /\ role' # "off"
  BY <1>1, <1>2, HearFacts DEF IInv, TypeOK, InstrumentTypes
<1>b. heard' \in Seq(Items)
  <2>1. trans[i].byte \in ByteNames
    BY <1>1, StepFacts DEF IInv, Steps
  <2>2. [byte |-> trans[i].byte, eoi |-> "EOI" \in drives] \in Items
    BY <2>1 DEF Items
  <2> QED
    BY <1>2, <2>2 DEF IInv, TypeOK, InstrumentTypes
<1>3. TypeOK'
  <2>1. AdapterTypes'
    BY <1>1 DEF IInv, TypeOK, AdapterTypes
  <2>2. InstrumentTypes'
    BY <1>1, <1>a, <1>b DEF IInv, TypeOK, InstrumentTypes
  <2> QED
    BY <2>1, <2>2 DEF TypeOK
<1>4. AtStep'
  BY <1>1 DEF IInv, AtStep
<1>5. AdapterLines'
  BY <1>1, <1>2 DEF IInv, AdapterLines, Talking
<1>6. ByteOut'
  BY <1>1, <1>2, <1>a DEF IInv, ByteOut, Accepting
<1>7. ByteIn'
  BY <1>1, <1>a DEF IInv, ByteIn, ReadPcs, FailPcs
<1>8. Untalked'
  <2> SUFFICES ASSUME role' \in {"talk", "tpas"},
                      NEW j \in (i + 1)..Len(trans), trans[j].op \in {"data", "probe"}
               PROVE  \E m \in (i + 1)..(j - 1) : trans[m].byte = "UNT"
    BY <1>1 DEF Untalked, Position
  <2>1. trans[i].op = "cmd" /\ role' = HearByte(trans[i].byte, role)
    BY <1>2
  <2>2. j \in 1..Len(trans) /\ i \in 1..(j - 1) /\ i \in Nat
    BY <1>1, StepFacts DEF IInv
  <2>3. trans[i].byte \notin {"TAG", "PTAG", "UNT"} /\ role \in {"talk", "tpas"}
    BY <1>1, <1>a, <2>1, <2>2, HearFacts, StepFacts DEF IInv
  <2>4. PICK m \in i..(j - 1) : trans[m].byte = "UNT"
    BY <1>1, <2>2, <2>3 DEF IInv, Untalked, Position
  <2> QED
    BY <2>2, <2>3, <2>4
<1>9. GivenUp'
  BY <1>1, <1>2, HearFacts
     DEF IInv, GivenUp, SendPcs, ReadPcs, FailPcs, Roles, Addressing
<1> QED
  BY <1>3, <1>4, <1>5, <1>6, <1>7, <1>8, <1>9 DEF IInv

LEMMA StartStep == IInv /\ Start => IInv'
<1> SUFFICES ASSUME IInv, Start PROVE IInv'
  OBVIOUS
<1>1. /\ pc = "idle" /\ starts < MaxStarts /\ pc' = "begin"
      /\ trans' \in Transactions /\ CanStart(trans')
      /\ i' = 1 /\ n' = 0 /\ timedout' = FALSE /\ failed' = FALSE /\ result' = "busy"
      /\ expired' = FALSE /\ heard' = <<>> /\ starts' = starts + 1
      /\ UNCHANGED <<drives, data, c, tick, src, taken, found>>
  BY DEF Start
<1>2. /\ role = "talk" => input' = input /\ k' = k
      /\ role # "talk" => input' = <<>> /\ k' = 1
      /\ role = "off" => role' = "idle" /\ acc' = IF "ATN" \in drives THEN "ANRS" ELSE acc
      /\ role # "off" => role' = role /\ acc' = acc
  BY DEF Start
<1>3. TypeOK'
  <2>1. AdapterTypes'
    <3>1. trans' \in Seq(Steps)
      BY <1>1, TransactionsAssumption
    <3>2. input' \in Seq(Items)
      <4>1. CASE role = "talk"
        BY <1>2, <4>1 DEF IInv, TypeOK, AdapterTypes
      <4>2. CASE role # "talk"
        BY <1>2, <4>2
      <4> QED
        BY <4>1, <4>2
    <3>3. /\ pc' \in AdapterPcs /\ i' \in 1..(Len(trans') + 1)
          /\ n' \in Nat /\ ~(n' > 0)
      BY <1>1, <3>1 DEF AdapterPcs
    <3> QED
      BY <1>1, <3>2, <3>3 DEF IInv, TypeOK, AdapterTypes
  <2>2. InstrumentTypes'
    <3>1. k' \in 1..(Len(Output) + 1)
      BY <1>2, OutputAssumption DEF IInv, TypeOK, InstrumentTypes
    <3>2. starts' \in 0..MaxStarts /\ heard' \in Seq(Items)
      BY <1>1, OutputAssumption DEF IInv, TypeOK, InstrumentTypes
    <3> QED
      BY <1>1, <1>2, <3>1, <3>2 DEF IInv, TypeOK, InstrumentTypes, Roles, Addressing
  <2> QED
    BY <2>1, <2>2 DEF TypeOK
<1>4. AtStep'
  BY <1>1 DEF AtStep, SendPcs, ReadPcs, FailPcs
<1>5. AdapterLines'
  BY <1>1, <1>2 DEF IInv, AdapterLines, Talking, SendPcs, ReadPcs, FailPcs
<1>6. ByteOut'
  BY <1>1 DEF IInv, ByteOut
<1>7. ByteIn'
  BY <1>1, <1>2, OutputAssumption
     DEF IInv, ByteIn, GivenUp, ReadPcs, FailPcs, TypeOK, InstrumentTypes
<1>8. Untalked'
  BY <1>1, <1>2 DEF IInv, Untalked, Position, CanStart, ByteOut
<1>9. GivenUp'
  BY <1>1 DEF GivenUp, FailPcs
<1> QED
  BY <1>3, <1>4, <1>5, <1>6, <1>7, <1>8, <1>9 DEF IInv

-----------------------------------------------------------------------------
(* The invariant.                                                          *)
LEMMA Initial == Init => IInv
<1> SUFFICES ASSUME Init PROVE IInv
  OBVIOUS
<1>1. AdapterTypes
  <2>1. None \in Items
    BY OutputAssumption DEF None, Items
  <2>2. /\ pc \in AdapterPcs /\ trans \in Transactions \cup {<<>>}
        /\ i \in 1..(Len(trans) + 1) /\ n \in Nat /\ ~(n > 0)
        /\ drives \subseteq Lines
    BY DEF Init, AdapterPcs, Lines
  <2>3. {data, c} \subseteq Items /\ input \in Seq(Items)
    BY <2>1 DEF Init
  <2> QED
    BY <2>2, <2>3 DEF Init, AdapterTypes
<1>2. InstrumentTypes
  <2>1. k \in 1..(Len(Output) + 1) /\ starts \in 0..MaxStarts
    BY OutputAssumption DEF Init
  <2>2. heard \in Seq(Items)
    BY DEF Init
  <2> QED
    BY <2>1, <2>2 DEF Init, InstrumentTypes, Roles, Addressing
<1>3. AtStep /\ AdapterLines
  BY DEF Init, AtStep, AdapterLines, SendPcs, ReadPcs, FailPcs, Talking
<1>4. ByteOut /\ ByteIn
  BY OutputAssumption DEF Init, ByteOut, ByteIn, ReadPcs, FailPcs
<1>5. Untalked /\ GivenUp
  BY DEF Init, Untalked, GivenUp, SendPcs, ReadPcs, FailPcs
<1> QED
  BY <1>1, <1>2, <1>3, <1>4, <1>5 DEF IInv, TypeOK

LEMMA AdapterStep == IInv /\ Adapter => IInv'
<1> SUFFICES ASSUME IInv, Adapter PROVE IInv'
  OBVIOUS
<1>1. InstrumentWaits
  BY DEF Adapter, InstrumentWaits
<1> QED
  BY <1>1, SetAtnStep, DriveStep, PollReadyStep, PollAcceptStep, OpenReadStep,
     ReadyForDataStep, PollValidStep, AcceptStep, PollUnvalidStep, PullNdacStep,
     ReleaseAtnStep, LookAtNdacStep, RecoverStep, InterfaceClearedStep, FinishStep
     DEF Adapter

LEMMA ReactsStep == IInv /\ Reacts => IInv'
<1> SUFFICES ASSUME IInv, Reacts PROVE IInv'
  OBVIOUS
<1>1. CASE AcceptorIdle
  BY <1>1, AcceptorIdleStep DEF Reacts, AcceptorIdle
<1>2. CASE AcceptorBusy
  BY <1>2, AcceptorBusyStep DEF Reacts, AcceptorBusy
<1>3. CASE AcceptorNext
  BY <1>3, AcceptorNextStep DEF Reacts, AcceptorNext
<1>4. CASE SourceIdle
  BY <1>4, SourceIdleStep DEF Reacts, SourceIdle
<1>5. CASE HearIfc
  BY <1>5, HearIfcStep DEF Reacts, HearIfc
<1> QED
  BY <1>1, <1>2, <1>3, <1>4, <1>5 DEF Reacts

LEMMA ProceedsStep == IInv /\ Proceeds => IInv'
<1> SUFFICES ASSUME IInv, Proceeds PROVE IInv'
  OBVIOUS
<1>1. UNCHANGED adapter /\ UNCHANGED <<expired, tick, starts>>
  BY DEF Proceeds
<1>2. CASE (AcceptorReady \/ AcceptorDone) /\ UNCHANGED <<src, role, k, taken, heard>>
  BY <1>1, <1>2, AcceptorReadyStep, AcceptorDoneStep
<1>3. CASE Take
  BY <1>1, <1>3, TakeStep
<1>4. CASE (SourceReady \/ SourceValid) /\ UNCHANGED <<acc, role, taken, heard>>
  BY <1>1, <1>4, SourceReadyStep, SourceValidStep DEF SourceReady, SourceValid
<1>5. CASE SourceSent /\ UNCHANGED <<acc, role, taken, heard>>
  BY <1>1, <1>5, SourceSentStep
<1> QED
  BY <1>2, <1>3, <1>4, <1>5 DEF Proceeds

LEMMA NextStep == IInv /\ [Next]_vars => IInv'
<1> SUFFICES ASSUME IInv, [Next]_vars PROVE IInv'
  OBVIOUS
<1>1. CASE Start
  BY <1>1, StartStep
<1>2. CASE Adapter
  BY <1>2, AdapterStep
<1>3. CASE Reacts
  BY <1>3, ReactsStep
<1>4. CASE Proceeds
  BY <1>4, ProceedsStep
<1>5. CASE SwitchOff
  BY <1>5, OffStep DEF SwitchOff
<1>6. CASE Expire
  BY <1>6, ExpireStep DEF Expire, instrument
<1>7. CASE TimerTick
  BY <1>7, TickStep DEF TimerTick, instrument
<1>8. CASE UNCHANGED vars
  BY <1>8, StutterStep DEF vars, instrument
<1> QED
  BY <1>1, <1>2, <1>3, <1>4, <1>5, <1>6, <1>7, <1>8 DEF Next

(* In every state, for every set of transactions of the kind the code      *)
(* makes and every instrument: what the place of the adapter says about    *)
(* the lines, the instrument and the bytes that went over.                 *)
THEOREM Inductive == Spec => []IInv
BY Initial, NextStep, PTL DEF Spec

(* The types of GpibHandshake.                                             *)
THEOREM TypeCorrect == Spec => []TypeOK
<1>1. IInv => TypeOK
  BY DEF IInv
<1> QED
  BY <1>1, Inductive, PTL

(* The data lines are never driven by the adapter (gpib_tx_quick) and the  *)
(* instrument at once.                                                     *)
THEOREM NeverTwoDrivers == Spec => []OneDriver
<1>1. IInv => OneDriver
  BY DEF IInv, ByteOut, OneDriver
<1> QED
  BY <1>1, Inductive, PTL

-----------------------------------------------------------------------------
(* The refinement.                                                         *)
LEMMA InitMaps == Init => Transfer!Init
BY DEF Init, Transfer!Init

(* A step that leaves alone what the callers see.                          *)
LEMMA Quiet ==
  ASSUME IInv, InstrumentWaits, UNCHANGED <<trans, i, n, input, found, failed, result>>,
         pc' = pc \/ pc # "accept"
  PROVE  UNCHANGED Transfer!vars
<1>1. taken' = taken
  BY DEF IInv, TypeOK, InstrumentTypes, ByteOut, InstrumentWaits
<1> QED
  BY <1>1 DEF Transfer!vars, InstrumentWaits

LEMMA GiveUpMaps ==
  ASSUME IInv, pc # "idle", GiveUp, UNCHANGED <<trans, found>>, InstrumentWaits
  PROVE  Transfer!Fail \/ UNCHANGED Transfer!vars
<1>1. result = "busy" /\ failed' = TRUE /\ UNCHANGED <<trans, role, heard, input, found, result>>
  BY DEF IInv, AtStep, GiveUp, InstrumentWaits
<1>2. CASE failed
  BY <1>1, <1>2 DEF Transfer!vars
<1>3. CASE ~failed
  BY <1>1, <1>3 DEF Transfer!Fail
<1> QED
  BY <1>2, <1>3

LEMMA PollReadyMaps ==
  IInv /\ PollReady /\ InstrumentWaits => Transfer!Next \/ UNCHANGED Transfer!vars
BY GiveUpMaps, Quiet DEF PollReady, Transfer!Next

LEMMA PollValidMaps ==
  IInv /\ PollValid /\ InstrumentWaits => Transfer!Next \/ UNCHANGED Transfer!vars
BY GiveUpMaps, Quiet DEF PollValid, Transfer!Next

(* NDAC is high: the instrument has taken the byte, or it is data and the  *)
(* instrument does not listen.                                             *)
LEMMA PollAcceptMaps ==
  IInv /\ PollAccept /\ InstrumentWaits => Transfer!Next \/ UNCHANGED Transfer!vars
<1> SUFFICES ASSUME IInv, PollAccept, InstrumentWaits
             PROVE  Transfer!Next \/ UNCHANGED Transfer!vars
  OBVIOUS
<1>1. CASE GivesUp
  BY <1>1, GiveUpMaps DEF PollAccept, Transfer!Next
<1>2. CASE ~GivesUp /\ Low("NDAC")
  BY <1>2, Quiet DEF PollAccept
<1>3. CASE ~GivesUp /\ ~Low("NDAC")
  <2>1. /\ pc = "accept" /\ pc' = "begin" /\ i' = i + 1
        /\ UNCHANGED <<trans, n, input, found, failed, result, role, heard>>
    BY <1>3 DEF PollAccept, InstrumentWaits
  <2>2. taken' = FALSE /\ failed = FALSE /\ result = "busy"
    BY <1>3, <2>1, PollsAgain DEF InstrumentWaits, IInv, AtStep
  <2>3. CASE taken
    BY <2>1, <2>2, <2>3 DEF Transfer!vars
  <2>4. CASE ~taken
    <3>1. role # "off" /\ acc = "AIDS" /\ ~Accepting
      BY <1>3, <2>1, <2>4 DEF Low, InstrumentLow, IInv, ByteOut
    <3>2. i <= Len(trans) /\ trans[i].op = "data" /\ role # "listen"
      BY <2>1, <3>1 DEF IInv, AtStep, AdapterLines, SendPcs, Accepting
    <3>3. Transfer!Send
      BY <2>1, <2>2, <2>4, <3>1, <3>2 DEF Transfer!Send, Transfer!Step
    <3> QED
      BY <3>3 DEF Transfer!Next
  <2> QED
    BY <2>3, <2>4
<1> QED
  BY <1>1, <1>2, <1>3

LEMMA PollUnvalidMaps ==
  IInv /\ PollUnvalid /\ InstrumentWaits => Transfer!Next \/ UNCHANGED Transfer!vars
<1> SUFFICES ASSUME IInv, PollUnvalid, InstrumentWaits
             PROVE  Transfer!Next \/ UNCHANGED Transfer!vars
  OBVIOUS
<1>1. CASE GivesUp
  BY <1>1, GiveUpMaps DEF PollUnvalid, Transfer!Next
<1>2. CASE ~GivesUp /\ Low("DAV")
  BY <1>2, Quiet DEF PollUnvalid
<1>3. CASE ~GivesUp /\ ~Low("DAV")
  <2>1. /\ pc = "unvalid" /\ pc' = "begin" /\ input' = Append(input, c)
        /\ i' = IF Transfer!Ends(c) \/ n + 1 = trans[i].max THEN i + 1 ELSE i
        /\ n' = IF Transfer!Ends(c) \/ n + 1 = trans[i].max THEN 0 ELSE n + 1
        /\ UNCHANGED <<trans, found, failed, result, role, heard>>
    BY <1>3 DEF PollUnvalid, InstrumentWaits, Full
  <2>2. /\ taken = FALSE /\ taken' = FALSE /\ failed = FALSE /\ result = "busy"
        /\ i <= Len(trans) /\ trans[i].op = "read"
    BY <2>1
       DEF InstrumentWaits, IInv, TypeOK, InstrumentTypes, AdapterTypes,
           ByteOut,
            AtStep, GivenUp, ReadPcs, FailPcs
  <2>3. role = "talk" /\ Len(input) < Len(Output) /\ c = Output[Len(input) + 1]
    BY <1>3, <2>1 DEF Low, IInv, ByteIn
  <2>4. Transfer!Receive
    BY <2>1, <2>2, <2>3 DEF Transfer!Receive, Transfer!Step
  <2> QED
    BY <2>4 DEF Transfer!Next
<1> QED
  BY <1>1, <1>2, <1>3

LEMMA PullNdacMaps ==
  IInv /\ PullNdac /\ InstrumentWaits => Transfer!Next
<1> SUFFICES ASSUME IInv, PullNdac, InstrumentWaits PROVE Transfer!Prepare
  BY DEF Transfer!Next
<1>1. /\ pc = "begin" /\ i <= Len(trans) /\ trans[i].op = "ndac" /\ i' = i + 1
      /\ UNCHANGED <<trans, n, input, found, failed, result, role, heard>>
  BY DEF PullNdac, Op, More, InstrumentWaits
<1>2. taken = FALSE /\ taken' = FALSE /\ failed = FALSE /\ result = "busy"
  BY <1>1, GoesOn DEF PullNdac, Op, InstrumentWaits, IInv, TypeOK, InstrumentTypes,
          AdapterTypes, ByteOut, AtStep
<1> QED
  BY <1>1, <1>2 DEF Transfer!Prepare, Transfer!Step

(* A probe: with the lines settled, NDAC is low exactly if the instrument  *)
(* was addressed as a listener.                                            *)
LEMMA LookAtNdacMaps ==
  IInv /\ LookAtNdac /\ InstrumentWaits => Transfer!Next
<1> SUFFICES ASSUME IInv, LookAtNdac, InstrumentWaits PROVE Transfer!Probe
  BY DEF Transfer!Next
<1>1. /\ pc = "probe" /\ Settled /\ acc # "AWNS" /\ i' = i + 1
      /\ found' = (Low("NDAC") /\ ~Low("ATN"))
      /\ UNCHANGED <<trans, n, input, failed, result, role, heard>>
  BY DEF LookAtNdac, InstrumentWaits
<1>2. /\ taken = FALSE /\ taken' = FALSE /\ result = "busy"
      /\ i <= Len(trans) /\ trans[i].op = "probe"
      /\ "ATN" \notin drives /\ "NDAC" \notin drives
  BY <1>1
     DEF InstrumentWaits, IInv, TypeOK, InstrumentTypes, ByteOut, AtStep,
         AdapterLines
<1>3. found' = (role = "listen")
  BY <1>1, <1>2
     DEF Low, InstrumentLow, Settled, Accepting, IInv, TypeOK, InstrumentTypes
<1>4. CASE failed
  <2>1. role \in {"idle", "off"}
    BY <1>1, <1>4 DEF IInv, GivenUp, FailPcs
  <2> QED
    BY <1>1, <1>2, <1>3, <1>4, <2>1 DEF Transfer!Probe
<1>5. CASE ~failed
  BY <1>1, <1>2, <1>3, <1>5 DEF Transfer!Probe, Transfer!Step
<1> QED
  BY <1>4, <1>5

LEMMA InterfaceClearedMaps ==
  IInv /\ InterfaceCleared /\ InstrumentWaits => UNCHANGED Transfer!vars
<1> SUFFICES ASSUME IInv, InterfaceCleared, InstrumentWaits PROVE UNCHANGED Transfer!vars
  OBVIOUS
<1>1. failed /\ failed' /\ UNCHANGED <<trans, input, found, result, role, heard>>
  BY DEF InterfaceCleared, InstrumentWaits, IInv, GivenUp, FailPcs
<1> QED
  BY <1>1 DEF Transfer!vars

LEMMA FinishMaps ==
  IInv /\ Finish /\ InstrumentWaits => Transfer!Next \/ UNCHANGED Transfer!vars
<1> SUFFICES ASSUME IInv, Finish, InstrumentWaits
             PROVE  Transfer!Finish \/ UNCHANGED Transfer!vars
  BY DEF Transfer!Next
<1>1. /\ pc = "begin" /\ ~More /\ result = "busy" /\ timedout = failed
      /\ result' = IF timedout THEN "timedout" ELSE "ok"
      /\ taken = FALSE /\ taken' = FALSE
      /\ UNCHANGED <<trans, i, n, input, found, failed, role, heard>>
  BY
     DEF Finish, InstrumentWaits, IInv, AtStep, GivenUp, ByteOut, TypeOK,
         InstrumentTypes
<1>2. CASE failed
  BY <1>1, <1>2 DEF Transfer!vars
<1>3. CASE ~failed
  <2>1. i > Len(trans)
    BY <1>1, <1>3, StepFacts DEF More, IInv
  <2> QED
    BY <1>1, <1>3, <2>1 DEF Transfer!Finish
<1> QED
  BY <1>2, <1>3

LEMMA TakeMaps ==
  IInv /\ Take /\ UNCHANGED adapter => Transfer!Next \/ UNCHANGED Transfer!vars
<1> SUFFICES ASSUME IInv, Take, UNCHANGED adapter
             PROVE  Transfer!Next \/ UNCHANGED Transfer!vars
  OBVIOUS
<1>1. /\ pc = "accept" /\ taken = FALSE /\ taken' = TRUE /\ role # "off" /\ result = "busy"
      /\ i <= Len(trans)
      /\ data = [byte |-> trans[i].byte, eoi |-> trans[i].eoi]
      /\ UNCHANGED <<trans, i, n, input, found, failed, result>>
  BY DEF adapter, Take, Accepting, IInv, AdapterLines, AtStep, SendPcs, ByteOut,
         TypeOK, InstrumentTypes
<1>2. CASE "ATN" \in drives
  <2>1. trans[i].op = "cmd" /\ role' = HearByte(trans[i].byte, role) /\ heard' = heard
    BY <1>1, <1>2 DEF Take, IInv, AdapterLines, SendPcs
  <2>2. CASE failed
    <3>1. role = "idle" /\ trans[i].byte = "SAG"
      BY <1>1, <2>2 DEF IInv, GivenUp, SendPcs, FailPcs
    <3>2. role' = role
      BY <2>1, <3>1, HearFacts DEF Roles, Addressing
    <3> QED
      BY <1>1, <2>1, <2>2, <3>2 DEF Transfer!vars
  <2>3. CASE ~failed
    <3>1. Transfer!Command
      BY <1>1, <2>1, <2>3 DEF Transfer!Command, Transfer!Step, HearByte
    <3> QED
      BY <3>1 DEF Transfer!Next
  <2> QED
    BY <2>2, <2>3
<1>3. CASE "ATN" \notin drives
  <2>1. /\ trans[i].op = "data" /\ role = "listen" /\ role' = role /\ ~failed
        /\ heard' = Append(heard, [byte |-> data.byte, eoi |-> "EOI" \in drives])
    BY <1>1, <1>3
       DEF Take, Accepting, IInv, AdapterLines, AtStep, SendPcs, FailPcs,
           GivenUp
  <2>2. trans[i].eoi = ("EOI" \in drives)
    BY <1>1, StepFacts DEF IInv, AdapterLines, SendPcs, Steps
  <2>3. Transfer!Send
    BY <1>1, <2>1, <2>2 DEF Transfer!Send, Transfer!Step
  <2> QED
    BY <2>3 DEF Transfer!Next
<1> QED
  BY <1>2, <1>3

LEMMA HearIfcMaps ==
  ASSUME IInv, HearIfc, UNCHANGED adapter, UNCHANGED <<taken, heard>>
  PROVE  Transfer!Next
<1>1. failed /\ result = "busy" /\ role # "off" /\ role' = "idle"
  BY DEF HearIfc, IInv, AdapterLines, AtStep, GivenUp, FailPcs
<1>2. Transfer!Clear
  BY <1>1 DEF Transfer!Clear, adapter
<1> QED
  BY <1>2 DEF Transfer!Next

LEMMA StartMaps == IInv /\ Start => Transfer!Next
<1> SUFFICES ASSUME IInv, Start PROVE Transfer!Start
  BY DEF Transfer!Next
<1>1. taken = FALSE /\ taken' = FALSE /\ result # "busy"
  BY DEF Start, IInv, ByteOut, AtStep, TypeOK, InstrumentTypes
<1> QED
  BY <1>1 DEF Start, Transfer!Start

LEMMA AdapterMaps == IInv /\ Adapter => Transfer!Next \/ UNCHANGED Transfer!vars
<1> SUFFICES ASSUME IInv, Adapter PROVE Transfer!Next \/ UNCHANGED Transfer!vars
  OBVIOUS
<1>1. InstrumentWaits
  BY DEF Adapter, InstrumentWaits
<1>2. CASE SetAtn \/ Drive
  BY <1>1, <1>2, Quiet DEF SetAtn, Op, More, Drive
<1>3. CASE OpenRead \/ ReadyForData \/ Accept
  BY <1>1, <1>3, Quiet DEF OpenRead, Op, More, ReadyForData, Accept
<1>4. CASE ReleaseAtn \/ Recover
  BY <1>1, <1>4, Quiet DEF ReleaseAtn, Op, More, Recover
<1> QED
  BY <1>1, <1>2, <1>3, <1>4, PollReadyMaps, PollAcceptMaps, PollValidMaps,
     PollUnvalidMaps, PullNdacMaps, LookAtNdacMaps, InterfaceClearedMaps, FinishMaps
     DEF Adapter

LEMMA NextMaps == IInv /\ [Next]_vars => [Transfer!Next]_(Transfer!vars)
<1> SUFFICES ASSUME IInv, [Next]_vars PROVE Transfer!Next \/ UNCHANGED Transfer!vars
  OBVIOUS
<1>1. CASE Start
  BY <1>1, StartMaps
<1>2. CASE Adapter
  BY <1>2, AdapterMaps
<1>3. CASE Reacts
  BY <1>3, HearIfcMaps DEF Reacts, adapter, Transfer!vars
<1>4. CASE Proceeds
  BY <1>4, TakeMaps DEF Proceeds, adapter, Transfer!vars
<1>5. CASE SwitchOff
  BY <1>5 DEF SwitchOff, adapter, Transfer!Next, Transfer!SwitchOff
<1>6. CASE Expire \/ TimerTick \/ UNCHANGED vars
  BY <1>6 DEF Expire, TimerTick, vars, adapter, instrument, Transfer!vars
<1> QED
  BY <1>1, <1>2, <1>3, <1>4, <1>5, <1>6 DEF Next

(* The wires carry out every transaction as its caller believes: the       *)
(* handshake of gpib_priv.h and gpib.c implements GpibTransfer.            *)
THEOREM Refines == Spec => TransferSpec
BY Inductive, InitMaps, NextMaps, PTL DEF Spec, TransferSpec, Transfer!Spec
=============================================================================
