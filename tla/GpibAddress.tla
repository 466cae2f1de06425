----------------------------- MODULE GpibAddress -----------------------------
(***************************************************************************)
(* GPIB addresses: how gpib_addr codes them, how gpib_search finds one and *)
(* how the command "!addr" sets one.                                       *)
(*                                                                         *)
(* gpib_addr is one byte: the primary address in its lower five bits and   *)
(* above them the secondary address plus one, or zero for none.            *)
(***************************************************************************)
EXTENDS Integers, Sequences, FiniteSetsExt

Primary(a)   == a % 32
Secondary(a) == a \div 32
WithSecondary(p, s) == p + 32 * (s + 1)

NoAddress == 255

(* What an instrument does with its listen address: one with secondary     *)
(* addresses (coded as above) waits for one of them, any other ignores     *)
(* them.  Nobody has primary address 31, which is the UNL command.         *)
Responds(instr, a) ==
  /\ instr.primary = Primary(a)
  /\ instr.secondaries = {} \/ Secondary(a) \in instr.secondaries

(* The addresses probed: every primary address but 0, then every primary   *)
(* address with secondary address 0.                                       *)
Probes == {a \in 1..63 : Primary(a) # 31}

(* An instrument found with a secondary address is tried without one.      *)
(* (Mutant: it is not.)                                                    *)
SearchOnce(instr) ==
  LET answering == {a \in Probes : Responds(instr, a)}
  IN IF answering = {} THEN NoAddress ELSE Min(answering)

gpib_search(instr) ==
  LET found == SearchOnce(instr)
      last  == IF found = NoAddress THEN 63 ELSE found
  IN IF last >= 32 /\ Responds(instr, Primary(last)) THEN Primary(last) ELSE found

-----------------------------------------------------------------------------
(* A number on its way through the parser is a byte; 255 also means that   *)
(* no digit was seen.                                                      *)
numparser_addchar(num, digit) ==
  ((IF num = 255 THEN 0 ELSE num) * 10 + digit) % 256

(* The digits of a number of up to three digits, one after the other.      *)
NumberRead(n) ==
  LET add(num, digit) == numparser_addchar(num, digit)
  IN CASE n >= 100      -> add(add(add(255, n \div 100), (n \div 10) % 10), n % 10)
       [] n \in 10..99  -> add(add(255, n \div 10), n % 10)
       [] OTHER         -> add(255, n)

(* The two numbers of "!addr", given as a sequence of one or two numbers:  *)
(* a separator does not end a number that reads as 255.                    *)
AddrNumbers(numbers) ==
  LET first  == NumberRead(numbers[1])
      second == IF Len(numbers) = 2 THEN NumberRead(numbers[2]) ELSE 255
  IN IF first = 255 THEN <<second, 255>> ELSE <<first, second>>

(* Secondary addresses are given as 0..6 or as 96..102.  (Mutant: only the *)
(* first form.)                                                            *)
SecondaryPlain(s) == s
SecondaryGiven(s) == IF s <= 6 THEN s ELSE s - 96

(* The new value of gpib_addr; numbers out of range change nothing.        *)
parser_finalize(numbers, old) ==
  LET given     == AddrNumbers(numbers)
      secondary == SecondaryGiven(given[2])
  IN IF given[1] \notin 1..30 THEN old
     ELSE IF given[2] = 255 THEN given[1]
     ELSE IF secondary \in 0..6 THEN WithSecondary(given[1], secondary)
     ELSE old
=============================================================================
