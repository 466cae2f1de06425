--------------------------- MODULE VirtualFatProofs ---------------------------
(***************************************************************************)
(* The FAT that the boot loader makes up: two entries share three bytes,   *)
(* and each update of one writes two of them.  What one update does to the *)
(* other entries, what a chain of updates leaves, and that the table gives *)
(* two files that are apart as two chains, for every length and place of   *)
(* the files and every size of cluster.  The recursion over the chain is   *)
(* followed by a least counterexample.                                     *)
(***************************************************************************)
EXTENDS VirtualFat, WellFoundedInduction, TLAPS

-----------------------------------------------------------------------------
(* One step of UpdateFAT12ClusterChain.                                    *)
Linked(table, index, length, i) ==
  UpdateFAT12ClusterEntry(table, index + i, NextCluster(index, length, i))

(* The function of UpdateFAT12ClusterChain for its first n steps.          *)
Chained(f, table, index, length, n) ==
  f = [i \in 0..n |-> IF i = 0 THEN table ELSE Linked(f[i - 1], index, length, i - 1)]

(* Less-than on the numbers, as the library's theorems want it.            *)
LEMMA NatWellFounded == IsWellFoundedOn({ss \in Nat \X Nat : ss[1] < ss[2]}, Nat)
BY NatLessThanWellFounded DEF OpToRel

(* A set of numbers has a least element.                                   *)
LEMMA LeastNumber ==
  ASSUME NEW S \in SUBSET Nat, S # {}
  PROVE  \E x \in S : \A y \in S : x <= y
<1> DEFINE R == {ss \in Nat \X Nat : ss[1] < ss[2]}
<1>1. IsWellFoundedOn(R, Nat) BY NatWellFounded
<1> HIDE DEF R
<1>2. PICK x \in S : \A y \in S : ~(<<y, x>> \in R) BY <1>1, WFMin, Zenon
<1>3. \A y \in S : x <= y
  <2> TAKE y \in S
  <2>1. x \in Nat /\ y \in Nat OBVIOUS
  <2>2. <<y, x>> \in R <=> y < x BY <2>1 DEF R
  <2> QED BY <1>2, <2>1, <2>2
<1> QED BY <1>3

(* The recursion of UpdateFAT12ClusterChain is well defined.               *)
LEMMA ChainExists ==
  ASSUME NEW table, NEW index, NEW length
  PROVE  \A n \in Nat : \E f : Chained(f, table, index, length, n)
<1> DEFINE Bad == {n \in Nat : ~\E f : Chained(f, table, index, length, n)}
<1>1. SUFFICES ASSUME Bad # {} PROVE FALSE OBVIOUS
<1>2. PICK n \in Bad : \A m \in Bad : n <= m BY <1>1, LeastNumber
<1>3. CASE n = 0
  <2> DEFINE f == [i \in 0..0 |-> table]
  <2>1. \A i \in 0..0 : i = 0 OBVIOUS
  <2>2. Chained(f, table, index, length, 0) BY <2>1 DEF Chained
  <2> QED BY <1>3, <2>2
<1>4. CASE n # 0
  <2>1. n - 1 \in Nat /\ n - 1 \notin Bad BY <1>2, <1>4
  <2>2. PICK f : Chained(f, table, index, length, n - 1) BY <2>1
  <2> DEFINE g == [i \in 0..n |-> IF i = n THEN Linked(f[n - 1], index, length, n - 1)
                                  ELSE f[i]]
  <2>3. \A i \in 0..(n - 1) :
          f[i] = IF i = 0 THEN table ELSE Linked(f[i - 1], index, length, i - 1)
    BY <2>2 DEF Chained
  <2>4. \A i \in 0..(n - 1) : g[i] = f[i] BY <2>1
  <2>5. \A i \in 0..n :
          g[i] = IF i = 0 THEN table ELSE Linked(g[i - 1], index, length, i - 1)
    <3> TAKE i \in 0..n
    <3>1. CASE i = n
      <4>1. n - 1 \in 0..(n - 1) BY <2>1
      <4>2. g[n] = Linked(f[n - 1], index, length, n - 1) OBVIOUS
      <4> HIDE DEF g
      <4> QED BY <1>4, <2>4, <3>1, <4>1, <4>2
    <3>2. CASE i # n
      <4>1. i \in 0..(n - 1) /\ (i # 0 => i - 1 \in 0..(n - 1)) BY <3>2
      <4> HIDE DEF g
      <4> QED BY <2>3, <2>4, <4>1
    <3> QED BY <3>1, <3>2
  <2>6. Chained(g, table, index, length, n)
    <3>1. g = [i \in 0..n |-> g[i]] OBVIOUS
    <3> HIDE DEF g
    <3> QED BY <2>5, <3>1 DEF Chained
  <2> QED BY <2>6
<1> QED BY <1>3, <1>4

(* So UpdateFAT12ClusterChain is the value of such a function.             *)
LEMMA ChainDefined ==
  ASSUME NEW table, NEW index, NEW length \in Nat
  PROVE  \E f : /\ Chained(f, table, index, length, length)
                /\ UpdateFAT12ClusterChain(table, index, length) = f[length]
<1> DEFINE updated == CHOOSE f : Chained(f, table, index, length, length)
<1>1. Chained(updated, table, index, length, length) BY ChainExists
<1>2. UpdateFAT12ClusterChain(table, index, length) = updated[length]
  BY DEF UpdateFAT12ClusterChain, Chained, Linked
<1> QED BY <1>1, <1>2

-----------------------------------------------------------------------------
(* The entries that start in the bytes UpdateFAT12ClusterEntry can address *)
(* (its index into the block has 8 bits).                                  *)
Entries == 0..170
Values  == 0..4095
Cells   == 0..256
Bytes   == 0..255
Tables  == [Cells -> Bytes]

(* Where an entry lies, without a wrap.                                    *)
LEMMA Place ==
  ASSUME NEW c \in Entries, NEW a, a = EntryAt(c)
  PROVE  /\ c \in Nat /\ a \in Bytes /\ a \in Cells /\ a + 1 \in Cells
         /\ Byte(a) = a /\ (c % 2 = 0 \/ c % 2 = 1)
BY DEF Entries, EntryAt, Byte, Bytes, Cells

(* Two entries share no byte unless the first of them is even and the      *)
(* other follows it.                                                       *)
LEMMA Apart ==
  ASSUME NEW c \in Entries, NEW i \in Entries, c # i,
         NEW d, d = EntryAt(c), NEW a, a = EntryAt(i),
         i % 2 = 1 => c + 1 # i, i % 2 = 0 => c # i + 1
  PROVE  d # a /\ d # a + 1 /\ d + 1 # a /\ d + 1 # a + 1
BY DEF Entries, EntryAt

(* An odd entry begins in the last byte of the one before it.              *)
LEMMA Shared ==
  ASSUME NEW c \in Entries, NEW i \in Entries, c + 1 = i, i % 2 = 1,
         NEW d, d = EntryAt(c), NEW a, a = EntryAt(i)
  PROVE  c % 2 = 0 /\ d + 1 = a
BY DEF Entries, EntryAt

(* The cells of a table are bytes.                                         *)
LEMMA OneCell ==
  ASSUME NEW S, NEW T, NEW t \in [S -> T], NEW a \in S PROVE t[a] \in T
OBVIOUS

LEMMA Cell == ASSUME NEW t \in Tables, NEW b \in Cells PROVE t[b] \in Bytes
BY OneCell, Zenon DEF Tables

(* The two bytes of an odd entry.                                          *)
LEMMA OddNibbles ==
  ASSUME NEW x \in Bytes, NEW e \in Values, NEW lo, NEW hi,
         lo = LowNibble(x) + LowNibble(e) * 16, hi = Byte(e \div 16)
  PROVE  /\ lo \in Bytes /\ hi \in Bytes
         /\ LowNibble(lo) = LowNibble(x) /\ lo \div 16 + hi * 16 = e
BY DEF LowNibble, Byte, Bytes, Values

(* Two nibbles are a byte.                                                 *)
LEMMA Nibbles ==
  ASSUME NEW p \in 0..15, NEW q \in 0..15, NEW n, n = p * 16 + q
  PROVE  n \in Bytes /\ n % 16 = q /\ n - (n % 16) = p * 16
BY DEF Bytes

(* A byte is two nibbles.                                                  *)
LEMMA Split ==
  ASSUME NEW n \in Bytes
  PROVE  \E p, q \in 0..15 : n = p * 16 + q
<1>1. n \div 16 \in 0..15 /\ n % 16 \in 0..15 /\ n = (n \div 16) * 16 + (n % 16)
  BY DEF Bytes
<1> QED BY <1>1

(* The two bytes of an even entry, with a high nibble that is wrong.       *)
LEMMA EvenNibbles ==
  ASSUME NEW e \in Values, NEW lo, NEW hi,
         lo = Byte(e), hi = HighNibble(Byte(e)) + e \div 256
  PROVE  lo \in Bytes /\ hi \in Bytes /\ lo + LowNibble(hi) * 256 = e
<1>1. lo \in Bytes /\ e \div 256 \in 0..15 /\ e = (e \div 256) * 256 + lo
  BY DEF Byte, Bytes, Values
<1> DEFINE r == e \div 256
<1>2. r \in 0..15 /\ e = r * 256 + lo BY <1>1
<1>3. PICK p \in 0..15, q \in 0..15 : lo = p * 16 + q BY <1>1, Split
<1>4. hi = HighNibble(lo) + r OBVIOUS
<1> HIDE DEF r
<1>5. HighNibble(lo) = p * 16 BY <1>3, Nibbles, Zenon DEF HighNibble, LowNibble
<1>6. hi \in Bytes /\ LowNibble(hi) = r
  BY <1>2, <1>4, <1>5, Nibbles DEF LowNibble
<1> QED BY <1>1, <1>2, <1>6

(* An odd entry: the high nibble of its first byte and its second byte.    *)
LEMMA OddUpdate ==
  ASSUME NEW t \in Tables, NEW i \in Entries, i % 2 = 1, NEW e \in Values,
         NEW a, a = EntryAt(i), NEW u, u = UpdateFAT12ClusterEntry(t, i, e)
  PROVE  /\ u \in Tables /\ EntryOf(u, i) = e
         /\ LowNibble(u[a]) = LowNibble(t[a])
         /\ \A b \in Cells : b # a /\ b # a + 1 => u[b] = t[b]
<1>1. a \in Bytes /\ a \in Cells /\ a + 1 \in Cells /\ Byte(a) = a BY Place, Zenon
<1> DEFINE x  == t[a]
           lo == LowNibble(x) + LowNibble(e) * 16
           hi == Byte(e \div 16)
<1>2. u = [t EXCEPT ![a] = lo, ![a + 1] = hi]
  BY <1>1 DEF UpdateFAT12ClusterEntry
<1>3. x \in Bytes BY <1>1, Cell, Zenon
<1>4. /\ lo \in Bytes /\ hi \in Bytes /\ LowNibble(lo) = LowNibble(x)
      /\ lo \div 16 + hi * 16 = e
  <2>1. lo = LowNibble(x) + LowNibble(e) * 16 /\ hi = Byte(e \div 16) OBVIOUS
  <2> HIDE DEF lo, hi, x
  <2> QED BY <1>3, <2>1, OddNibbles
<1> HIDE DEF lo, hi
<1>5. /\ u \in Tables /\ u[a] = lo /\ u[a + 1] = hi
      /\ \A b \in Cells : b # a /\ b # a + 1 => u[b] = t[b]
  <2> DEFINE next == a + 1
  <2>1. next \in Cells /\ a # next /\ u = [t EXCEPT ![a] = lo, ![next] = hi]
    BY <1>1, <1>2 DEF Bytes
  <2> HIDE DEF next
  <2>2. /\ u \in Tables /\ u[a] = lo /\ u[next] = hi
        /\ \A b \in Cells : b # a /\ b # next => u[b] = t[b]
    BY <1>1, <1>4, <2>1 DEF Tables
  <2> QED BY <2>2 DEF next
<1>6. EntryOf(u, i) = e BY <1>4, <1>5 DEF EntryOf
<1> QED BY <1>4, <1>5, <1>6

(* An even entry: its first byte and its second byte, of which the high    *)
(* nibble belongs to the entry after it.                                   *)
LEMMA EvenUpdate ==
  ASSUME NEW t \in Tables, NEW i \in Entries, i % 2 = 0, NEW e \in Values,
         NEW a, a = EntryAt(i), NEW u, u = UpdateFAT12ClusterEntry(t, i, e)
  PROVE  /\ u \in Tables /\ EntryOf(u, i) = e
         /\ \A b \in Cells : b # a /\ b # a + 1 => u[b] = t[b]
<1> DEFINE lo == Byte(e)
           hi == HighNibble(Byte(e)) + e \div 256
<1>1. a \in Bytes /\ a \in Cells /\ a + 1 \in Cells /\ Byte(a) = a BY Place, Zenon
<1>2. u = [t EXCEPT ![a] = lo, ![a + 1] = hi]
  BY <1>1 DEF UpdateFAT12ClusterEntry
<1>3. lo \in Bytes /\ hi \in Bytes /\ lo + LowNibble(hi) * 256 = e
  <2>1. lo = Byte(e) /\ hi = HighNibble(Byte(e)) + e \div 256 OBVIOUS
  <2> HIDE DEF lo, hi
  <2> QED BY <2>1, EvenNibbles
<1> HIDE DEF lo, hi
<1>4. /\ u \in Tables /\ u[a] = lo /\ u[a + 1] = hi
      /\ \A b \in Cells : b # a /\ b # a + 1 => u[b] = t[b]
  <2> DEFINE next == a + 1
  <2>1. next \in Cells /\ a # next /\ u = [t EXCEPT ![a] = lo, ![next] = hi]
    BY <1>1, <1>2 DEF Bytes
  <2> HIDE DEF next
  <2>2. /\ u \in Tables /\ u[a] = lo /\ u[next] = hi
        /\ \A b \in Cells : b # a /\ b # next => u[b] = t[b]
    BY <1>1, <1>3, <2>1 DEF Tables
  <2> QED BY <2>2 DEF next
<1>5. EntryOf(u, i) = e BY <1>3, <1>4 DEF EntryOf
<1> QED BY <1>4, <1>5

(* An update sets its entry and changes no other, but for the one after an *)
(* even entry.                                                             *)
LEMMA EntryUpdate ==
  ASSUME NEW t \in Tables, NEW i \in Entries, NEW e \in Values,
         NEW u, u = UpdateFAT12ClusterEntry(t, i, e)
  PROVE  /\ u \in Tables /\ EntryOf(u, i) = e
         /\ \A c \in Entries : c # i /\ ~(c = i + 1 /\ c % 2 = 1)
              => EntryOf(u, c) = EntryOf(t, c)
<1> DEFINE a == EntryAt(i)
<1>1. CASE i % 2 = 1
  <2>1. /\ u \in Tables /\ EntryOf(u, i) = e
        /\ LowNibble(u[a]) = LowNibble(t[a])
        /\ \A b \in Cells : b # a /\ b # a + 1 => u[b] = t[b]
    BY <1>1, OddUpdate
  <2>2. ASSUME NEW c \in Entries, c # i PROVE EntryOf(u, c) = EntryOf(t, c)
    <3> DEFINE d == EntryAt(c)
    <3>1. d \in Cells /\ d + 1 \in Cells BY Place, Zenon
    <3>2. CASE c + 1 # i
      <4>1. d # a /\ d # a + 1 /\ d + 1 # a /\ d + 1 # a + 1
        BY <1>1, <2>2, <3>2, Apart
      <4>2. u[d] = t[d] /\ u[d + 1] = t[d + 1]
        <5> HIDE DEF a, d
        <5> QED BY <2>1, <3>1, <4>1, Zenon
      <4> QED BY <4>2, Zenon DEF EntryOf
    <3>3. CASE c + 1 = i
      <4>1. c % 2 = 0 /\ d + 1 = a BY <1>1, <3>3, Shared, Zenon
      <4>2. d # a /\ d # a + 1 BY <3>1, <4>1 DEF Cells
      <4>3. u[d] = t[d] /\ LowNibble(u[d + 1]) = LowNibble(t[d + 1])
        <5> HIDE DEF a, d
        <5> QED BY <2>1, <3>1, <4>1, <4>2, Zenon
      <4> QED BY <4>1, <4>3 DEF EntryOf
    <3> QED BY <3>2, <3>3
  <2> QED BY <2>1, <2>2
<1>2. CASE i % 2 = 0
  <2>1. /\ u \in Tables /\ EntryOf(u, i) = e
        /\ \A b \in Cells : b # a /\ b # a + 1 => u[b] = t[b]
    BY <1>2, EvenUpdate
  <2>2. ASSUME NEW c \in Entries, c # i, c # i + 1
        PROVE  EntryOf(u, c) = EntryOf(t, c)
    <3> DEFINE d == EntryAt(c)
    <3>1. d \in Cells /\ d + 1 \in Cells BY Place, Zenon
    <3>2. d # a /\ d # a + 1 /\ d + 1 # a /\ d + 1 # a + 1
      BY <1>2, <2>2, Apart
    <3>3. u[d] = t[d] /\ u[d + 1] = t[d + 1]
      <4> HIDE DEF a, d
      <4> QED BY <2>1, <3>1, <3>2, Zenon
    <3> QED BY <3>3, Zenon DEF EntryOf
  <2>3. (i + 1) % 2 = 1 BY <1>2 DEF Entries
  <2> QED BY <2>1, <2>2, <2>3, Zenon
<1> QED BY <1>1, <1>2, Place, Zenon

-----------------------------------------------------------------------------
(* The table after the first n steps of UpdateFAT12ClusterChain: the       *)
(* entries so far are set, and of the others only an odd one right after   *)
(* them may have changed.                                                  *)
ChainSoFar(u, t, index, length, n) ==
  /\ u \in Tables
  /\ \A c \in Entries :
       /\ c \in index..(index + n - 1) => EntryOf(u, c) = NextCluster(index, length, c - index)
       /\ c \notin index..(index + n - 1) /\ ~(c = index + n /\ c % 2 = 1)
            => EntryOf(u, c) = EntryOf(t, c)

(* One more step of the chain.                                             *)
LEMMA ChainStep ==
  ASSUME NEW t, NEW index \in Entries, NEW length \in Nat, NEW n \in 1..length,
         index + length - 1 \in Entries, NEW old, NEW u,
         ChainSoFar(old, t, index, length, n - 1), u = Linked(old, index, length, n - 1)
  PROVE  ChainSoFar(u, t, index, length, n)
<1> DEFINE i == index + (n - 1)
           e == NextCluster(index, length, n - 1)
<1>1. i \in Entries /\ e \in Values
  BY DEF Entries, Values, NextCluster, EndOfFile
<1>2. old \in Tables BY DEF ChainSoFar
<1>3. u = UpdateFAT12ClusterEntry(old, i, e) BY DEF Linked
<1> HIDE DEF e, i
<1>4. /\ u \in Tables /\ EntryOf(u, i) = e
      /\ \A c \in Entries : c # i /\ ~(c = i + 1 /\ c % 2 = 1)
           => EntryOf(u, c) = EntryOf(old, c)
  BY <1>1, <1>2, <1>3, EntryUpdate
<1>5. ASSUME NEW c \in Entries, c \in index..(index + n - 1)
      PROVE  EntryOf(u, c) = NextCluster(index, length, c - index)
  <2>1. c \in Nat /\ index \in Nat BY DEF Entries
  <2>2. CASE c = i
    <3>1. c - index = n - 1 BY <2>1, <2>2 DEF i
    <3> QED BY <1>4, <2>2, <3>1 DEF e
  <2>3. CASE c # i
    <3>1. c \in index..(index + (n - 1) - 1) /\ c # i + 1 BY <1>5, <2>1, <2>3 DEF i
    <3>2. EntryOf(u, c) = EntryOf(old, c) BY <1>4, <2>3, <3>1
    <3> QED BY <3>1, <3>2 DEF ChainSoFar
  <2> QED BY <2>2, <2>3
<1>6. ASSUME NEW c \in Entries, c \notin index..(index + n - 1),
             ~(c = index + n /\ c % 2 = 1)
      PROVE  EntryOf(u, c) = EntryOf(t, c)
  <2>1. c \in Nat /\ index \in Nat BY DEF Entries
  <2>2. c # i /\ ~(c = i + 1 /\ c % 2 = 1) /\ c \notin index..(index + (n - 1) - 1)
        /\ c # index + (n - 1)
    BY <1>6, <2>1 DEF i
  <2>3. EntryOf(u, c) = EntryOf(old, c) BY <1>4, <2>2
  <2> QED BY <2>2, <2>3 DEF ChainSoFar
<1> QED BY <1>4, <1>5, <1>6 DEF ChainSoFar

(* UpdateFAT12ClusterChain sets the entries of its chain.                  *)
LEMMA ChainSet ==
  ASSUME NEW t \in Tables, NEW index \in Entries, NEW length \in Nat,
         index + length - 1 \in Entries,
         NEW u, u = UpdateFAT12ClusterChain(t, index, length)
  PROVE  ChainSoFar(u, t, index, length, length)
<1>1. PICK f : Chained(f, t, index, length, length) /\ u = f[length] BY ChainDefined
<1> DEFINE Bad == {n \in 0..length : ~ChainSoFar(f[n], t, index, length, n)}
<1>2. ASSUME Bad # {} PROVE FALSE
  <2>1. Bad \in SUBSET Nat OBVIOUS
  <2> HIDE DEF Bad
  <2>2. PICK n \in Bad : \A m \in Bad : n <= m BY <1>2, <2>1, LeastNumber
  <2>3. n \in 0..length /\ ~ChainSoFar(f[n], t, index, length, n) BY <2>2 DEF Bad
  <2>4. f[n] = IF n = 0 THEN t ELSE Linked(f[n - 1], index, length, n - 1)
    BY <1>1, <2>3 DEF Chained
  <2>5. CASE n = 0
    <3>1. \A c \in Entries : c \notin index..(index + 0 - 1) BY DEF Entries
    <3> QED BY <2>3, <2>4, <2>5, <3>1 DEF ChainSoFar
  <2>6. CASE n # 0
    <3>1. n \in 1..length /\ n - 1 \in 0..length /\ ~(n <= n - 1) BY <2>3, <2>6
    <3>2. n - 1 \notin Bad BY <2>2, <3>1
    <3>3. ChainSoFar(f[n - 1], t, index, length, n - 1) BY <3>1, <3>2 DEF Bad
    <3>4. ChainSoFar(f[n], t, index, length, n)
      BY <2>4, <2>6, <3>1, <3>3, ChainStep
    <3> QED BY <2>3, <3>4
  <2> QED BY <2>5, <2>6
<1>3. length \in 0..length OBVIOUS
<1> QED BY <1>1, <1>2, <1>3

-----------------------------------------------------------------------------
(* The FAT block gives both files as chains, if they are apart and all     *)
(* their entries can be addressed.  Only the entry behind EEPROM.BIN may   *)
(* be wrong.                                                               *)
LEMMA Chains ==
  ASSUME NEW flash \in Nat, NEW eeprom \in Nat,
         Clusters(flash, FlashSectors) \cup Clusters(eeprom, EepromSectors) \subseteq Entries,
         Clusters(flash, FlashSectors) \cap Clusters(eeprom, EepromSectors) = {},
         NEW c \in Clusters(flash, FlashSectors) \cup Clusters(eeprom, EepromSectors),
         ~(c = eeprom + FILE_CLUSTERS(EepromSectors) /\ c % 2 = 1)
  PROVE  EntryOf(FATBlock(flash, eeprom), c) = ExpectedEntry(flash, eeprom, c)
<1> DEFINE nf == FILE_CLUSTERS(FlashSectors)
           ne == FILE_CLUSTERS(EepromSectors)
           zero     == UpdateFAT12ClusterEntry(EmptyTable, 0, 4088)
           reserved == UpdateFAT12ClusterEntry(zero, 1, EndOfFile)
           first    == UpdateFAT12ClusterChain(reserved, flash, nf)
           both     == UpdateFAT12ClusterChain(first, eeprom, ne)
<1>1. nf \in Nat \ {0} /\ ne \in Nat \ {0}
  BY VirtualFatAssumption DEF FILE_CLUSTERS
<1>2. /\ Clusters(flash, FlashSectors) = flash..(flash + nf - 1)
      /\ Clusters(eeprom, EepromSectors) = eeprom..(eeprom + ne - 1)
  BY DEF Clusters
<1>3. FATBlock(flash, eeprom) = both BY DEF FATBlock
<1>4. EmptyTable \in Tables /\ 0 \in Entries /\ 1 \in Entries /\ 4088 \in Values /\ EndOfFile \in Values
  BY DEF EmptyTable, Tables, Cells, Bytes, Entries, Values, EndOfFile
<1>5. reserved \in Tables BY <1>4, EntryUpdate
<1> HIDE DEF nf, ne, zero, reserved
<1>6. /\ flash \in Entries /\ flash + nf - 1 \in Entries
      /\ eeprom \in Entries /\ eeprom + ne - 1 \in Entries
  <2>1. flash \in flash..(flash + nf - 1) /\ flash + nf - 1 \in flash..(flash + nf - 1)
    BY <1>1
  <2>2. eeprom \in eeprom..(eeprom + ne - 1) /\ eeprom + ne - 1 \in eeprom..(eeprom + ne - 1)
    BY <1>1
  <2> QED BY <1>2, <2>1, <2>2
<1>7. ChainSoFar(first, reserved, flash, nf, nf) BY <1>1, <1>5, <1>6, ChainSet
<1> HIDE DEF first
<1>8. ChainSoFar(both, first, eeprom, ne, ne)
  BY <1>1, <1>6, <1>7, ChainSet DEF ChainSoFar
<1> HIDE DEF both
<1>9. c \in Entries OBVIOUS
<1>10. CASE c \in eeprom..(eeprom + ne - 1)
  <2>1. EntryOf(both, c) = NextCluster(eeprom, ne, c - eeprom) BY <1>8, <1>9, <1>10 DEF ChainSoFar
  <2>2. c \notin flash..(flash + nf - 1) BY <1>2, <1>10
  <2>3. ExpectedEntry(flash, eeprom, c)
          = IF c + 1 \in eeprom..(eeprom + ne - 1) THEN c + 1 ELSE EndOfFile
    BY <1>2, <1>10, <2>2, Zenon DEF ExpectedEntry
  <2>4. c + 1 \in eeprom..(eeprom + ne - 1) <=> c - eeprom # ne - 1 BY <1>1, <1>10
  <2>5. eeprom + (c - eeprom) + 1 = c + 1 BY <1>10
  <2> QED BY <1>3, <2>1, <2>3, <2>4, <2>5 DEF NextCluster
<1>11. CASE c \in flash..(flash + nf - 1)
  <2>1. c \notin eeprom..(eeprom + ne - 1) BY <1>2, <1>11
  <2>2. EntryOf(both, c) = EntryOf(first, c) BY <1>8, <1>9, <2>1 DEF ChainSoFar, ne
  <2>3. EntryOf(first, c) = NextCluster(flash, nf, c - flash) BY <1>7, <1>9, <1>11 DEF ChainSoFar
  <2>4. ExpectedEntry(flash, eeprom, c)
          = IF c + 1 \in flash..(flash + nf - 1) THEN c + 1 ELSE EndOfFile
    BY <1>2, <1>11, Zenon DEF ExpectedEntry
  <2>5. c + 1 \in flash..(flash + nf - 1) <=> c - flash # nf - 1 BY <1>1, <1>11
  <2>6. flash + (c - flash) + 1 = c + 1 BY <1>11
  <2> QED BY <1>3, <2>2, <2>3, <2>4, <2>5, <2>6 DEF NextCluster
<1> QED BY <1>2, <1>10, <1>11

(* Quotients and products, with a divisor that is no numeral.              *)
LEMMA Quotient ==
  ASSUME NEW s \in Nat \ {0}, NEW x \in Nat
  PROVE  /\ x \div s \in Nat
         /\ (x \div s) * s <= x /\ x < (x \div s) * s + s
OBVIOUS

LEMMA Multiple ==
  ASSUME NEW s \in Nat, NEW a \in Int, NEW b \in Int, a <= b PROVE a * s <= b * s
OBVIOUS

(* The first block of each cluster of a file is a block of the file.       *)
LEMMA ClusterInFile ==
  ASSUME NEW a \in Nat, NEW n \in Nat \ {0}, NEW c \in Clusters(a, n)
  PROVE  FirstBlock(c) \in FileBlocks(a, n)
<1> DEFINE s == SectorsPerCluster
           k == FILE_CLUSTERS(n)
<1>1. s \in Nat \ {0} BY VirtualFatAssumption
<1>2. k \in Nat /\ k * s <= n + s - 1
  <2>1. n + s - 1 \in Nat BY <1>1
  <2> QED BY <1>1, <2>1, Quotient DEF FILE_CLUSTERS
<1>3. c \in Nat /\ a <= c /\ c - a <= k - 1 BY <1>2 DEF Clusters
<1> HIDE DEF s, k
<1>4. 0 * s <= (c - a) * s /\ (c - a) * s <= (k - 1) * s BY <1>1, <1>2, <1>3, Multiple
<1>5. (k - 1) * s = k * s - s /\ 0 * s = 0 BY <1>1, <1>2
<1>6. (c - 2) * s = (a - 2) * s + (c - a) * s BY <1>1, <1>3
<1>7. (c - a) * s \in Int /\ (a - 2) * s \in Int /\ k * s \in Int BY <1>1, <1>2, <1>3
<1>8. FirstBlock(c) = FirstBlock(a) + (c - a) * s /\ FirstBlock(a) \in Int
  BY <1>6, <1>7 DEF FirstBlock, s
<1>9. 0 <= (c - a) * s /\ (c - a) * s <= n - 1
  BY <1>1, <1>2, <1>4, <1>5, <1>7
<1> QED BY <1>7, <1>8, <1>9 DEF FileBlocks

(* Two files that have no block in common have no cluster in common.       *)
LEMMA ApartClusters ==
  ASSUME NEW a \in Nat, NEW b \in Nat, NEW n \in Nat \ {0}, NEW m \in Nat \ {0},
         FileBlocks(a, n) \cap FileBlocks(b, m) = {}
  PROVE  Clusters(a, n) \cap Clusters(b, m) = {}
BY ClusterInFile, Zenon

(* The clusters of a file on the disk have entries that can be addressed,  *)
(* if the disk is small enough.                                            *)
LEMMA AddressableClusters ==
  ASSUME LastCluster <= 169, NEW a \in Nat \ {0, 1}, NEW n \in Nat \ {0},
         FileBlocks(a, n) \subseteq 0..(MediaBlocks - 1)
  PROVE  Clusters(a, n) \subseteq Entries
<1> DEFINE s == SectorsPerCluster
<1>1. s \in Nat \ {0} /\ MediaBlocks \in Nat BY VirtualFatAssumption
<1>2. SUFFICES ASSUME NEW c \in Clusters(a, n) PROVE c \in Entries OBVIOUS
<1>3. c \in Nat /\ 2 <= c
  <2>1. n + s - 1 \in Nat BY <1>1
  <2>2. FILE_CLUSTERS(n) \in Nat BY <1>1, <2>1, Quotient DEF FILE_CLUSTERS
  <2> QED BY <2>2 DEF Clusters
<1>4. FirstBlock(c) \in 0..(MediaBlocks - 1) BY ClusterInFile
<1> DEFINE q == (MediaBlocks - 4) \div s
<1>5. (c - 2) * s \in Nat /\ 4 + (c - 2) * s < MediaBlocks
  <2>1. 0 * s <= (c - 2) * s /\ 0 * s = 0 BY <1>1, <1>3, Multiple
  <2>2. (c - 2) * s \in Int BY <1>1, <1>3
  <2> QED BY <1>1, <1>4, <2>1, <2>2 DEF FirstBlock
<1>6. q <= 168 /\ q \in Nat /\ MediaBlocks - 4 < q * s + s
  <2>1. MediaBlocks - 4 \in Nat BY <1>1, <1>5
  <2>2. q \in Nat /\ MediaBlocks - 4 < q * s + s BY <1>1, <2>1, Quotient
  <2> QED BY <2>2 DEF LastCluster, DataStartBlock
<1> HIDE DEF q, s
<1>7. q * s <= 168 * s /\ q * s \in Int BY <1>1, <1>6, Multiple
<1>8. CASE c - 2 >= 169
  <2>1. 169 * s <= (c - 2) * s BY <1>1, <1>3, <1>8, Multiple
  <2> QED BY <1>1, <1>5, <1>6, <1>7, <2>1
<1>9. CASE c - 2 < 169
  BY <1>3, <1>9 DEF Entries
<1> QED BY <1>3, <1>8, <1>9
=============================================================================
