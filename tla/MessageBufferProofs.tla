------------------------- MODULE MessageBufferProofs -------------------------
(***************************************************************************)
(* Proofs about MessageBuffer: the invariants of its run and that it       *)
(* implements ByteStream, for every length of the buffer, of extBuffer and *)
(* of the writes; and about MessageCodec: integers of any size arrive, in  *)
(* network byte order, whatever the base and the cuts of the stream.       *)
(***************************************************************************)
EXTENDS MessageBuffer, MessageCodec, SequenceTheorems, WellFoundedInduction,
        TLAPS

Cell == Byte \union {Junk}

(* What every member function keeps of a buffer. *)
Valid(b) ==
  /\ b \in Buffer
  /\ b.rd <= b.wr /\ b.wr <= Len(b.mem)
  /\ Contents(b) \in Seq(Byte)
  /\ readByte(b) = 0 => b.wr = 0

-----------------------------------------------------------------------------
(* Sequences. *)

LEMMA FunctionIsSeq ==
  ASSUME NEW S, NEW k \in Nat, NEW f \in [1..k -> S]
  PROVE  f \in Seq(S) /\ Len(f) = k
<1>1. f \in UNION {[1..n -> S] : n \in Nat}
  OBVIOUS
<1> QED BY <1>1, SeqDef

(* The cells of a part of a sequence. *)
LEMMA PartOf ==
  ASSUME NEW S, NEW s \in Seq(S), NEW m \in Nat, NEW n \in Nat, m <= n, n <= Len(s)
  PROVE  /\ SubSeq(s, m + 1, n) \in Seq(S)
         /\ Len(SubSeq(s, m + 1, n)) = n - m
         /\ \A i \in 1..(n - m) : SubSeq(s, m + 1, n)[i] = s[m + i]
<1>1. \A i \in (m + 1)..n : s[i] \in S
  BY ElementOfSeq
<1>2. /\ SubSeq(s, m + 1, n) \in Seq(S)
      /\ Len(SubSeq(s, m + 1, n)) = IF m + 1 <= n THEN n - (m + 1) + 1 ELSE 0
      /\ \A i \in 1..(n - (m + 1) + 1) : SubSeq(s, m + 1, n)[i] = s[(m + 1) + i - 1]
  BY <1>1, SubSeqProperties, m + 1 \in Int, n \in Int
<1>3. \A i \in 1..(n - m) : (m + 1) + i - 1 = m + i
  OBVIOUS
<1> QED BY <1>2, <1>3

LEMMA PartFrom ==
  ASSUME NEW S, NEW s \in Seq(S), NEW m \in Nat, NEW len \in Nat, m + len <= Len(s)
  PROVE  /\ SubSeq(s, m + 1, m + len) \in Seq(S)
         /\ Len(SubSeq(s, m + 1, m + len)) = len
         /\ \A i \in 1..len : SubSeq(s, m + 1, m + len)[i] = s[m + i]
<1>1. m + len \in Nat /\ m <= m + len /\ (m + len) - m = len
  OBVIOUS
<1> QED BY <1>1, PartOf

(* The front of the bytes between two offsets, without the arithmetic. *)
LEMMA CellsFrom ==
  \A s \in Seq(Cell) : \A m, len \in Nat : m + len <= Len(s) =>
     /\ SubSeq(s, m + 1, m + len) \in Seq(Cell)
     /\ Len(SubSeq(s, m + 1, m + len)) = len
     /\ \A i \in 1..len : SubSeq(s, m + 1, m + len)[i] = s[m + i]
BY PartFrom

(* memcpy. *)
LEMMA CopiedIsSeq ==
  ASSUME NEW mem \in Seq(Cell), NEW pos \in Nat, NEW bytes \in Seq(Cell),
         pos + Len(bytes) <= Len(mem)
  PROVE  /\ Copied(mem, pos, bytes) \in Seq(Cell)
         /\ Len(Copied(mem, pos, bytes)) = Len(mem)
         /\ \A i \in 1..Len(bytes) : Copied(mem, pos, bytes)[pos + i] = bytes[i]
         /\ \A i \in 1..pos : Copied(mem, pos, bytes)[i] = mem[i]
<1>1. PICK len \in Nat : len = Len(mem)
  OBVIOUS
<1>2. PICK k \in Nat : k = Len(bytes)
  OBVIOUS
<1>3. \A i \in 1..len : mem[i] \in Cell
  BY <1>1, ElementOfSeq
<1>4. \A i \in 1..k : bytes[i] \in Cell
  BY <1>2, ElementOfSeq
<1>5. Copied(mem, pos, bytes) =
        [i \in 1..len |-> IF i \in (pos + 1)..(pos + k) THEN bytes[i - pos] ELSE mem[i]]
  BY <1>1, <1>2 DEF Copied
<1>6. Copied(mem, pos, bytes) \in [1..len -> Cell]
  BY <1>3, <1>4, <1>5
<1>7. \A i \in 1..k : /\ pos + i \in 1..len
                      /\ pos + i \in (pos + 1)..(pos + k)
                      /\ (pos + i) - pos = i
  BY <1>1, <1>2
<1>8. \A i \in 1..k : Copied(mem, pos, bytes)[pos + i] = bytes[i]
  BY <1>5, <1>7
<1>9. \A i \in 1..pos : i \in 1..len /\ i \notin (pos + 1)..(pos + k)
  BY <1>1, <1>2
<1>10. \A i \in 1..pos : Copied(mem, pos, bytes)[i] = mem[i]
  BY <1>5, <1>9
<1> QED BY <1>1, <1>2, <1>6, <1>8, <1>10, FunctionIsSeq

LEMMA FreshIsSeq ==
  ASSUME NEW length \in Nat
  PROVE  Fresh(length) \in Seq(Cell) /\ Len(Fresh(length)) = length
<1>1. Fresh(length) \in [1..length -> Cell]
  BY DEF Fresh, Cell
<1> QED BY <1>1, FunctionIsSeq

(* Bytes are cells, and the contents are the cells from rd to wr. *)
LEMMA BytesAreCells ==
  ASSUME NEW s \in Seq(Byte)
  PROVE  s \in Seq(Cell)
BY SeqMonotonic DEF Cell

LEMMA ContentsCells ==
  ASSUME NEW b \in Buffer, b.rd <= b.wr, b.wr <= Len(b.mem)
  PROVE  /\ Contents(b) \in Seq(Cell)
         /\ Len(Contents(b)) = b.wr - b.rd
         /\ \A i \in 1..(b.wr - b.rd) : Contents(b)[i] = b.mem[b.rd + i]
<1>1. b.mem \in Seq(Cell) /\ b.rd \in Nat /\ b.wr \in Nat
  BY DEF Buffer, Cell
<1> QED BY <1>1, PartOf DEF Contents

(* Two buffers with the same cells between their offsets. *)
LEMMA SameContents ==
  ASSUME NEW s \in Seq(Byte), NEW b \in Buffer, b.rd <= b.wr, b.wr <= Len(b.mem),
         b.wr - b.rd = Len(s),
         \A i \in 1..Len(s) : b.mem[b.rd + i] = s[i]
  PROVE  Contents(b) = s
<1>1. s \in Seq(Cell)
  BY BytesAreCells
<1> QED BY <1>1, ContentsCells, SeqEqual

-----------------------------------------------------------------------------
(* Member functions. *)

LEMMA NewBufferIsValid ==
  Valid(NewBuffer) /\ Contents(NewBuffer) = <<>> /\ Len(NewBuffer.mem) = InitLength
<1>1. NewBuffer.mem \in [1..InitLength -> Cell]
  BY DEF NewBuffer, Cell
<1>2. NewBuffer.mem \in Seq(Cell) /\ Len(NewBuffer.mem) = InitLength
  BY <1>1, FunctionIsSeq, LengthAssumption
<1>3. NewBuffer \in Buffer /\ NewBuffer.rd = 0 /\ NewBuffer.wr = 0
  BY <1>2 DEF NewBuffer, Buffer, Cell
<1>4. Contents(NewBuffer) = <<>>
  <2>1. NewBuffer.rd <= NewBuffer.wr /\ NewBuffer.wr <= Len(NewBuffer.mem)
    BY <1>2, <1>3, LengthAssumption
  <2>2. Contents(NewBuffer) \in Seq(Cell) /\ Len(Contents(NewBuffer)) = 0
    BY <1>3, <2>1, ContentsCells
  <2> QED BY <2>2, EmptySeq
<1> QED BY <1>2, <1>3, <1>4, LengthAssumption DEF Valid, readByte

(* reallocate keeps the contents and makes room. *)
LEMMA ReallocateMakesRoom ==
  ASSUME NEW b, Valid(b), NEW length \in Nat \ {0}
  PROVE  LET c == Reallocate(b, length)
         IN  /\ c \in Buffer /\ c.rd = 0 /\ c.wr = readByte(b)
             /\ Contents(c) = Contents(b)
             /\ Len(c.mem) = 2 * (readByte(b) + length)
<1> PICK c : c = Reallocate(b, length)
  OBVIOUS
<1>1. /\ b.mem \in Seq(Cell) /\ b.rd \in Nat /\ b.wr \in Nat /\ b.rd <= b.wr
      /\ b.wr <= Len(b.mem) /\ Contents(b) \in Seq(Byte) /\ b \in Buffer
  BY DEF Valid, Buffer, Cell
<1>2. PICK n \in Nat : n = readByte(b)
  BY <1>1 DEF readByte
<1>3. Contents(b) \in Seq(Cell) /\ Len(Contents(b)) = n
  BY <1>1, <1>2, ContentsCells DEF readByte
<1>4. c = [mem |-> Copied(Fresh((n + length) * 2), 0, Contents(b)), rd |-> 0, wr |-> n]
  BY <1>2 DEF Reallocate, size
<1>5. PICK new \in Nat : new = (n + length) * 2
  OBVIOUS
<1>6. Fresh(new) \in Seq(Cell) /\ Len(Fresh(new)) = new
  BY FreshIsSeq
<1>7. /\ Copied(Fresh(new), 0, Contents(b)) \in Seq(Cell)
      /\ Len(Copied(Fresh(new), 0, Contents(b))) = new
      /\ \A i \in 1..n : Copied(Fresh(new), 0, Contents(b))[i] = Contents(b)[i]
  <2>1. 0 + Len(Contents(b)) <= Len(Fresh(new))
    BY <1>3, <1>5, <1>6
  <2>2. /\ Copied(Fresh(new), 0, Contents(b)) \in Seq(Cell)
        /\ Len(Copied(Fresh(new), 0, Contents(b))) = Len(Fresh(new))
        /\ \A i \in 1..Len(Contents(b)) :
             Copied(Fresh(new), 0, Contents(b))[0 + i] = Contents(b)[i]
    BY <1>3, <1>6, <2>1, CopiedIsSeq, 0 \in Nat
  <2>3. \A i \in 1..n : 0 + i = i
    OBVIOUS
  <2> QED BY <1>3, <1>6, <2>2, <2>3
<1>8. c \in Buffer /\ c.rd = 0 /\ c.wr = n /\ Len(c.mem) = new
  BY <1>4, <1>5, <1>7 DEF Buffer, Cell
<1>9. Contents(c) = Contents(b)
  <2>1. c.wr - c.rd = Len(Contents(b)) /\ c.rd <= c.wr /\ c.wr <= Len(c.mem)
    BY <1>3, <1>5, <1>8
  <2>2. \A i \in 1..Len(Contents(b)) : c.mem[c.rd + i] = Contents(b)[i]
    <3>1. c.mem = Copied(Fresh(new), 0, Contents(b))
      BY <1>4, <1>5
    <3>2. \A i \in 1..n : c.rd + i = i
      BY <1>8
    <3> QED BY <1>3, <1>7, <3>1, <3>2
  <2> QED BY <1>1, <1>8, <2>1, <2>2, SameContents
<1> QED BY <1>2, <1>5, <1>8, <1>9

(* Where the i-th of n + k bytes from r on lies. *)
LEMMA Places ==
  ASSUME NEW r \in Nat, NEW n \in Nat, NEW k \in Nat, NEW i \in 1..(n + k)
  PROVE  /\ i <= n => r + i \in 1..(r + n) /\ i \in 1..n
         /\ ~(i <= n) => i - n \in 1..k /\ r + i = (r + n) + (i - n)
OBVIOUS

(* Bytes copied behind the contents extend them. *)
LEMMA CopyAppends ==
  ASSUME NEW b \in Buffer, b.rd <= b.wr, Contents(b) \in Seq(Byte),
         NEW bytes \in Seq(Byte), b.wr + Len(bytes) <= Len(b.mem)
  PROVE  LET c == [mem |-> Copied(b.mem, b.wr, bytes), rd |-> b.rd, wr |-> b.wr + Len(bytes)]
         IN  /\ c \in Buffer /\ Len(c.mem) = Len(b.mem)
             /\ Contents(c) = Contents(b) \o bytes
<1> PICK c : c = [mem |-> Copied(b.mem, b.wr, bytes), rd |-> b.rd, wr |-> b.wr + Len(bytes)]
  OBVIOUS
<1>1. b.mem \in Seq(Cell) /\ b.rd \in Nat /\ b.wr \in Nat /\ bytes \in Seq(Cell)
  BY BytesAreCells DEF Buffer, Cell
<1> PICK r \in Nat : r = b.rd
  BY <1>1
<1> PICK w \in Nat : w = b.wr
  BY <1>1
<1> PICK mem \in Seq(Cell) : mem = b.mem
  BY <1>1
<1>2. PICK k \in Nat : k = Len(bytes)
  OBVIOUS
<1>3. PICK n \in Nat : n = w - r
  OBVIOUS
<1>4. /\ Copied(mem, w, bytes) \in Seq(Cell)
      /\ Len(Copied(mem, w, bytes)) = Len(mem)
      /\ \A i \in 1..Len(bytes) : Copied(mem, w, bytes)[w + i] = bytes[i]
      /\ \A i \in 1..w : Copied(mem, w, bytes)[i] = mem[i]
  BY <1>1, CopiedIsSeq
<1>5. c.mem = Copied(mem, w, bytes) /\ c.rd = r /\ c.wr = w + k
  BY <1>2
<1>6. c \in Buffer /\ Len(c.mem) = Len(b.mem)
  BY <1>2, <1>4, <1>5 DEF Buffer, Cell
<1>7. Len(Contents(b)) = n /\ \A i \in 1..n : Contents(b)[i] = mem[r + i]
  <2>1. b.wr <= Len(b.mem)
    BY <1>2, LenProperties
  <2> QED BY <1>3, <2>1, ContentsCells
<1>8. /\ Contents(b) \o bytes \in Seq(Byte)
      /\ Len(Contents(b) \o bytes) = n + k
      /\ \A i \in 1..(n + k) : (Contents(b) \o bytes)[i] =
                                 IF i <= n THEN Contents(b)[i] ELSE bytes[i - n]
  <2>1. /\ Contents(b) \o bytes \in Seq(Byte)
        /\ Len(Contents(b) \o bytes) = Len(Contents(b)) + Len(bytes)
        /\ \A i \in 1..(Len(Contents(b)) + Len(bytes)) : (Contents(b) \o bytes)[i] =
             IF i <= Len(Contents(b)) THEN Contents(b)[i] ELSE bytes[i - Len(Contents(b))]
    BY ConcatProperties
  <2> QED BY <1>2, <1>7, <2>1
<1>9. ASSUME NEW i \in 1..(n + k) PROVE c.mem[c.rd + i] = (Contents(b) \o bytes)[i]
  <2>0. /\ i <= n => r + i \in 1..w /\ i \in 1..n
        /\ ~(i <= n) => i - n \in 1..k /\ r + i = w + (i - n)
    <3>1. w = r + n
      BY <1>3
    <3>2. /\ i <= n => r + i \in 1..(r + n) /\ i \in 1..n
          /\ ~(i <= n) => i - n \in 1..k /\ r + i = (r + n) + (i - n)
      BY <1>9, Places
    <3> QED BY <3>1, <3>2
  <2>1. CASE i <= n
    <3>1. r + i \in 1..w /\ i \in 1..n
      BY <2>1, <2>0
    <3>2. Copied(mem, w, bytes)[r + i] = mem[r + i]
      BY <1>4, <3>1
    <3>3. Contents(b)[i] = mem[r + i]
      BY <1>7, <3>1
    <3>4. (Contents(b) \o bytes)[i] = Contents(b)[i]
      BY <1>8, <1>9, <2>1
    <3> QED BY <3>2, <3>3, <3>4, <1>5
  <2>2. CASE ~(i <= n)
    <3>1. i - n \in 1..k /\ r + i = w + (i - n)
      BY <2>2, <2>0
    <3>2. Copied(mem, w, bytes)[w + (i - n)] = bytes[i - n]
      BY <1>2, <1>4, <3>1
    <3>3. (Contents(b) \o bytes)[i] = bytes[i - n]
      BY <1>8, <1>9, <2>2
    <3> QED BY <3>1, <3>2, <3>3, <1>5
  <2> QED BY <2>1, <2>2
<1>10. c.rd <= c.wr /\ c.wr <= Len(c.mem) /\ c.wr - c.rd = n + k
  BY <1>2, <1>3, <1>5, <1>6
<1>11. Contents(c) = Contents(b) \o bytes
  BY <1>6, <1>8, <1>9, <1>10, SameContents
<1> QED BY <1>6, <1>11

(* The same for a valid buffer with enough free memory. *)
LEMMA ExtendInPlace ==
  ASSUME NEW b, Valid(b), NEW bytes \in Seq(Byte), Len(bytes) <= writeByte(b)
  PROVE  LET c == [mem |-> Copied(b.mem, b.wr, bytes), rd |-> b.rd, wr |-> b.wr + Len(bytes)]
         IN  /\ Valid(c)
             /\ Contents(c) = Contents(b) \o bytes
             /\ readByte(c) = readByte(b) + Len(bytes)
             /\ Len(c.mem) = Len(b.mem)
<1> PICK c : c = [mem |-> Copied(b.mem, b.wr, bytes), rd |-> b.rd, wr |-> b.wr + Len(bytes)]
  OBVIOUS
<1>1. /\ b \in Buffer /\ b.rd \in Nat /\ b.wr \in Nat /\ Len(b.mem) \in Nat
      /\ b.rd <= b.wr /\ b.wr <= Len(b.mem)
      /\ Contents(b) \in Seq(Byte) /\ (b.wr - b.rd = 0 => b.wr = 0)
  BY DEF Valid, Buffer, readByte
<1>2. Len(bytes) \in Nat
  OBVIOUS
<1>3. b.wr + Len(bytes) <= Len(b.mem)
  BY <1>1, <1>2 DEF writeByte
<1>4. c \in Buffer /\ Len(c.mem) = Len(b.mem) /\ Contents(c) = Contents(b) \o bytes
  BY <1>1, <1>3, CopyAppends
<1>5. c.rd = b.rd /\ c.wr = b.wr + Len(bytes)
  OBVIOUS
<1>6. readByte(c) = readByte(b) + Len(bytes)
  BY <1>1, <1>2, <1>5 DEF readByte
<1>7. Contents(c) \in Seq(Byte)
  <2>1. Contents(b) \o bytes \in Seq(Byte)
    BY <1>1, ConcatProperties
  <2> QED BY <1>4, <2>1
<1>8. readByte(c) = 0 => c.wr = 0
  BY <1>1, <1>2, <1>5 DEF readByte
<1>9. c.rd <= c.wr /\ c.wr <= Len(c.mem)
  BY <1>1, <1>2, <1>3, <1>4, <1>5
<1> QED BY <1>4, <1>6, <1>7, <1>8, <1>9 DEF Valid

LEMMA WriteAppends ==
  ASSUME NEW b, Valid(b), NEW bytes \in Seq(Byte)
  PROVE  LET c == Write(b, bytes)
         IN  /\ Valid(c)
             /\ Contents(c) = Contents(b) \o bytes
             /\ readByte(c) = readByte(b) + Len(bytes)
             /\ \/ Len(c.mem) = Len(b.mem)
                \/ Len(c.mem) = 2 * (readByte(b) + Len(bytes))
<1>1. CASE writeByte(b) < Len(bytes)
  <2>1. /\ b.wr \in Nat /\ b.rd \in Nat /\ Len(b.mem) \in Nat /\ Len(bytes) \in Nat
        /\ b.rd <= b.wr /\ b.wr <= Len(b.mem) /\ Contents(b) \in Seq(Byte)
    BY DEF Valid, Buffer
  <2>2. Len(bytes) \in Nat \ {0}
    BY <1>1, <2>1 DEF writeByte
  <2> PICK d : d = Reallocate(b, Len(bytes))
    OBVIOUS
  <2>3. /\ d \in Buffer /\ d.rd = 0 /\ d.wr = readByte(b)
        /\ Contents(d) = Contents(b)
        /\ Len(d.mem) = 2 * (readByte(b) + Len(bytes))
    BY <2>2, ReallocateMakesRoom
  <2>4. readByte(b) \in Nat
    BY <2>1 DEF readByte
  <2>5. readByte(d) = readByte(b) /\ Len(bytes) <= writeByte(d)
    BY <2>1, <2>3, <2>4 DEF readByte, writeByte
  <2>6. Valid(d)
    BY <2>1, <2>3, <2>4, <2>5 DEF Valid
  <2>7. Write(b, bytes) =
          [mem |-> Copied(d.mem, d.wr, bytes), rd |-> d.rd, wr |-> d.wr + Len(bytes)]
    BY <1>1 DEF Write
  <2> QED BY <2>3, <2>5, <2>6, <2>7, ExtendInPlace
<1>2. CASE ~(writeByte(b) < Len(bytes))
  <2>1. Len(bytes) <= writeByte(b)
    BY <1>2 DEF Valid, Buffer, writeByte
  <2>2. Write(b, bytes) =
          [mem |-> Copied(b.mem, b.wr, bytes), rd |-> b.rd, wr |-> b.wr + Len(bytes)]
    BY <1>2 DEF Write
  <2> QED BY <2>1, <2>2, ExtendInPlace
<1> QED BY <1>1, <1>2

LEMMA ReceivedAppends ==
  ASSUME NEW b, Valid(b), NEW bytes \in Seq(Byte)
  PROVE  LET c == Received(b, bytes)
         IN  /\ Valid(c)
             /\ Contents(c) = Contents(b) \o bytes
             /\ readByte(c) = readByte(b) + Len(bytes)
             /\ \/ Len(c.mem) = Len(b.mem)
                \/ Len(c.mem) = 2 * (readByte(b) + Len(bytes))
<1>1. /\ writeByte(b) \in Nat /\ readByte(b) \in Nat /\ Len(bytes) \in Nat
      /\ Contents(b) \in Seq(Byte)
  BY DEF Valid, Buffer, writeByte, readByte
<1>2. CASE Len(bytes) <= writeByte(b)
  <2>1. SubSeq(bytes, 1, Len(bytes)) = bytes
    BY SubSeqFull
  <2>2. Received(b, bytes) =
          [mem |-> Copied(b.mem, b.wr, bytes), rd |-> b.rd, wr |-> b.wr + Len(bytes)]
    BY <1>2, <2>1 DEF Received, AdvanceWrite
  <2> QED BY <1>2, <2>2, ExtendInPlace
<1>3. CASE ~(Len(bytes) <= writeByte(b))
  <2>0. PICK n \in Nat, k \in Nat : n = writeByte(b) /\ k = Len(bytes)
    BY <1>1
  <2>1. n < k
    BY <1>3, <2>0
  <2>2. PICK front \in Seq(Byte) : front = SubSeq(bytes, 1, n) /\ Len(front) = n
    <3>1. SubSeq(bytes, 0 + 1, n) \in Seq(Byte) /\ Len(SubSeq(bytes, 0 + 1, n)) = n - 0
      BY <2>0, <2>1, PartOf
    <3>2. SubSeq(bytes, 1, n) \in Seq(Byte) /\ Len(SubSeq(bytes, 1, n)) = n
      BY <3>1
    <3> QED BY <3>2, Zenon
  <2>3. PICK rest \in Seq(Byte) : rest = SubSeq(bytes, n + 1, k) /\ Len(rest) = k - n
    <3>1. SubSeq(bytes, n + 1, k) \in Seq(Byte) /\ Len(SubSeq(bytes, n + 1, k)) = k - n
      BY <2>0, <2>1, PartOf
    <3> QED BY <3>1, Zenon
  <2>4. front \o rest = bytes
    <3>1. 1 \in 1..(Len(bytes) + 1) /\ n \in (1 - 1)..Len(bytes) /\ k \in n..Len(bytes)
      BY <2>0, <2>1
    <3>2. front \o rest = SubSeq(bytes, 1, k)
      BY <2>2, <2>3, <3>1, ConcatAdjacentSubSeq
    <3> QED BY <2>0, <3>2, SubSeqFull
  <2>5. PICK c : c = [mem |-> Copied(b.mem, b.wr, front), rd |-> b.rd,
                      wr |-> b.wr + Len(front)]
    OBVIOUS
  <2>6. /\ Valid(c) /\ Contents(c) = Contents(b) \o front
        /\ readByte(c) = readByte(b) + Len(front) /\ Len(c.mem) = Len(b.mem)
    <3>1. Len(front) <= writeByte(b)
      BY <2>0, <2>2
    <3> QED BY <2>5, <3>1, ExtendInPlace
  <2>7. Received(b, bytes) = Write(c, rest)
    BY <1>3, <2>0, <2>2, <2>3, <2>5 DEF Received, AdvanceWrite
  <2>8. /\ Valid(Write(c, rest))
        /\ Contents(Write(c, rest)) = Contents(c) \o rest
        /\ readByte(Write(c, rest)) = readByte(c) + Len(rest)
        /\ \/ Len(Write(c, rest).mem) = Len(c.mem)
           \/ Len(Write(c, rest).mem) = 2 * (readByte(c) + Len(rest))
    BY <2>6, WriteAppends
  <2>9. (Contents(b) \o front) \o rest = Contents(b) \o bytes
    <3>1. PICK s \in Seq(Byte) : s = Contents(b)
      BY <1>1
    <3>2. (s \o front) \o rest = s \o (front \o rest)
      OBVIOUS
    <3> QED BY <2>4, <3>1, <3>2
  <2>10. readByte(c) + Len(rest) = readByte(b) + Len(bytes)
    BY <1>1, <2>0, <2>1, <2>2, <2>3, <2>6
  <2> QED BY <2>6, <2>7, <2>8, <2>9, <2>10
<1> QED BY <1>2, <1>3

(* What lies at read_ is the front of the contents. *)
LEMMA FrontOfContents ==
  ASSUME NEW b, Valid(b), NEW len \in Nat, len <= readByte(b)
  PROVE  SubSeq(b.mem, b.rd + 1, b.rd + len) = SubSeq(Contents(b), 1, len)
<1>1. /\ b.mem \in Seq(Cell) /\ b.rd \in Nat /\ b.wr \in Nat /\ b \in Buffer
      /\ b.rd <= b.wr /\ b.wr <= Len(b.mem) /\ len <= b.wr - b.rd
  BY DEF Valid, Buffer, Cell, readByte
<1>2. /\ Contents(b) \in Seq(Cell) /\ Len(Contents(b)) = b.wr - b.rd
      /\ \A i \in 1..(b.wr - b.rd) : Contents(b)[i] = b.mem[b.rd + i]
  BY <1>1, ContentsCells
<1> PICK r \in Nat : r = b.rd
  BY <1>1
<1> PICK e \in Nat : e = r + len
  OBVIOUS
<1>3. r <= e /\ e <= Len(b.mem) /\ e - r = len
  BY <1>1
<1>4. /\ SubSeq(b.mem, r + 1, e) \in Seq(Cell)
      /\ Len(SubSeq(b.mem, r + 1, e)) = len
      /\ \A i \in 1..len : SubSeq(b.mem, r + 1, e)[i] = b.mem[r + i]
  <2>1. PICK mem \in Seq(Cell) : mem = b.mem
    BY <1>1
  <2>2. r + len <= Len(mem)
    BY <1>3, <2>1
  <2>3. /\ SubSeq(mem, r + 1, r + len) \in Seq(Cell)
        /\ Len(SubSeq(mem, r + 1, r + len)) = len
        /\ \A i \in 1..len : SubSeq(mem, r + 1, r + len)[i] = mem[r + i]
    BY <2>2, CellsFrom
  <2> QED BY <2>1, <2>3
<1>5. /\ SubSeq(Contents(b), 0 + 1, 0 + len) \in Seq(Cell)
      /\ Len(SubSeq(Contents(b), 0 + 1, 0 + len)) = len
      /\ \A i \in 1..len : SubSeq(Contents(b), 0 + 1, 0 + len)[i] = Contents(b)[0 + i]
  <2>1. 0 \in Nat /\ 0 + len <= Len(Contents(b))
    BY <1>1, <1>2
  <2> QED BY <1>2, <2>1, CellsFrom
<1>6. /\ SubSeq(Contents(b), 1, len) \in Seq(Cell)
      /\ Len(SubSeq(Contents(b), 1, len)) = len
      /\ \A i \in 1..len : SubSeq(Contents(b), 1, len)[i] = Contents(b)[i]
  BY <1>5
<1>7. \A i \in 1..len : i \in 1..(b.wr - b.rd)
  BY <1>1
<1>8. \A i \in 1..len : SubSeq(b.mem, r + 1, e)[i] = SubSeq(Contents(b), 1, len)[i]
  BY <1>2, <1>4, <1>6, <1>7
<1> QED BY <1>4, <1>6, <1>8, SeqEqual

LEMMA RetrieveAllEmpties ==
  ASSUME NEW b, Valid(b)
  PROVE  /\ Valid(RetrieveAll(b)) /\ Contents(RetrieveAll(b)) = <<>>
         /\ Len(RetrieveAll(b).mem) = Len(b.mem)
<1>1. PICK c : c = RetrieveAll(b)
  OBVIOUS
<1>2. /\ c \in Buffer /\ c.rd = 0 /\ c.wr = 0 /\ c.mem = b.mem /\ Len(c.mem) \in Nat
  BY <1>1 DEF RetrieveAll, Valid, Buffer
<1>3. c.rd <= c.wr /\ c.wr <= Len(c.mem)
  BY <1>2
<1>4. Contents(c) \in Seq(Cell) /\ Len(Contents(c)) = 0
  BY <1>2, <1>3, ContentsCells
<1>5. Contents(c) = <<>>
  BY <1>4, EmptySeq
<1> QED BY <1>1, <1>2, <1>3, <1>5 DEF Valid

LEMMA RetrieveDrops ==
  ASSUME NEW b, Valid(b), NEW len \in Nat, len <= readByte(b)
  PROVE  /\ Valid(Retrieve(b, len))
         /\ Contents(Retrieve(b, len)) =
              SubSeq(Contents(b), len + 1, Len(Contents(b)))
         /\ Len(Retrieve(b, len).mem) = Len(b.mem)
<1>1. /\ b.mem \in Seq(Cell) /\ b.rd \in Nat /\ b.wr \in Nat /\ b \in Buffer
      /\ b.rd <= b.wr /\ b.wr <= Len(b.mem) /\ Contents(b) \in Seq(Byte)
  BY DEF Valid, Buffer, Cell
<1>2. PICK n \in Nat : n = readByte(b) /\ n = b.wr - b.rd
  BY <1>1 DEF readByte
<1>3. /\ Contents(b) \in Seq(Cell) /\ Len(Contents(b)) = n
      /\ \A i \in 1..n : Contents(b)[i] = b.mem[b.rd + i]
  BY <1>1, <1>2, ContentsCells
<1>4. CASE len < n
  <2>1. PICK c : c = [mem |-> b.mem, rd |-> b.rd + len, wr |-> b.wr]
    OBVIOUS
  <2>2. c \in Buffer /\ c.mem = b.mem /\ c.rd = b.rd + len /\ c.wr = b.wr
    BY <1>1, <2>1 DEF Buffer, Cell
  <2>3. c.rd <= c.wr /\ c.wr <= Len(c.mem) /\ c.wr - c.rd = n - len /\ readByte(c) # 0
    BY <1>1, <1>2, <1>4, <2>2 DEF readByte
  <2>4. PICK s \in Seq(Byte) : s = Contents(b)
    BY <1>1
  <2>5. /\ SubSeq(s, len + 1, n) \in Seq(Byte)
        /\ Len(SubSeq(s, len + 1, n)) = n - len
        /\ \A i \in 1..(n - len) : SubSeq(s, len + 1, n)[i] = s[len + i]
    BY <1>3, <1>4, <2>4, PartOf
  <2>6. ASSUME NEW i \in 1..(n - len)
        PROVE  c.mem[c.rd + i] = SubSeq(s, len + 1, n)[i]
    <3>1. len + i \in 1..n /\ c.rd + i = b.rd + (len + i)
      BY <1>1, <2>2, <2>6
    <3> QED BY <1>3, <2>2, <2>4, <2>5, <2>6, <3>1
  <2>7. Contents(c) = SubSeq(s, len + 1, n)
    BY <2>2, <2>3, <2>5, <2>6, SameContents
  <2>8. Retrieve(b, len) = c
    BY <1>2, <1>4, <2>1 DEF Retrieve
  <2> QED BY <1>3, <2>2, <2>3, <2>4, <2>5, <2>7, <2>8 DEF Valid
<1>5. CASE ~(len < n)
  <2>1. len = n
    BY <1>2, <1>5
  <2>2. Retrieve(b, len) = RetrieveAll(b)
    BY <1>2, <1>5 DEF Retrieve
  <2>3. SubSeq(Contents(b), len + 1, Len(Contents(b))) = <<>>
    BY <1>3, <2>1, SubSeqEmpty
  <2> QED BY <2>2, <2>3, RetrieveAllEmpties
<1> QED BY <1>4, <1>5

-----------------------------------------------------------------------------
(* The invariant.  Valid(buf) is what makes it inductive: no call can tell *)
(* where the offsets lie without knowing what lies between them.           *)
IInv ==
  /\ Valid(buf)
  /\ result \in Seq(Byte)
  /\ peak \in Nat
  /\ CapacityBounded

LEMMA InputsAreBytes == \A bytes \in Inputs : bytes \in Seq(Byte) /\ Len(bytes) \in Nat
<1> SUFFICES ASSUME NEW bytes \in Inputs
             PROVE  bytes \in Seq(Byte) /\ Len(bytes) \in Nat
  OBVIOUS
<1>1. PICK n \in 0..MaxWrite : bytes \in [1..n -> Byte]
  BY DEF Inputs
<1>2. n \in Nat
  BY <1>1, BoundsAssumption
<1> QED BY <1>1, <1>2, FunctionIsSeq

LEMMA ExtensionIsPut ==
  ASSUME NEW s \in Seq(Byte), NEW t \in Seq(Byte)
  PROVE  /\ s \o t \in Seq(Byte)
         /\ Len(s) <= Len(s \o t)
         /\ SubSeq(s \o t, 1, Len(s)) = s
<1>1. PICK n \in Nat : n = Len(s)
  OBVIOUS
<1>2. /\ s \o t \in Seq(Byte) /\ n <= Len(s \o t)
      /\ \A i \in 1..n : (s \o t)[i] = s[i]
  BY <1>1, ConcatProperties
<1>3. PICK v \in Seq(Byte) : v = s \o t
  BY <1>2
<1>4. /\ SubSeq(v, 0 + 1, n) \in Seq(Byte)
      /\ Len(SubSeq(v, 0 + 1, n)) = n - 0
      /\ \A i \in 1..(n - 0) : SubSeq(v, 0 + 1, n)[i] = v[0 + i]
  BY <1>2, <1>3, PartOf
<1>5. /\ SubSeq(v, 1, n) \in Seq(Byte)
      /\ Len(SubSeq(v, 1, n)) = n
      /\ \A i \in 1..n : SubSeq(v, 1, n)[i] = v[i]
  BY <1>4
<1>6. SubSeq(v, 1, n) = s
  BY <1>1, <1>2, <1>3, <1>5, SeqEqual
<1> QED BY <1>1, <1>2, <1>3, <1>6

LEMMA InitInv == Init => IInv /\ Stream!StreamInit
<1> SUFFICES ASSUME Init PROVE IInv /\ Stream!StreamInit
  OBVIOUS
<1>1. Valid(buf) /\ Contents(buf) = <<>> /\ Len(buf.mem) = InitLength
  BY NewBufferIsValid DEF Init
<1>2. result = <<>> /\ peak = 0
  BY DEF Init
<1>3. CapacityBounded
  BY <1>1, <1>2, LengthAssumption DEF CapacityBounded, Larger
<1> QED BY <1>1, <1>2, <1>3 DEF IInv, Stream!StreamInit

(* A step that appends bytes: a write or what handleRead does.             *)
LEMMA AppendStep ==
  ASSUME IInv, NEW bytes \in Inputs,
         Valid(buf'), Contents(buf') = Contents(buf) \o bytes,
         \/ Len(buf'.mem) = Len(buf.mem)
         \/ Len(buf'.mem) = 2 * (readByte(buf) + Len(bytes)),
         peak' = Larger(peak, readByte(buf) + Len(bytes)), UNCHANGED result
  PROVE  IInv' /\ Stream!Put
<1>1. bytes \in Seq(Byte) /\ Len(bytes) \in Nat
  BY InputsAreBytes
<1>2. readByte(buf) \in Nat /\ Contents(buf) \in Seq(Byte) /\ Len(buf.mem) \in Nat
  BY DEF IInv, Valid, Buffer, readByte
<1>3. peak' \in Nat /\ peak <= peak' /\ readByte(buf) + Len(bytes) <= peak'
  BY <1>1, <1>2 DEF IInv, Larger
<1>4. CapacityBounded'
  BY <1>1, <1>2, <1>3, LengthAssumption DEF IInv, CapacityBounded, Larger
<1>5. IInv'
  BY <1>3, <1>4 DEF IInv
<1>6. Stream!Put
  BY <1>1, <1>2, ExtensionIsPut DEF Stream!Put
<1> QED BY <1>5, <1>6

LEMMA NextInv == IInv /\ [Next]_vars => IInv' /\ [Stream!StreamNext]_(Stream!streamVars)
<1> SUFFICES ASSUME IInv, [Next]_vars
             PROVE  IInv' /\ [Stream!StreamNext]_(Stream!streamVars)
  OBVIOUS
<1>0. /\ Valid(buf) /\ readByte(buf) \in Nat /\ Contents(buf) \in Seq(Byte)
      /\ Len(Contents(buf)) = readByte(buf) /\ result \in Seq(Byte) /\ peak \in Nat
  <2>1. Valid(buf) /\ result \in Seq(Byte) /\ peak \in Nat
    BY DEF IInv
  <2>2. readByte(buf) \in Nat /\ Contents(buf) \in Seq(Byte)
    BY <2>1 DEF Valid, Buffer, readByte
  <2>3. Len(Contents(buf)) = readByte(buf)
    BY <2>1, ContentsCells DEF Valid, readByte
  <2> QED BY <2>1, <2>2, <2>3
<1>1. ASSUME NEW bytes \in Inputs, DoWrite(bytes)
      PROVE  IInv' /\ Stream!Put
  <2>1. bytes \in Seq(Byte)
    BY <1>1, InputsAreBytes
  <2>2. buf' = Write(buf, bytes)
    BY <1>1 DEF DoWrite
  <2>3. /\ Valid(buf') /\ Contents(buf') = Contents(buf) \o bytes
        /\ \/ Len(buf'.mem) = Len(buf.mem)
           \/ Len(buf'.mem) = 2 * (readByte(buf) + Len(bytes))
    BY <1>0, <2>1, <2>2, WriteAppends
  <2> QED BY <1>1, <2>3, AppendStep DEF DoWrite
<1>2. ASSUME NEW bytes \in Inputs, DoReceive(bytes)
      PROVE  IInv' /\ Stream!Put
  <2>1. bytes \in Seq(Byte)
    BY <1>2, InputsAreBytes
  <2>2. buf' = Received(buf, bytes)
    BY <1>2 DEF DoReceive
  <2>3. /\ Valid(buf') /\ Contents(buf') = Contents(buf) \o bytes
        /\ \/ Len(buf'.mem) = Len(buf.mem)
           \/ Len(buf'.mem) = 2 * (readByte(buf) + Len(bytes))
    BY <1>0, <2>1, <2>2, ReceivedAppends
  <2> QED BY <1>2, <2>3, AppendStep DEF DoReceive
<1>3. ASSUME NEW len \in Nat, len <= readByte(buf)
      PROVE  SubSeq(buf.mem, buf.rd + 1, buf.rd + len) = Stream!Front(len)
  BY <1>0, <1>3, FrontOfContents DEF Stream!Front
<1>4. ASSUME NEW len \in Nat, len <= readByte(buf)
      PROVE  Stream!Front(len) \in Seq(Byte)
  <2>1. PICK s \in Seq(Byte) : s = Contents(buf)
    BY <1>0
  <2>2. SubSeq(s, 0 + 1, len) \in Seq(Byte)
    BY <1>0, <1>4, <2>1, PartOf
  <2> QED BY <2>1, <2>2 DEF Stream!Front
<1>5. ASSUME NEW len \in 0..MaxContent, DoRead(len)
      PROVE  IInv' /\ [Stream!StreamNext]_(Stream!streamVars)
  <2>1. len \in Nat /\ len <= readByte(buf) /\ buf' = Retrieve(buf, len)
    BY <1>5, BoundsAssumption DEF DoRead
  <2>2. /\ Valid(buf') /\ Len(buf'.mem) = Len(buf.mem)
        /\ Contents(buf') = SubSeq(Contents(buf), len + 1, Len(Contents(buf)))
    BY <1>0, <2>1, RetrieveDrops
  <2>3. result' = Stream!Front(len) /\ result' \in Seq(Byte) /\ peak' = peak
    BY <1>3, <1>4, <1>5, <2>1 DEF DoRead
  <2>4. IInv'
    BY <2>2, <2>3 DEF IInv, CapacityBounded
  <2>5. Stream!Take(len) /\ len \in 0..Len(Contents(buf))
    BY <1>0, <2>1, <2>2, <2>3 DEF Stream!Take
  <2> QED BY <2>4, <2>5 DEF Stream!StreamNext
<1>6. ASSUME NEW len \in 0..MaxContent, DoRetrieve(len)
      PROVE  IInv' /\ [Stream!StreamNext]_(Stream!streamVars)
  <2>1. /\ len \in Nat /\ len <= readByte(buf) /\ buf' = Retrieve(buf, len)
        /\ result' = result /\ peak' = peak
    BY <1>6, BoundsAssumption DEF DoRetrieve
  <2>2. /\ Valid(buf') /\ Len(buf'.mem) = Len(buf.mem)
        /\ Contents(buf') = SubSeq(Contents(buf), len + 1, Len(Contents(buf)))
    BY <1>0, <2>1, RetrieveDrops
  <2>3. IInv'
    BY <2>1, <2>2 DEF IInv, CapacityBounded
  <2>4. Stream!Drop(len) /\ len \in 0..Len(Contents(buf))
    BY <1>0, <2>1, <2>2 DEF Stream!Drop
  <2> QED BY <2>3, <2>4 DEF Stream!StreamNext
<1>7. ASSUME NEW len \in 0..MaxContent, DoPeek(len)
      PROVE  IInv' /\ [Stream!StreamNext]_(Stream!streamVars)
  <2>1. len \in Nat /\ len <= readByte(buf) /\ buf' = buf /\ peak' = peak
    BY <1>7, BoundsAssumption DEF DoPeek
  <2>2. result' = Stream!Front(len) /\ result' \in Seq(Byte)
    BY <1>3, <1>4, <1>7, <2>1 DEF DoPeek
  <2>3. IInv'
    BY <2>1, <2>2 DEF IInv, CapacityBounded
  <2>4. Stream!Peek(len) /\ len \in 0..Len(Contents(buf))
    BY <1>0, <2>1, <2>2 DEF Stream!Peek
  <2> QED BY <2>3, <2>4 DEF Stream!StreamNext
<1>8. ASSUME DoRetrieveAll
      PROVE  IInv' /\ [Stream!StreamNext]_(Stream!streamVars)
  <2>1. buf' = RetrieveAll(buf) /\ result' = result /\ peak' = peak
    BY <1>8 DEF DoRetrieveAll
  <2>2. Valid(buf') /\ Len(buf'.mem) = Len(buf.mem) /\ Contents(buf') = <<>>
    BY <1>0, <2>1, RetrieveAllEmpties
  <2>3. IInv'
    BY <2>1, <2>2 DEF IInv, CapacityBounded
  <2>4. PICK n \in Nat : n = Len(Contents(buf))
    BY <1>0
  <2>5. SubSeq(Contents(buf), n + 1, n) = <<>>
    BY SubSeqEmpty
  <2>6. Stream!Drop(n) /\ n \in 0..Len(Contents(buf))
    BY <2>1, <2>2, <2>4, <2>5 DEF Stream!Drop
  <2> QED BY <2>3, <2>6 DEF Stream!StreamNext
<1>9. CASE UNCHANGED vars
  BY <1>9 DEF vars, IInv, CapacityBounded, Stream!streamVars
<1> QED BY <1>1, <1>2, <1>5, <1>6, <1>7, <1>8, <1>9 DEF Next, Stream!StreamNext

LEMMA InvHolds == Spec => []IInv
<1> QED BY InitInv, NextInv, PTL DEF Spec

-----------------------------------------------------------------------------
(* Theorems. *)

(* The offsets stay in the memory and in order, whatever the calls          *)
(* (message_buffer.cpp:99-190).                                             *)
THEOREM TypeCorrect == Spec => []TypeOK
<1>1. IInv => TypeOK
  <2> SUFFICES ASSUME IInv PROVE TypeOK
    OBVIOUS
  <2>1. result \in Seq(Cell)
    BY BytesAreCells DEF IInv
  <2> QED BY <2>1 DEF IInv, Valid, TypeOK, Cell
<1> QED BY <1>1, InvHolds, PTL

(* No byte that nobody wrote is ever read (message_buffer.cpp:166-190).     *)
THEOREM NothingUnwrittenRead == Spec => []NoJunk
<1>1. IInv => NoJunk
  BY DEF IInv, Valid, NoJunk
<1> QED BY <1>1, InvHolds, PTL

(* An empty buffer has all its memory free (message_buffer.cpp:134-158).    *)
THEOREM EmptyIsRewound == Spec => []EmptyRewinds
<1>1. IInv => EmptyRewinds
  BY DEF IInv, Valid, Buffer, EmptyRewinds, writeByte
<1> QED BY <1>1, InvHolds, PTL

(* The memory is bounded by the largest backlog, for every length of the    *)
(* writes (message_buffer.cpp:99-107, 166-190).                             *)
THEOREM MemoryBounded == Spec => []CapacityBounded
<1>1. IInv => CapacityBounded
  BY DEF IInv
<1> QED BY <1>1, InvHolds, PTL

(* The buffer is a FIFO of bytes (message_buffer.cpp:76-164).               *)
THEOREM Refinement == Spec => RefinesByteStream
<1> QED BY InitInv, NextInv, InvHolds, PTL DEF Spec, RefinesByteStream, Stream!StreamSpec
-----------------------------------------------------------------------------
(* MessageCodec.  Induction, with sets in place of predicates. *)

LEMMA LeastNumber ==
  ASSUME NEW S \in SUBSET Nat, S # {}
  PROVE  \E m \in S : \A n \in S : m <= n
<1> DEFINE Less == OpToRel(<, Nat)
<1>1. IsWellFoundedOn(Less, Nat)
  BY NatLessThanWellFounded, Zenon
<1>2. PICK m \in S : \A y \in S : <<y, m>> \notin Less
  <2> HIDE DEF Less
  <2> QED BY <1>1, WFMin
<1>3. ASSUME NEW n \in S, ~(m <= n) PROVE FALSE
  <2>1. <<n, m>> \in Less
    BY <1>3 DEF OpToRel
  <2> QED BY <1>2, <2>1
<1> QED BY <1>3

LEMMA SetInduction ==
  ASSUME NEW S \in SUBSET Nat, 0 \in S, \A n \in S : n + 1 \in S
  PROVE  S = Nat
<1> SUFFICES ASSUME Nat \ S # {} PROVE FALSE
  OBVIOUS
<1>1. PICK m \in Nat \ S : \A n \in Nat \ S : m <= n
  BY LeastNumber
<1>2. m - 1 \in Nat /\ m - 1 \in S
  BY <1>1
<1>3. (m - 1) + 1 \in S
  BY <1>2
<1> QED BY <1>1, <1>3

(* g begins with c and goes on by step, up to n. *)
Follows(g, n, c, step) == g[0] = c /\ \A i \in 0..(n - 1) : g[i + 1] = step[i][g[i]]

(* What is defined by recursion exists. *)
LEMMA RecursionUpTo ==
  ASSUME NEW T, NEW c \in T, NEW step \in [Nat -> [T -> T]]
  PROVE  \A n \in Nat : \E g \in [0..n -> T] : Follows(g, n, c, step)
<1> DEFINE S == {n \in Nat : \E g \in [0..n -> T] : Follows(g, n, c, step)}
<1>1. 0 \in S
  <2>1. [i \in 0..0 |-> c] \in [0..0 -> T] /\ Follows([i \in 0..0 |-> c], 0, c, step)
    BY DEF Follows
  <2> QED BY <2>1
<1>2. ASSUME NEW n \in S PROVE n + 1 \in S
  <2>1. PICK g \in [0..n -> T] : Follows(g, n, c, step)
    OBVIOUS
  <2>2. PICK h : h = [i \in 0..(n + 1) |-> IF i = n + 1 THEN step[n][g[n]] ELSE g[i]]
    OBVIOUS
  <2>3. step[n] \in [T -> T] /\ g[n] \in T /\ n \in 0..n
    OBVIOUS
  <2>4. step[n][g[n]] \in T
    BY <2>3
  <2>5. h \in [0..(n + 1) -> T]
    BY <2>2, <2>4
  <2>6. h[n + 1] = step[n][g[n]] /\ \A i \in 0..n : h[i] = g[i]
    BY <2>2
  <2>7. ASSUME NEW i \in 0..n PROVE h[i + 1] = step[i][h[i]]
    <3>1. CASE i = n
      BY <2>3, <2>6, <3>1
    <3>2. CASE i # n
      <4>1. i \in 0..(n - 1) /\ i + 1 \in 0..n
        BY <3>2
      <4> QED BY <2>1, <2>6, <4>1 DEF Follows
    <3> QED BY <3>1, <3>2
  <2>8. h[0] = c
    BY <2>1, <2>6 DEF Follows
  <2>9. (n + 1) - 1 = n
    OBVIOUS
  <2>10. Follows(h, n + 1, c, step)
    BY <2>7, <2>8, <2>9 DEF Follows
  <2> QED BY <2>5, <2>10
<1>3. S = Nat
  <2> HIDE DEF S
  <2>1. S \in SUBSET Nat
    BY DEF S
  <2> QED BY <1>1, <1>2, <2>1, SetInduction
<1> QED BY <1>3

GoesOn(f, c, step) == f[0] = c /\ \A n \in Nat : f[n + 1] = step[n][f[n]]

LEMMA Recursion ==
  ASSUME NEW T, NEW c \in T, NEW step \in [Nat -> [T -> T]]
  PROVE  \E f \in [Nat -> T] : GoesOn(f, c, step)
<1> DEFINE G(n) == CHOOSE g \in [0..n -> T] : Follows(g, n, c, step)
           S == {m \in Nat : \A n \in Nat : n >= m => G(n)[m] = G(m)[m]}
           f == [n \in Nat |-> G(n)[n]]
<1>1. ASSUME NEW n \in Nat
      PROVE  /\ G(n) \in [0..n -> T] /\ G(n)[0] = c
             /\ \A i \in 0..(n - 1) : G(n)[i + 1] = step[i][G(n)[i]]
  <2>1. \E g \in [0..n -> T] : Follows(g, n, c, step)
    BY RecursionUpTo
  <2>2. G(n) \in [0..n -> T] /\ Follows(G(n), n, c, step)
    BY <2>1
  <2> HIDE DEF G
  <2> QED BY <2>2 DEF Follows
<1> HIDE DEF G
<1>2. 0 \in S
  BY <1>1
<1>3. ASSUME NEW m \in S PROVE m + 1 \in S
  <2>1. ASSUME NEW n \in Nat, n >= m + 1 PROVE G(n)[m + 1] = G(m + 1)[m + 1]
    <3>1. m \in 0..(n - 1) /\ m \in 0..((m + 1) - 1) /\ n >= m /\ m + 1 >= m /\ m + 1 \in Nat
      BY <2>1
    <3>2. G(n)[m] = G(m)[m] /\ G(m + 1)[m] = G(m)[m]
      BY <3>1
    <3>3. G(n)[m + 1] = step[m][G(n)[m]] /\ G(m + 1)[m + 1] = step[m][G(m + 1)[m]]
      BY <1>1, <3>1
    <3> QED BY <3>2, <3>3
  <2> QED BY <2>1
<1>4. S = Nat
  <2> HIDE DEF S
  <2>1. S \in SUBSET Nat
    BY DEF S
  <2> QED BY <1>2, <1>3, <2>1, SetInduction
<1>5. f \in [Nat -> T]
  <2>1. ASSUME NEW n \in Nat PROVE G(n)[n] \in T
    <3>1. n \in 0..n
      OBVIOUS
    <3> QED BY <1>1, <3>1
  <2> QED BY <2>1
<1>6. f[0] = c
  BY <1>1
<1>7. ASSUME NEW n \in Nat PROVE f[n + 1] = step[n][f[n]]
  <2>1. n \in 0..((n + 1) - 1) /\ n + 1 \in Nat /\ n + 1 >= n
    OBVIOUS
  <2>2. G(n + 1)[n + 1] = step[n][G(n + 1)[n]]
    BY <1>1, <2>1
  <2>3. G(n + 1)[n] = G(n)[n]
    BY <1>4, <2>1
  <2> QED BY <2>1, <2>2, <2>3
<1> HIDE DEF f
<1> QED BY <1>5, <1>6, <1>7 DEF GoesOn

-----------------------------------------------------------------------------
(* Division, and the powers of Base. *)

LEMMA Divided ==
  ASSUME NEW a \in Int, NEW d \in Nat \ {0}
  PROVE  /\ a \div d \in Int /\ a % d \in 0..(d - 1)
         /\ a = d * (a \div d) + (a % d)
OBVIOUS

LEMMA DivisionIsUnique ==
  ASSUME NEW d \in Nat \ {0}, NEW q \in Int, NEW r \in 0..(d - 1),
         NEW p \in Int, NEW s \in 0..(d - 1), d * q + r = d * p + s
  PROVE  q = p /\ r = s
<1>1. CASE q > p
  <2>1. PICK k \in Nat : q = p + 1 + k
    <3>1. q - p - 1 \in Nat /\ q = p + 1 + (q - p - 1)
      BY <1>1
    <3> QED BY <3>1
  <2>2. d * q = d * p + d + d * k
    BY <2>1
  <2>3. d * k >= 0 /\ d * k \in Int /\ d * p \in Int
    OBVIOUS
  <2> QED BY <2>2, <2>3
<1>2. CASE p > q
  <2>1. PICK k \in Nat : p = q + 1 + k
    <3>1. p - q - 1 \in Nat /\ p = q + 1 + (p - q - 1)
      BY <1>2
    <3> QED BY <3>1
  <2>2. d * p = d * q + d + d * k
    BY <2>1
  <2>3. d * k >= 0 /\ d * k \in Int /\ d * q \in Int
    OBVIOUS
  <2> QED BY <2>2, <2>3
<1>3. CASE p = q
  BY <1>3
<1> QED BY <1>1, <1>2, <1>3

LEMMA Quotient ==
  ASSUME NEW d \in Nat \ {0}, NEW q \in Int, NEW r \in 0..(d - 1)
  PROVE  (d * q + r) \div d = q /\ (d * q + r) % d = r
<1>1. PICK a \in Int : a = d * q + r
  OBVIOUS
<1>2. /\ a \div d \in Int /\ a % d \in 0..(d - 1)
      /\ a = d * (a \div d) + (a % d)
  BY <1>1, Divided
<1>3. a \div d = q /\ a % d = r
  BY <1>1, <1>2, DivisionIsUnique
<1> QED BY <1>1, <1>3

LEMMA PowerIs ==
  /\ Power[0] = 1
  /\ \A n \in Nat : Power[n] \in Nat \ {0} /\ Power[n + 1] = Base * Power[n]
<1> DEFINE step == [n \in Nat |-> [x \in Nat |-> Base * x]]
           Unfolds(g) == g = [n \in Nat |-> IF n = 0 THEN 1 ELSE Base * g[n - 1]]
<1>1. step \in [Nat -> [Nat -> Nat]]
  BY BaseAssumption
<1>2. PICK f \in [Nat -> Nat] : GoesOn(f, 1, step)
  <2>1. 1 \in Nat
    OBVIOUS
  <2> HIDE DEF step
  <2> QED BY <1>1, <2>1, Recursion
<1>3. f[0] = 1 /\ \A n \in Nat : f[n + 1] = Base * f[n]
  BY <1>2 DEF GoesOn
<1>4. Unfolds(f)
  <2>1. ASSUME NEW n \in Nat PROVE f[n] = IF n = 0 THEN 1 ELSE Base * f[n - 1]
    <3>1. CASE n = 0
      BY <1>3, <3>1
    <3>2. CASE n # 0
      <4>1. n - 1 \in Nat /\ (n - 1) + 1 = n
        BY <3>2
      <4>2. f[(n - 1) + 1] = Base * f[n - 1]
        BY <1>3, <4>1
      <4> QED BY <3>2, <4>1, <4>2
    <3> QED BY <3>1, <3>2
  <2>2. f = [n \in Nat |-> f[n]]
    BY <1>2
  <2> QED BY <2>1, <2>2
<1>5. Unfolds(Power)
  <2>1. Power = CHOOSE g : Unfolds(g)
    BY Zenon DEF Power
  <2> HIDE DEF Unfolds
  <2> QED BY <1>4, <2>1
<1>6. Power[0] = 1
  BY <1>5
<1>7. ASSUME NEW n \in Nat PROVE Power[n + 1] = Base * Power[n]
  <2>1. n + 1 \in Nat /\ n + 1 # 0 /\ (n + 1) - 1 = n
    OBVIOUS
  <2>2. Power[n + 1] = Base * Power[(n + 1) - 1]
    BY <1>5, <2>1
  <2> QED BY <2>1, <2>2
<1>8. \A n \in Nat : Power[n] \in Nat \ {0}
  <2> DEFINE S == {n \in Nat : Power[n] \in Nat \ {0}}
  <2>1. 0 \in S
    BY <1>6
  <2>2. ASSUME NEW n \in S PROVE n + 1 \in S
    <3>1. PICK b \in Nat \ {0}, p \in Nat \ {0} : b = Base /\ p = Power[n]
      BY BaseAssumption
    <3>2. b * p \in Nat \ {0}
      OBVIOUS
    <3> QED BY <1>7, <3>1, <3>2
  <2>3. S \in SUBSET Nat
    OBVIOUS
  <2> HIDE DEF S
  <2>4. S = Nat
    BY <2>1, <2>2, <2>3, SetInduction
  <2> QED BY <2>4 DEF S
<1> QED BY <1>6, <1>7, <1>8

-----------------------------------------------------------------------------
(* Integers and their bytes. *)

Numbers(k) == 0..(Power[k] - 1)

LEMMA ByteTypes ==
  ASSUME NEW val \in Nat, NEW k \in Nat
  PROVE  /\ HostBytes(val, k) \in [1..k -> Byte]
         /\ \A i \in 1..k : HostBytes(val, k)[i] = (val \div Power[i - 1]) % Base
<1>1. ASSUME NEW i \in 1..k PROVE (val \div Power[i - 1]) % Base \in Byte
  <2>1. i - 1 \in Nat
    OBVIOUS
  <2>2. PICK p \in Nat \ {0} : p = Power[i - 1]
    BY <2>1, PowerIs
  <2>3. val \div p \in Int
    BY Divided
  <2>4. (val \div p) % Base \in 0..(Base - 1)
    BY <2>3, Divided, BaseAssumption
  <2> QED BY <2>2, <2>4, BaseAssumption
<1> QED BY <1>1 DEF HostBytes

(* Division by the base and a power is division by one after the other. *)
LEMMA ShiftedDivision ==
  ASSUME NEW val \in Nat, NEW low \in Byte, NEW p \in Nat \ {0}
  PROVE  (Base * val + low) \div (Base * p) = val \div p
<1>1. PICK q \in Int, r \in 0..(p - 1) : q = val \div p /\ val = p * q + r
  <2>1. val \div p \in Int /\ val % p \in 0..(p - 1) /\ val = p * (val \div p) + (val % p)
    BY Divided
  <2> QED BY <2>1
<1>2. PICK b \in Nat \ {0} : b = Base
  BY BaseAssumption
<1>3. low \in 0..(b - 1)
  BY <1>2, BaseAssumption
<1>4. b * p \in Nat \ {0}
  OBVIOUS
<1>5. b * r + low \in 0..(b * p - 1)
  <2>1. PICK k \in Nat : p = r + 1 + k
    <3>1. p - r - 1 \in Nat /\ p = r + 1 + (p - r - 1)
      OBVIOUS
    <3> QED BY <3>1
  <2>2. b * p = b * r + b + b * k /\ b * k \in Nat /\ b * r \in Nat
    BY <2>1
  <2> QED BY <1>3, <2>2
<1>6. b * val + low = (b * p) * q + (b * r + low)
  <2>1. b * (p * q + r) = (b * p) * q + b * r
    OBVIOUS
  <2>2. b * val = b * (p * q + r)
    BY <1>1
  <2>3. b * val \in Int /\ (b * p) * q \in Int /\ b * r \in Int
    OBVIOUS
  <2> QED BY <1>3, <2>1, <2>2, <2>3
<1>7. (b * val + low) \div (b * p) = q
  BY <1>4, <1>5, <1>6, Quotient
<1> QED BY <1>1, <1>2, <1>7

(* The number whose lowest byte is low. *)
Prepended(low, val) == Base * val + low

(* Of its k + 1 bytes low is the first and those of val follow. *)
LowestFirst(low, val, k) ==
  /\ HostBytes(Prepended(low, val), k + 1)[1] = low
  /\ \A i \in 1..k : HostBytes(Prepended(low, val), k + 1)[i + 1] = HostBytes(val, k)[i]

LEMMA LowestByte ==
  ASSUME NEW val \in Nat, NEW low \in Byte, NEW k \in Nat
  PROVE  Prepended(low, val) \in Nat /\ LowestFirst(low, val, k)
<1>1. Base \in Nat \ {0} /\ low \in 0..(Base - 1)
  BY BaseAssumption
<1>2. PICK n \in Nat : n = Prepended(low, val) /\ n = Base * val + low
  <2>1. Base * val \in Nat
    BY <1>1
  <2> QED BY <1>1, <2>1 DEF Prepended
<1>3. \A i \in 1..(k + 1) : HostBytes(n, k + 1)[i] = (n \div Power[i - 1]) % Base
  BY ByteTypes
<1>4. HostBytes(n, k + 1)[1] = low
  <2>1. 1 \in 1..(k + 1) /\ 1 - 1 = 0
    OBVIOUS
  <2>2. n \div 1 = n
    <3>1. n = 1 * n + 0 /\ 0 \in 0..(1 - 1)
      OBVIOUS
    <3> QED BY <3>1, Quotient, 1 \in Nat \ {0}
  <2>3. n % Base = low
    BY <1>1, <1>2, Quotient
  <2> QED BY <1>3, <2>1, <2>2, <2>3, PowerIs
<1>5. ASSUME NEW i \in 1..k PROVE HostBytes(n, k + 1)[i + 1] = HostBytes(val, k)[i]
  <2>1. i + 1 \in 1..(k + 1) /\ (i + 1) - 1 = i /\ i - 1 \in Nat /\ (i - 1) + 1 = i
    OBVIOUS
  <2>2. PICK p \in Nat \ {0} : p = Power[i - 1]
    BY <2>1, PowerIs
  <2>3. Power[i] = Base * p
    BY <2>1, <2>2, PowerIs
  <2>4. n \div (Base * p) = val \div p
    BY <1>2, ShiftedDivision
  <2>5. HostBytes(n, k + 1)[i + 1] = (n \div (Base * p)) % Base
    BY <1>3, <2>1, <2>3
  <2>6. HostBytes(val, k)[i] = (val \div p) % Base
    BY <2>2, ByteTypes
  <2> QED BY <2>4, <2>5, <2>6
<1> QED BY <1>2, <1>4, <1>5 DEF LowestFirst

(* Every row of bytes is a number's. *)
Represented(k) ==
  \A bytes \in [1..k -> Byte] : \E val \in Numbers(k) : HostBytes(val, k) = bytes

LEMMA SomeValue == \A k \in Nat : Represented(k)
<1> DEFINE S == {k \in Nat : Represented(k)}
<1>1. Represented(0)
  <2>1. 0 \in Numbers(0)
    BY PowerIs DEF Numbers
  <2>2. ASSUME NEW bytes \in [1..0 -> Byte] PROVE HostBytes(0, 0) = bytes
    <3>1. HostBytes(0, 0) \in [1..0 -> Byte]
      BY ByteTypes
    <3>2. \A i \in 1..0 : HostBytes(0, 0)[i] = bytes[i]
      OBVIOUS
    <3> QED BY <3>1, <3>2
  <2> QED BY <2>1, <2>2 DEF Represented
<1>2. ASSUME NEW k \in Nat, Represented(k) PROVE Represented(k + 1)
  <2> SUFFICES ASSUME NEW bytes \in [1..(k + 1) -> Byte]
               PROVE  \E val \in Numbers(k + 1) : HostBytes(val, k + 1) = bytes
    BY DEF Represented
  <2>1. k \in Nat /\ k + 1 \in Nat
    OBVIOUS
  <2>2. PICK high : high = [i \in 1..k |-> bytes[i + 1]]
    OBVIOUS
  <2>3. high \in [1..k -> Byte] /\ \A i \in 1..k : high[i] = bytes[i + 1]
    BY <2>1, <2>2
  <2>4. PICK val \in Numbers(k) : HostBytes(val, k) = high
    BY <1>2, <2>3 DEF Represented
  <2>5. PICK low \in Byte : low = bytes[1]
    <3>1. 1 \in 1..(k + 1)
      BY <2>1
    <3> QED BY <3>1
  <2>6. PICK p \in Nat \ {0} : p = Power[k] /\ Power[k + 1] = Base * p
    BY <2>1, PowerIs
  <2>7. val \in 0..(p - 1) /\ val \in Nat
    BY <2>6 DEF Numbers
  <2>8. Prepended(low, val) \in Numbers(k + 1)
    <3>1. PICK b \in Nat \ {0} : b = Base /\ low \in 0..(b - 1)
      BY BaseAssumption
    <3>2. PICK m \in Nat : p = val + 1 + m
      <4>1. p - val - 1 \in Nat /\ p = val + 1 + (p - val - 1)
        BY <2>7
      <4> QED BY <4>1
    <3>3. b * p = b * val + b + b * m /\ b * m \in Nat /\ b * val \in Nat
      BY <2>7, <3>2
    <3>4. b * val + low \in 0..(b * p - 1)
      BY <3>1, <3>3
    <3> QED BY <2>6, <3>1, <3>4 DEF Numbers, Prepended
  <2>9. PICK n \in Nat : n = Prepended(low, val)
    BY <2>1, <2>7, LowestByte
  <2>10. /\ HostBytes(n, k + 1)[1] = low
         /\ \A i \in 1..k : HostBytes(n, k + 1)[i + 1] = high[i]
    <3>1. LowestFirst(low, val, k)
      BY <2>1, <2>7, LowestByte
    <3> QED BY <2>4, <2>9, <3>1 DEF LowestFirst
  <2>11. HostBytes(n, k + 1) \in [1..(k + 1) -> Byte]
    BY <2>1, ByteTypes
  <2>12. ASSUME NEW j \in 1..(k + 1) PROVE HostBytes(n, k + 1)[j] = bytes[j]
    <3>1. CASE j = 1
      BY <2>5, <2>10, <3>1
    <3>2. CASE j # 1
      <4>1. j - 1 \in 1..k /\ (j - 1) + 1 = j
        BY <2>1, <3>2
      <4> QED BY <2>3, <2>10, <4>1
    <3> QED BY <3>1, <3>2
  <2>13. HostBytes(n, k + 1) = bytes
    BY <2>11, <2>12
  <2> QED BY <2>8, <2>9, <2>13
<1>3. 0 \in S /\ (\A k \in S : k + 1 \in S) /\ S \in SUBSET Nat
  BY <1>1, <1>2
<1>4. S = Nat
  <2> HIDE DEF S
  <2> QED BY <1>3, SetInduction
<1> QED BY <1>4

(* The lowest byte and the number without it. *)
LEMMA WithoutLowest ==
  ASSUME NEW k \in Nat, NEW val \in Numbers(k + 1)
  PROVE  \E high \in Numbers(k), low \in Byte : val = Prepended(low, high)
<1>1. PICK p \in Nat \ {0} : p = Power[k] /\ Power[k + 1] = Base * p
  BY PowerIs
<1>2. PICK b \in Nat \ {0} : b = Base
  BY BaseAssumption
<1>3. val \in 0..(b * p - 1) /\ val \in Int
  BY <1>1, <1>2 DEF Numbers
<1>4. PICK high \in Int, low \in 0..(b - 1) : val = b * high + low
  <2>1. /\ val \div b \in Int /\ val % b \in 0..(b - 1)
        /\ val = b * (val \div b) + (val % b)
    BY <1>3, Divided
  <2> QED BY <2>1
<1>5. high >= 0
  <2> SUFFICES ASSUME high < 0 PROVE FALSE
    OBVIOUS
  <2>1. PICK m \in Nat : high = 0 - 1 - m
    <3>1. 0 - 1 - high \in Nat /\ high = 0 - 1 - (0 - 1 - high)
      OBVIOUS
    <3> QED BY <3>1
  <2>2. b * high = 0 - b - b * m /\ b * m \in Nat
    BY <2>1
  <2> QED BY <1>3, <1>4, <2>2
<1>6. high < p
  <2> SUFFICES ASSUME high >= p PROVE FALSE
    OBVIOUS
  <2>1. PICK m \in Nat : high = p + m
    <3>1. high - p \in Nat /\ high = p + (high - p)
      OBVIOUS
    <3> QED BY <3>1
  <2>2. b * high = b * p + b * m /\ b * m \in Nat /\ b * p \in Nat
    BY <2>1
  <2> QED BY <1>3, <1>4, <2>2
<1>7. high \in Numbers(k)
  BY <1>1, <1>5, <1>6 DEF Numbers
<1>8. low \in Byte
  BY <1>2, <1>4, BaseAssumption
<1> QED BY <1>2, <1>4, <1>7, <1>8 DEF Prepended

(* Two numbers with the same bytes are the same. *)
ToldApart(k) == \A v, w \in Numbers(k) : HostBytes(v, k) = HostBytes(w, k) => v = w

LEMMA OneValue == \A k \in Nat : ToldApart(k)
<1> DEFINE S == {k \in Nat : ToldApart(k)}
<1>1. ToldApart(0)
  <2>1. \A v \in Numbers(0) : v = 0
    BY PowerIs DEF Numbers
  <2> QED BY <2>1 DEF ToldApart
<1>2. ASSUME NEW k \in Nat, ToldApart(k) PROVE ToldApart(k + 1)
  <2> SUFFICES ASSUME NEW v \in Numbers(k + 1), NEW w \in Numbers(k + 1),
                      HostBytes(v, k + 1) = HostBytes(w, k + 1)
               PROVE  v = w
    BY DEF ToldApart
  <2>1. k \in Nat /\ k + 1 \in Nat
    OBVIOUS
  <2>2. PICK vHigh \in Numbers(k), vLow \in Byte : v = Prepended(vLow, vHigh)
    BY <2>1, WithoutLowest
  <2>3. PICK wHigh \in Numbers(k), wLow \in Byte : w = Prepended(wLow, wHigh)
    BY <2>1, WithoutLowest
  <2>4. vHigh \in Nat /\ wHigh \in Nat
    BY <2>1, PowerIs DEF Numbers
  <2>5. /\ HostBytes(v, k + 1)[1] = vLow
        /\ \A i \in 1..k : HostBytes(v, k + 1)[i + 1] = HostBytes(vHigh, k)[i]
    <3>1. LowestFirst(vLow, vHigh, k)
      BY <2>1, <2>4, LowestByte
    <3> QED BY <2>2, <3>1 DEF LowestFirst
  <2>6. /\ HostBytes(w, k + 1)[1] = wLow
        /\ \A i \in 1..k : HostBytes(w, k + 1)[i + 1] = HostBytes(wHigh, k)[i]
    <3>1. LowestFirst(wLow, wHigh, k)
      BY <2>1, <2>4, LowestByte
    <3> QED BY <2>3, <3>1 DEF LowestFirst
  <2>7. vLow = wLow
    BY <2>5, <2>6
  <2>8. HostBytes(vHigh, k) = HostBytes(wHigh, k)
    <3>1. HostBytes(vHigh, k) \in [1..k -> Byte] /\ HostBytes(wHigh, k) \in [1..k -> Byte]
      BY <2>1, <2>4, ByteTypes
    <3>2. \A i \in 1..k : HostBytes(vHigh, k)[i] = HostBytes(wHigh, k)[i]
      BY <2>5, <2>6
    <3> QED BY <3>1, <3>2
  <2>9. vHigh = wHigh
    BY <1>2, <2>8 DEF ToldApart
  <2> QED BY <2>2, <2>3, <2>7, <2>9
<1>3. 0 \in S /\ (\A k \in S : k + 1 \in S) /\ S \in SUBSET Nat
  BY <1>1, <1>2
<1>4. S = Nat
  <2> HIDE DEF S
  <2> QED BY <1>3, SetInduction
<1> QED BY <1>4

(* Reading an integer from memory is the inverse of storing it. *)
LEMMA ValueIs ==
  ASSUME NEW k \in Nat, NEW bytes \in [1..k -> Byte]
  PROVE  HostValue(bytes) \in Numbers(k) /\ HostBytes(HostValue(bytes), k) = bytes
<1>1. Len(bytes) = k
  BY FunctionIsSeq
<1>2. \E val \in Numbers(k) : HostBytes(val, k) = bytes
  BY SomeValue DEF Represented
<1>3. HostValue(bytes) = CHOOSE val \in Numbers(k) : HostBytes(val, k) = bytes
  BY <1>1 DEF HostValue, Numbers
<1> QED BY <1>2, <1>3

LEMMA ValueOf ==
  ASSUME NEW k \in Nat, NEW val \in Numbers(k)
  PROVE  /\ HostBytes(val, k) \in [1..k -> Byte]
         /\ HostValue(HostBytes(val, k)) = val
<1>1. val \in Nat
  BY PowerIs DEF Numbers
<1>2. HostBytes(val, k) \in [1..k -> Byte]
  BY <1>1, ByteTypes
<1>3. /\ HostValue(HostBytes(val, k)) \in Numbers(k)
      /\ HostBytes(HostValue(HostBytes(val, k)), k) = HostBytes(val, k)
  BY <1>2, ValueIs
<1> QED BY <1>2, <1>3, OneValue DEF ToldApart

(* Network byte order is the host's turned round. *)
LEMMA TurnedRound ==
  ASSUME NEW k \in Nat, NEW bytes \in [1..k -> Byte]
  PROVE  /\ Reverse(bytes) \in [1..k -> Byte]
         /\ \A i \in 1..k : Reverse(bytes)[i] = bytes[(k - i) + 1]
         /\ Reverse(Reverse(bytes)) = bytes
<1>1. \A b \in [1..k -> Byte] :
        /\ Reverse(b) \in [1..k -> Byte]
        /\ \A i \in 1..k : Reverse(b)[i] = b[(k - i) + 1]
  <2> SUFFICES ASSUME NEW b \in [1..k -> Byte]
               PROVE  /\ Reverse(b) \in [1..k -> Byte]
                      /\ \A i \in 1..k : Reverse(b)[i] = b[(k - i) + 1]
    OBVIOUS
  <2>1. Len(b) = k
    BY FunctionIsSeq
  <2>2. Reverse(b) = [i \in 1..k |-> b[(k - i) + 1]]
    BY <2>1 DEF Reverse
  <2>3. \A i \in 1..k : (k - i) + 1 \in 1..k
    OBVIOUS
  <2> QED BY <2>2, <2>3
<1>2. Reverse(bytes) \in [1..k -> Byte] /\ Reverse(Reverse(bytes)) \in [1..k -> Byte]
  BY <1>1
<1>3. ASSUME NEW i \in 1..k PROVE Reverse(Reverse(bytes))[i] = bytes[i]
  <2>1. (k - i) + 1 \in 1..k /\ (k - ((k - i) + 1)) + 1 = i
    OBVIOUS
  <2>2. Reverse(Reverse(bytes))[i] = Reverse(bytes)[(k - i) + 1]
    BY <1>1, <1>2
  <2>3. Reverse(bytes)[(k - i) + 1] = bytes[(k - ((k - i) + 1)) + 1]
    BY <1>1, <2>1
  <2> QED BY <2>1, <2>2, <2>3
<1>4. Reverse(Reverse(bytes)) = bytes
  BY <1>2, <1>3
<1> QED BY <1>1, <1>4

(* An integer that was written. *)
Message == {x \in [width : Widths, val : Nat] : x.val \in Numbers(x.width)}

LEMMA NetworkIs ==
  ASSUME NEW x \in Message
  PROVE  /\ x.width \in Nat \ {0} /\ x.val \in Numbers(x.width) /\ x.val \in Nat
         /\ NetworkBytes(x) = Reverse(HostBytes(x.val, x.width))
         /\ NetworkBytes(x) \in [1..x.width -> Byte]
         /\ NetworkBytes(x) \in Seq(Byte) /\ Len(NetworkBytes(x)) = x.width
<1>1. x.width \in Nat \ {0} /\ x.val \in Numbers(x.width) /\ x.val \in Nat
  BY WidthsAssumption DEF Message
<1>2. PICK k \in Nat, val \in Nat : k = x.width /\ val = x.val
  BY <1>1
<1>3. PICK host \in [1..k -> Byte] : host = HostBytes(val, k)
  BY ByteTypes
<1>4. /\ Reverse(host) \in [1..k -> Byte]
      /\ \A i \in 1..k : Reverse(host)[i] = host[(k - i) + 1]
  BY TurnedRound
<1>5. NetworkBytes(x) = [i \in 1..k |-> (val \div Power[k - i]) % Base]
  BY <1>2 DEF NetworkBytes
<1>6. ASSUME NEW i \in 1..k PROVE (val \div Power[k - i]) % Base = Reverse(host)[i]
  <2>1. (k - i) + 1 \in 1..k /\ ((k - i) + 1) - 1 = k - i
    OBVIOUS
  <2>2. host[(k - i) + 1] = (val \div Power[((k - i) + 1) - 1]) % Base
    BY <1>3, <2>1, ByteTypes
  <2> QED BY <1>4, <2>1, <2>2
<1>7. NetworkBytes(x) = Reverse(host)
  <2>1. Reverse(host) = [i \in 1..k |-> Reverse(host)[i]]
    BY <1>4
  <2> QED BY <1>5, <1>6, <2>1
<1>8. NetworkBytes(x) \in Seq(Byte) /\ Len(NetworkBytes(x)) = k
  BY <1>4, <1>7, FunctionIsSeq
<1> QED BY <1>1, <1>2, <1>3, <1>4, <1>7, <1>8

LEMMA OneByte ==
  ASSUME NEW bytes \in [1..1 -> Byte]
  PROVE  Reverse(bytes) = bytes
<1>1. /\ Reverse(bytes) \in [1..1 -> Byte]
      /\ \A i \in 1..1 : Reverse(bytes)[i] = bytes[(1 - i) + 1]
  BY TurnedRound
<1>2. \A i \in 1..1 : (1 - i) + 1 = i
  OBVIOUS
<1> QED BY <1>1, <1>2

(* What writeInt8 ... writeInt64 append. *)
LEMMA WrittenBytes ==
  ASSUME NEW x \in Message
  PROVE  HostBytes(hostToNetwork(x.val, x.width), x.width) = NetworkBytes(x)
<1>1. PICK k \in Nat, val \in Nat : k = x.width /\ val = x.val
  BY NetworkIs
<1>2. PICK host \in [1..k -> Byte] : host = HostBytes(val, k)
  BY ByteTypes
<1>3. NetworkBytes(x) = Reverse(host)
  BY <1>1, <1>2, NetworkIs
<1>4. CASE k = 1
  BY <1>1, <1>2, <1>3, <1>4, OneByte DEF hostToNetwork
<1>5. CASE k # 1
  <2>1. hostToNetwork(val, k) = HostValue(Reverse(host))
    BY <1>2, <1>5 DEF hostToNetwork
  <2>2. HostBytes(HostValue(Reverse(host)), k) = Reverse(host)
    BY TurnedRound, ValueIs
  <2> QED BY <1>1, <1>3, <2>1, <2>2
<1> QED BY <1>4, <1>5

(* What readInt8 ... readInt64 make of it. *)
LEMMA ReadBack ==
  ASSUME NEW x \in Message
  PROVE  networkToHost(HostValue(NetworkBytes(x)), x.width) = x.val
<1>1. PICK k \in Nat : k = x.width
  BY NetworkIs
<1>2. PICK val \in Numbers(k) : val = x.val
  BY <1>1, NetworkIs
<1>3. PICK host \in [1..k -> Byte] : host = HostBytes(val, k) /\ HostValue(host) = val
  BY ValueOf
<1>4. NetworkBytes(x) = Reverse(host) /\ Reverse(host) \in [1..k -> Byte]
  BY <1>1, <1>2, <1>3, NetworkIs
<1>5. CASE k = 1
  BY <1>1, <1>2, <1>3, <1>4, <1>5, OneByte DEF networkToHost
<1>6. CASE k # 1
  <2>1. networkToHost(HostValue(Reverse(host)), k) =
          HostValue(Reverse(HostBytes(HostValue(Reverse(host)), k)))
    BY <1>6 DEF networkToHost
  <2>2. HostBytes(HostValue(Reverse(host)), k) = Reverse(host)
    BY <1>4, ValueIs
  <2>3. Reverse(Reverse(host)) = host
    BY TurnedRound
  <2> QED BY <1>1, <1>2, <1>3, <1>4, <2>1, <2>2, <2>3
<1> QED BY <1>5, <1>6

-----------------------------------------------------------------------------
(* Rows of rows of bytes. *)

(* f are the first ones of ss, up to n, joined. *)
Joins(f, ss, n) == f[0] = <<>> /\ \A i \in 0..(n - 1) : f[i + 1] = f[i] \o ss[i + 1]

LEMMA JoinedOnce ==
  ASSUME NEW ss, NEW n \in Nat, NEW f, NEW g, Joins(f, ss, n), Joins(g, ss, n)
  PROVE  f[n] = g[n]
<1> DEFINE S == {i \in Nat : i <= n => f[i] = g[i]}
<1>1. 0 \in S
  BY DEF Joins
<1>2. ASSUME NEW i \in S PROVE i + 1 \in S
  <2> SUFFICES ASSUME i + 1 <= n PROVE f[i + 1] = g[i + 1]
    OBVIOUS
  <2>1. i \in 0..(n - 1) /\ f[i] = g[i]
    OBVIOUS
  <2> QED BY <2>1 DEF Joins
<1>3. S \in SUBSET Nat
  OBVIOUS
<1>4. S = Nat
  <2> HIDE DEF S
  <2> QED BY <1>1, <1>2, <1>3, SetInduction
<1> QED BY <1>4

LEMMA Regrouped == \A s, t, u \in Seq(Byte) : (s \o t) \o u = s \o (t \o u)
BY ConcatAssociative

LEMMA FlattenIs ==
  ASSUME NEW ss \in Seq(Seq(Byte))
  PROVE  \E f \in [0..Len(ss) -> Seq(Byte)] :
           Joins(f, ss, Len(ss)) /\ FlattenSeq(ss) = f[Len(ss)]
<1>1. PICK n \in Nat : n = Len(ss)
  OBVIOUS
<1> DEFINE next(i) == IF i + 1 \in 1..n THEN ss[i + 1] ELSE <<>>
           step == [i \in Nat |-> [s \in Seq(Byte) |-> s \o next(i)]]
<1>2. ASSUME NEW i \in Nat PROVE next(i) \in Seq(Byte)
  <2>1. CASE i + 1 \in 1..n
    BY <1>1, <2>1, ElementOfSeq
  <2>2. CASE i + 1 \notin 1..n
    BY <2>2
  <2> QED BY <2>1, <2>2
<1>3. step \in [Nat -> [Seq(Byte) -> Seq(Byte)]]
  <2> HIDE DEF next
  <2>1. \A i \in Nat, s \in Seq(Byte) : s \o next(i) \in Seq(Byte)
    BY <1>2, ConcatProperties
  <2> QED BY <2>1
<1>4. PICK f \in [0..n -> Seq(Byte)] : Follows(f, n, <<>>, step)
  <2>1. <<>> \in Seq(Byte)
    BY EmptySeq
  <2> HIDE DEF step
  <2> QED BY <1>3, <2>1, RecursionUpTo
<1>5. f[0] = <<>> /\ \A i \in 0..(n - 1) : f[i + 1] = f[i] \o ss[i + 1]
  <2>1. ASSUME NEW i \in 0..(n - 1) PROVE f[i + 1] = f[i] \o ss[i + 1]
    <3>1. i \in Nat /\ i \in 0..n /\ i + 1 \in 1..n
      OBVIOUS
    <3>2. f[i] \in Seq(Byte)
      BY <3>1
    <3>3. f[i + 1] = step[i][f[i]]
      BY <1>4 DEF Follows
    <3>4. next(i) = ss[i + 1]
      BY <3>1
    <3> HIDE DEF next
    <3> QED BY <3>1, <3>2, <3>3, <3>4
  <2> QED BY <1>4, <2>1 DEF Follows
<1>6. Joins(f, ss, n)
  BY <1>5 DEF Joins
<1> HIDE DEF next, step
<1>7. FlattenSeq(ss) = f[n]
  <2>1. CASE n = 0
    <3>1. ss = <<>>
      BY <1>1, <2>1, EmptySeq
    <3> QED BY <1>1, <1>5, <2>1, <3>1 DEF FlattenSeq
  <2>2. CASE n # 0
    <3> DEFINE Unfolds(g) == g = [i \in 1..n |-> IF i = 1 THEN ss[i] ELSE g[i - 1] \o ss[i]]
               joined == CHOOSE g : Unfolds(g)
    <3>1. FlattenSeq(ss) = joined[n]
      BY <1>1, <2>2, Zenon DEF FlattenSeq
    <3>2. PICK h : h = [i \in 1..n |-> f[i]]
      OBVIOUS
    <3>3. Unfolds(h)
      <4>1. ASSUME NEW i \in 1..n
            PROVE  f[i] = IF i = 1 THEN ss[i] ELSE h[i - 1] \o ss[i]
        <5>1. i - 1 \in 0..(n - 1) /\ (i - 1) + 1 = i
          OBVIOUS
        <5>2. f[i] = f[i - 1] \o ss[i]
          BY <1>5, <5>1
        <5>3. CASE i = 1
          <6>1. ss[i] \in Seq(Byte)
            BY <1>1, ElementOfSeq
          <6>2. <<>> \o ss[i] = ss[i]
            BY <6>1, ConcatEmptySeq
          <6>3. i - 1 = 0
            BY <5>3
          <6>4. f[i] = ss[i]
            BY <1>5, <5>2, <6>2, <6>3, Zenon
          <6> QED BY <5>3, <6>4
        <5>4. CASE i # 1
          <6>1. i - 1 \in 1..n
            BY <5>4
          <6> QED BY <3>2, <5>2, <5>4, <6>1
        <5> QED BY <5>3, <5>4
      <4> QED BY <3>2, <4>1
    <3>4. Unfolds(joined)
      <4> HIDE DEF Unfolds
      <4> QED BY <3>3
    <3> HIDE DEF joined
    <3>5. PICK g : g = [i \in 0..n |-> IF i = 0 THEN <<>> ELSE joined[i]]
      OBVIOUS
    <3>6. ASSUME NEW i \in 0..(n - 1) PROVE g[i + 1] = g[i] \o ss[i + 1]
      <4>1. i + 1 \in 1..n /\ i + 1 # 0 /\ i \in 0..n /\ i + 1 \in 0..n /\ (i + 1) - 1 = i
        OBVIOUS
      <4>2. g[i + 1] = joined[i + 1]
        BY <3>5, <4>1
      <4>3. joined[i + 1] = IF i + 1 = 1 THEN ss[i + 1] ELSE joined[i] \o ss[i + 1]
        BY <3>4, <4>1
      <4>4. CASE i = 0
        <5>1. ss[i + 1] \in Seq(Byte)
          BY <1>1, <4>1, ElementOfSeq
        <5>2. <<>> \o ss[i + 1] = ss[i + 1]
          BY <5>1, ConcatEmptySeq
        <5>3. g[i] = <<>> /\ i + 1 = 1
          BY <3>5, <4>1, <4>4
        <5>4. joined[i + 1] = ss[i + 1]
          BY <4>3, <5>3, Zenon
        <5> QED BY <4>2, <5>2, <5>3, <5>4, Zenon
      <4>5. CASE i # 0
        <5>1. g[i] = joined[i] /\ i + 1 # 1
          BY <3>5, <4>1, <4>5
        <5>2. joined[i + 1] = joined[i] \o ss[i + 1]
          BY <4>3, <5>1, Zenon
        <5> QED BY <4>2, <5>1, <5>2, Zenon
      <4> QED BY <4>4, <4>5
    <3>7. g[n] = joined[n] /\ g[0] = <<>>
      BY <2>2, <3>5
    <3>8. g[n] = f[n]
      <4>1. Joins(g, ss, n)
        BY <3>6, <3>7 DEF Joins
      <4> QED BY <1>6, <4>1, JoinedOnce
    <3> QED BY <3>1, <3>7, <3>8
  <2> QED BY <2>1, <2>2
<1> QED BY <1>1, <1>6, <1>7

(* One more at the end. *)
LEMMA FlattenAppend ==
  ASSUME NEW ss \in Seq(Seq(Byte)), NEW s \in Seq(Byte)
  PROVE  FlattenSeq(ss) \in Seq(Byte) /\ FlattenSeq(Append(ss, s)) = FlattenSeq(ss) \o s
<1>1. PICK n \in Nat : n = Len(ss)
  OBVIOUS
<1>2. PICK f \in [0..n -> Seq(Byte)] : Joins(f, ss, n) /\ FlattenSeq(ss) = f[n]
  BY <1>1, FlattenIs
<1>3. PICK tt \in Seq(Seq(Byte)) : tt = Append(ss, s)
  BY AppendProperties
<1>4. Len(tt) = n + 1 /\ tt[n + 1] = s /\ \A i \in 1..n : tt[i] = ss[i]
  BY <1>1, <1>3, AppendProperties
<1>5. PICK g \in [0..(n + 1) -> Seq(Byte)] : Joins(g, tt, n + 1) /\ FlattenSeq(tt) = g[n + 1]
  BY <1>4, FlattenIs
<1>6. f[n] = g[n]
  <2>1. ASSUME NEW i \in 0..(n - 1) PROVE g[i + 1] = g[i] \o ss[i + 1]
    <3>1. i + 1 \in 1..n /\ i \in 0..((n + 1) - 1)
      OBVIOUS
    <3>2. g[i + 1] = g[i] \o tt[i + 1]
      BY <1>5, <3>1 DEF Joins
    <3> QED BY <1>4, <3>1, <3>2
  <2>2. Joins(g, ss, n)
    BY <1>5, <2>1 DEF Joins
  <2> QED BY <1>2, <2>2, JoinedOnce
<1>7. g[n + 1] = g[n] \o tt[n + 1]
  <2>1. n \in 0..((n + 1) - 1)
    OBVIOUS
  <2> QED BY <1>4, <1>5, <2>1 DEF Joins
<1>8. n \in 0..n
  OBVIOUS
<1> QED BY <1>2, <1>3, <1>4, <1>5, <1>6, <1>7, <1>8

(* The first one and the others. *)
LEMMA FlattenFirst ==
  ASSUME NEW ss \in Seq(Seq(Byte)), ss # <<>>
  PROVE  /\ Tail(ss) \in Seq(Seq(Byte)) /\ FlattenSeq(Tail(ss)) \in Seq(Byte)
         /\ FlattenSeq(ss) = ss[1] \o FlattenSeq(Tail(ss))
<1>1. PICK n \in Nat : Len(ss) = n + 1
  <2>1. Len(ss) \in Nat \ {0}
    BY EmptySeq
  <2>2. Len(ss) - 1 \in Nat /\ Len(ss) = (Len(ss) - 1) + 1
    BY <2>1
  <2> QED BY <2>2
<1>2. PICK tt \in Seq(Seq(Byte)) : tt = Tail(ss)
  BY HeadTailProperties
<1>3. Len(tt) = n /\ \A i \in 1..n : tt[i] = ss[i + 1]
  BY <1>1, <1>2, HeadTailProperties
<1>4. PICK f \in [0..(n + 1) -> Seq(Byte)] : Joins(f, ss, n + 1) /\ FlattenSeq(ss) = f[n + 1]
  BY <1>1, FlattenIs
<1>5. PICK g \in [0..n -> Seq(Byte)] : Joins(g, tt, n) /\ FlattenSeq(tt) = g[n]
  BY <1>3, FlattenIs
<1>6. PICK s \in Seq(Byte) : s = ss[1]
  BY <1>1, ElementOfSeq, 1 \in 1..(n + 1)
<1> DEFINE Longer(i) == f[i + 1] = s \o g[i]
           S == {i \in Nat : i <= n => Longer(i)}
<1>7. Longer(0)
  <2>1. 0 \in 0..((n + 1) - 1) /\ 0 + 1 = 1
    OBVIOUS
  <2>2. f[0 + 1] = f[0] \o ss[0 + 1] /\ f[0] = <<>> /\ g[0] = <<>>
    BY <1>4, <1>5, <2>1 DEF Joins
  <2>3. <<>> \o s = s /\ s \o <<>> = s
    BY ConcatEmptySeq
  <2> QED BY <1>6, <2>1, <2>2, <2>3
<1>8. ASSUME NEW i \in Nat, i + 1 <= n, Longer(i) PROVE Longer(i + 1)
  <2>1. /\ i \in 0..(n - 1) /\ i + 1 \in 0..((n + 1) - 1) /\ i + 1 \in 1..n /\ i \in 0..n
    BY <1>8
  <2>2. f[(i + 1) + 1] = f[i + 1] \o ss[(i + 1) + 1]
    BY <1>4, <2>1 DEF Joins
  <2>3. g[i + 1] = g[i] \o tt[i + 1]
    BY <1>5, <2>1 DEF Joins
  <2>4. tt[i + 1] = ss[(i + 1) + 1] /\ tt[i + 1] \in Seq(Byte) /\ g[i] \in Seq(Byte)
    BY <1>3, <2>1, ElementOfSeq
  <2>5. (s \o g[i]) \o tt[i + 1] = s \o (g[i] \o tt[i + 1])
    BY <2>4, Regrouped
  <2> QED BY <1>8, <2>2, <2>3, <2>4, <2>5, Zenon
<1> HIDE DEF Longer
<1>9. 0 \in S /\ (\A i \in S : i + 1 \in S) /\ S \in SUBSET Nat
  BY <1>7, <1>8
<1>10. S = Nat
  <2> HIDE DEF S
  <2> QED BY <1>9, SetInduction
<1>11. f[n + 1] = s \o g[n]
  <2>1. n \in S
    <3> HIDE DEF S
    <3> QED BY <1>10
  <2>2. n <= n => Longer(n)
    BY <2>1
  <2> QED BY <2>2 DEF Longer
<1>12. n \in 0..n
  OBVIOUS
<1> QED BY <1>2, <1>4, <1>5, <1>6, <1>11, <1>12

-----------------------------------------------------------------------------
(* The integers on their way. *)

Encoded(xs) == [i \in 1..Len(xs) |-> NetworkBytes(xs[i])]

(* What was written and not read yet. *)
Rest == SubSeq(sent, Len(got) + 1, Len(sent))

CodecInv ==
  /\ Valid(out) /\ Valid(in) /\ wire \in Seq(Byte)
  /\ sent \in Seq(Message) /\ got \in Seq(Message)
  /\ IntsArrive /\ WireFormat

LEMMA WireFormatIs ==
  WireFormat <=> Contents(in) \o wire \o Contents(out) = FlattenSeq(Encoded(Rest))
BY DEF WireFormat, Encoded, Rest

LEMMA EncodedIs ==
  ASSUME NEW xs \in Seq(Message)
  PROVE  /\ Encoded(xs) \in Seq(Seq(Byte)) /\ Len(Encoded(xs)) = Len(xs)
         /\ \A i \in 1..Len(xs) : Encoded(xs)[i] = NetworkBytes(xs[i])
<1>1. PICK n \in Nat : n = Len(xs)
  OBVIOUS
<1>2. ASSUME NEW i \in 1..n PROVE NetworkBytes(xs[i]) \in Seq(Byte)
  <2>1. xs[i] \in Message
    BY <1>1, ElementOfSeq
  <2> QED BY <2>1, NetworkIs
<1>3. Encoded(xs) = [i \in 1..n |-> NetworkBytes(xs[i])]
  BY <1>1 DEF Encoded
<1>4. Encoded(xs) \in [1..n -> Seq(Byte)]
  BY <1>2, <1>3
<1>5. Encoded(xs) \in Seq(Seq(Byte)) /\ Len(Encoded(xs)) = n
  BY <1>4, FunctionIsSeq
<1> QED BY <1>1, <1>3, <1>5

LEMMA EncodedAppend ==
  ASSUME NEW xs \in Seq(Message), NEW x \in Message
  PROVE  Encoded(Append(xs, x)) = Append(Encoded(xs), NetworkBytes(x))
<1>1. PICK n \in Nat : n = Len(xs)
  OBVIOUS
<1>2. PICK ys \in Seq(Message) : ys = Append(xs, x)
  BY AppendProperties
<1>3. Len(ys) = n + 1 /\ ys[n + 1] = x /\ \A i \in 1..n : ys[i] = xs[i]
  BY <1>1, <1>2, AppendProperties
<1>4. PICK bytes \in Seq(Byte) : bytes = NetworkBytes(x)
  BY NetworkIs
<1>5. PICK ss \in Seq(Seq(Byte)) : ss = Encoded(xs)
  BY EncodedIs
<1>6. Len(ss) = n /\ \A i \in 1..n : ss[i] = NetworkBytes(xs[i])
  BY <1>1, <1>5, EncodedIs
<1>7. /\ Append(ss, bytes) \in Seq(Seq(Byte)) /\ Len(Append(ss, bytes)) = n + 1
      /\ Append(ss, bytes)[n + 1] = bytes
      /\ \A i \in 1..n : Append(ss, bytes)[i] = ss[i]
  BY <1>6, AppendProperties
<1>8. /\ Encoded(ys) \in Seq(Seq(Byte)) /\ Len(Encoded(ys)) = n + 1
      /\ \A i \in 1..(n + 1) : Encoded(ys)[i] = NetworkBytes(ys[i])
  BY <1>3, EncodedIs
<1>9. ASSUME NEW i \in 1..(n + 1) PROVE Encoded(ys)[i] = Append(ss, bytes)[i]
  <2>1. CASE i = n + 1
    BY <1>3, <1>4, <1>7, <1>8, <2>1
  <2>2. CASE i # n + 1
    <3>1. i \in 1..n
      BY <2>2
    <3> QED BY <1>3, <1>6, <1>7, <1>8, <3>1
  <2> QED BY <2>1, <2>2
<1>10. Encoded(ys) = Append(ss, bytes)
  BY <1>7, <1>8, <1>9, SeqEqual
<1> QED BY <1>2, <1>4, <1>5, <1>10

LEMMA EncodedTail ==
  ASSUME NEW xs \in Seq(Message), xs # <<>>
  PROVE  /\ Tail(xs) \in Seq(Message)
         /\ Encoded(Tail(xs)) = Tail(Encoded(xs))
<1>1. PICK n \in Nat : Len(xs) = n + 1
  <2>1. Len(xs) \in Nat \ {0}
    BY EmptySeq
  <2>2. Len(xs) - 1 \in Nat /\ Len(xs) = (Len(xs) - 1) + 1
    BY <2>1
  <2> QED BY <2>2
<1>2. PICK ys \in Seq(Message) : ys = Tail(xs)
  BY HeadTailProperties
<1>3. Len(ys) = n /\ \A i \in 1..n : ys[i] = xs[i + 1]
  BY <1>1, <1>2, HeadTailProperties
<1>4. PICK ss \in Seq(Seq(Byte)) : ss = Encoded(xs)
  BY EncodedIs
<1>5. Len(ss) = n + 1 /\ \A i \in 1..(n + 1) : ss[i] = NetworkBytes(xs[i])
  BY <1>1, <1>4, EncodedIs
<1>6. ss # <<>>
  BY <1>5, EmptySeq
<1>7. /\ Tail(ss) \in Seq(Seq(Byte)) /\ Len(Tail(ss)) = n
      /\ \A i \in 1..n : Tail(ss)[i] = ss[i + 1]
  BY <1>5, <1>6, HeadTailProperties
<1>8. /\ Encoded(ys) \in Seq(Seq(Byte)) /\ Len(Encoded(ys)) = n
      /\ \A i \in 1..n : Encoded(ys)[i] = NetworkBytes(ys[i])
  BY <1>3, EncodedIs
<1>9. ASSUME NEW i \in 1..n PROVE Encoded(ys)[i] = Tail(ss)[i]
  <2>1. i + 1 \in 1..(n + 1)
    OBVIOUS
  <2> QED BY <1>3, <1>5, <1>7, <1>8, <2>1
<1>10. Encoded(ys) = Tail(ss)
  BY <1>7, <1>8, <1>9, SeqEqual
<1> QED BY <1>2, <1>4, <1>10

(* got is a prefix of sent, element by element. *)
LEMMA PrefixIs ==
  ASSUME NEW s \in Seq(Message), NEW t \in Seq(Message)
  PROVE  IsPrefix(s, t) <=> Len(s) <= Len(t) /\ \A i \in 1..Len(s) : s[i] = t[i]
<1>1. PICK n \in Nat : n = Len(s)
  OBVIOUS
<1> SUFFICES ASSUME n <= Len(t)
             PROVE  SubSeq(s, 1, n) = SubSeq(t, 1, n) <=> \A i \in 1..n : s[i] = t[i]
  BY <1>1 DEF IsPrefix
<1>2. SubSeq(s, 1, n) = s
  BY <1>1, SubSeqFull
<1>3. /\ SubSeq(t, 1, n) \in Seq(Message) /\ Len(SubSeq(t, 1, n)) = n
      /\ \A i \in 1..n : SubSeq(t, 1, n)[i] = t[i]
  <2>1. 0 + n <= Len(t) /\ 0 + 1 = 1 /\ 0 + n = n /\ \A i \in 1..n : 0 + i = i
    OBVIOUS
  <2>2. /\ SubSeq(t, 0 + 1, 0 + n) \in Seq(Message) /\ Len(SubSeq(t, 0 + 1, 0 + n)) = n
        /\ \A i \in 1..n : SubSeq(t, 0 + 1, 0 + n)[i] = t[0 + i]
    BY <2>1, PartFrom, 0 \in Nat
  <2> QED BY <2>1, <2>2
<1>4. (\A i \in 1..n : s[i] = t[i]) => s = SubSeq(t, 1, n)
  BY <1>1, <1>3, SeqEqual
<1> QED BY <1>2, <1>3, <1>4

(* What was not read yet, when an integer is written and when one is read. *)
LEMMA RestIs ==
  ASSUME NEW xs \in Seq(Message), NEW m \in Nat, m <= Len(xs)
  PROVE  LET rest == SubSeq(xs, m + 1, Len(xs))
         IN  /\ rest \in Seq(Message) /\ Len(rest) = Len(xs) - m
             /\ \A i \in 1..(Len(xs) - m) : rest[i] = xs[m + i]
BY PartOf, LenProperties

LEMMA RestAppend ==
  ASSUME NEW xs \in Seq(Message), NEW x \in Message, NEW m \in Nat, m <= Len(xs)
  PROVE  SubSeq(Append(xs, x), m + 1, Len(Append(xs, x))) =
           Append(SubSeq(xs, m + 1, Len(xs)), x)
<1>1. PICK n \in Nat, k \in Nat : n = Len(xs) /\ k = n - m /\ n = m + k
  <2>1. Len(xs) \in Nat /\ Len(xs) - m \in Nat /\ Len(xs) = m + (Len(xs) - m)
    OBVIOUS
  <2> QED BY <2>1
<1>2. PICK ys \in Seq(Message) : ys = Append(xs, x)
  BY AppendProperties
<1>3. Len(ys) = n + 1 /\ ys[n + 1] = x /\ \A i \in 1..n : ys[i] = xs[i]
  BY <1>1, <1>2, AppendProperties
<1>4. PICK rest \in Seq(Message) : rest = SubSeq(xs, m + 1, n)
  BY <1>1, RestIs
<1>5. Len(rest) = k /\ \A i \in 1..k : rest[i] = xs[m + i]
  BY <1>1, <1>4, RestIs
<1>6. PICK more \in Seq(Message) : more = SubSeq(ys, m + 1, n + 1)
  <2>1. m <= Len(ys)
    BY <1>1, <1>3
  <2> QED BY <1>3, <2>1, RestIs
<1>7. Len(more) = k + 1 /\ \A i \in 1..(k + 1) : more[i] = ys[m + i]
  <2>1. Len(ys) - m = k + 1
    BY <1>1, <1>3
  <2> QED BY <1>1, <1>3, <1>6, <2>1, RestIs
<1>8. /\ Append(rest, x) \in Seq(Message) /\ Len(Append(rest, x)) = k + 1
      /\ Append(rest, x)[k + 1] = x /\ \A i \in 1..k : Append(rest, x)[i] = rest[i]
  BY <1>5, AppendProperties
<1>9. ASSUME NEW i \in 1..(k + 1) PROVE more[i] = Append(rest, x)[i]
  <2>1. CASE i = k + 1
    <3>1. m + i = n + 1
      BY <1>1, <2>1
    <3> QED BY <1>3, <1>7, <1>8, <2>1, <3>1
  <2>2. CASE i # k + 1
    <3>1. i \in 1..k
      BY <2>2
    <3>2. m + i \in 1..(m + k)
      BY <3>1
    <3> QED BY <1>1, <1>3, <1>5, <1>7, <1>8, <3>1, <3>2
  <2> QED BY <2>1, <2>2
<1>10. more = Append(rest, x)
  BY <1>7, <1>8, <1>9, SeqEqual
<1> QED BY <1>1, <1>2, <1>3, <1>4, <1>6, <1>10

LEMMA RestTail ==
  ASSUME NEW xs \in Seq(Message), NEW m \in Nat, m < Len(xs)
  PROVE  /\ SubSeq(xs, m + 1, Len(xs)) # <<>>
         /\ SubSeq(xs, m + 1, Len(xs))[1] = xs[m + 1]
         /\ SubSeq(xs, (m + 1) + 1, Len(xs)) = Tail(SubSeq(xs, m + 1, Len(xs)))
<1>1. PICK n \in Nat : n = Len(xs)
  OBVIOUS
<1>2. PICK rest \in Seq(Message) : rest = SubSeq(xs, m + 1, n)
  <2>1. m <= Len(xs)
    BY <1>1
  <2> QED BY <1>1, <2>1, RestIs
<1>3. Len(rest) = n - m /\ \A i \in 1..(n - m) : rest[i] = xs[m + i]
  BY <1>1, <1>2, RestIs
<1>4. 1 \in 1..(n - m) /\ n - m # 0
  BY <1>1
<1>5. rest # <<>>
  BY <1>3, <1>4, EmptySeq
<1>6. m + 1 \in 1..Len(xs) /\ n \in (m + 1)..Len(xs)
  BY <1>1
<1>7. Tail(SubSeq(xs, m + 1, n)) = SubSeq(xs, (m + 1) + 1, n)
  BY <1>6, HeadTailOfSubSeq
<1> QED BY <1>1, <1>2, <1>3, <1>4, <1>5, <1>7

-----------------------------------------------------------------------------
(* The codec's steps. *)

LEMMA CodecInitInv == CodecInit => CodecInv
<1> SUFFICES ASSUME CodecInit PROVE CodecInv
  OBVIOUS
<1>1. /\ Valid(out) /\ Valid(in) /\ Contents(out) = <<>> /\ Contents(in) = <<>>
      /\ wire = <<>> /\ sent = <<>> /\ got = <<>>
  BY NewBufferIsValid DEF CodecInit
<1>2. <<>> \in Seq(Byte) /\ <<>> \in Seq(Message) /\ Len(<<>>) = 0
  BY EmptySeq
<1>3. Rest = <<>>
  BY <1>1, <1>2, SubSeqEmpty, 0 + 1 \in Int, 0 \in Int DEF Rest
<1>4. Encoded(<<>>) = <<>>
  <2>1. Encoded(<<>>) \in Seq(Seq(Byte)) /\ Len(Encoded(<<>>)) = 0
    BY <1>2, EncodedIs
  <2> QED BY <2>1, EmptySeq
<1>5. FlattenSeq(<<>>) = <<>>
  BY <1>2 DEF FlattenSeq
<1>6. <<>> \o <<>> = <<>>
  BY <1>2, ConcatEmptySeq
<1>7. WireFormat
  BY <1>1, <1>3, <1>4, <1>5, <1>6, WireFormatIs
<1>8. IntsArrive
  <2>1. \A i \in 1..0 : got[i] = sent[i]
    OBVIOUS
  <2>2. Len(got) <= Len(sent) /\ Len(got) = 0
    BY <1>1, <1>2
  <2> QED BY <1>1, <1>2, <2>1, <2>2, PrefixIs DEF IntsArrive
<1> QED BY <1>1, <1>2, <1>7, <1>8 DEF CodecInv

LEMMA SameFront == \A s, t, u \in Seq(Byte) : s \o t = s \o u => t = u
BY ConcatSimplifications, Zenon

(* The bytes between the two programs, in the order in which they will be   *)
(* read.                                                                   *)
LEMMA CodecTypes ==
  ASSUME CodecInv
  PROVE  /\ Valid(out) /\ Valid(in) /\ wire \in Seq(Byte)
         /\ Contents(out) \in Seq(Byte) /\ Contents(in) \in Seq(Byte)
         /\ sent \in Seq(Message) /\ got \in Seq(Message)
         /\ Len(got) \in Nat /\ Len(sent) \in Nat /\ Len(got) <= Len(sent)
         /\ \A i \in 1..Len(got) : got[i] = sent[i]
         /\ Rest \in Seq(Message) /\ Encoded(Rest) \in Seq(Seq(Byte))
         /\ Contents(in) \o wire \o Contents(out) = FlattenSeq(Encoded(Rest))
<1>1. /\ Valid(out) /\ Valid(in) /\ wire \in Seq(Byte)
      /\ sent \in Seq(Message) /\ got \in Seq(Message) /\ IsPrefix(got, sent) /\ WireFormat
  BY DEF CodecInv, IntsArrive
<1>2. Contents(out) \in Seq(Byte) /\ Contents(in) \in Seq(Byte)
  BY <1>1 DEF Valid
<1>3. Len(got) <= Len(sent) /\ \A i \in 1..Len(got) : got[i] = sent[i]
  BY <1>1, PrefixIs
<1>4. Len(got) \in Nat /\ Len(sent) \in Nat
  BY <1>1, LenProperties
<1>5. Rest \in Seq(Message)
  BY <1>1, <1>3, <1>4, RestIs DEF Rest
<1> QED BY <1>1, <1>2, <1>3, <1>4, <1>5, EncodedIs, WireFormatIs

(* An integer that was not read is the first one. *)
LEMMA WriteIntKeeps ==
  ASSUME CodecInv, NEW k \in Widths, NEW val \in 0..(Power[k] - 1), WriteInt(k, val)
  PROVE  CodecInv'
<1>1. k \in Nat /\ val \in Nat
  BY WidthsAssumption, PowerIs
<1>2. PICK x \in Message : x = [width |-> k, val |-> val]
  BY <1>1 DEF Message, Numbers
<1>3. x.width = k /\ x.val = val
  BY <1>2
<1>4. PICK bytes \in Seq(Byte) : bytes = NetworkBytes(x)
  BY NetworkIs
<1>5. out' = Write(out, bytes) /\ sent' = Append(sent, x) /\ UNCHANGED <<wire, in, got>>
  <2>1. HostBytes(hostToNetwork(val, k), k) = bytes
    BY <1>3, <1>4, WrittenBytes
  <2> QED BY <1>2, <2>1 DEF WriteInt
<1>6. Valid(out') /\ Contents(out') = Contents(out) \o bytes
  BY <1>5, CodecTypes, WriteAppends
<1>7. /\ sent' \in Seq(Message) /\ Len(sent') = Len(sent) + 1
      /\ \A i \in 1..Len(sent) : sent'[i] = sent[i]
  BY <1>5, CodecTypes, AppendProperties
<1>8. Rest' = Append(Rest, x)
  BY <1>5, CodecTypes, RestAppend DEF Rest
<1>9. FlattenSeq(Encoded(Rest')) = FlattenSeq(Encoded(Rest)) \o bytes
  BY <1>4, <1>8, CodecTypes, EncodedAppend, FlattenAppend
<1>10. Contents(in) \o wire \o (Contents(out) \o bytes) =
         (Contents(in) \o wire \o Contents(out)) \o bytes
  <2>1. Contents(in) \o wire \in Seq(Byte) /\ Contents(out) \in Seq(Byte)
    BY CodecTypes, ConcatProperties
  <2> QED BY <2>1, Regrouped
<1>11. WireFormat'
  <2>1. Contents(in)' = Contents(in) /\ wire' = wire /\ Contents(out)' = Contents(out) \o bytes
    BY <1>5, <1>6
  <2>2. WireFormat' <=> Contents(in)' \o wire' \o Contents(out)' = FlattenSeq(Encoded(Rest'))
    BY DEF WireFormat, Encoded, Rest
  <2> QED BY <1>9, <1>10, <2>1, <2>2, CodecTypes
<1>12. IntsArrive'
  <2>1. got' = got /\ got' \in Seq(Message)
    BY <1>5, CodecTypes
  <2>2. Len(got') <= Len(sent') /\ \A i \in 1..Len(got') : got'[i] = sent'[i]
    BY <1>7, <2>1, CodecTypes
  <2>3. IsPrefix(got', sent')
    BY <1>7, <2>1, <2>2, PrefixIs
  <2> QED BY <2>3 DEF IntsArrive
<1> QED BY <1>5, <1>6, <1>7, <1>11, <1>12, CodecTypes DEF CodecInv

(* The bytes move on, the integers stay. *)
LEMMA BytesMove ==
  ASSUME CodecInv, UNCHANGED <<sent, got>>, Valid(out'), Valid(in'), wire' \in Seq(Byte),
         Contents(in') \o wire' \o Contents(out') = Contents(in) \o wire \o Contents(out)
  PROVE  CodecInv'
<1>1. WireFormat'
  <2>1. Rest' = Rest
    BY DEF Rest
  <2>2. WireFormat' <=> Contents(in)' \o wire' \o Contents(out)' = FlattenSeq(Encoded(Rest'))
    BY DEF WireFormat, Encoded, Rest
  <2> QED BY <2>1, <2>2, CodecTypes
<1>2. IntsArrive'
  BY DEF CodecInv, IntsArrive
<1> QED BY <1>1, <1>2, CodecTypes DEF CodecInv

LEMMA SendKeeps == CodecInv /\ Send => CodecInv'
<1> SUFFICES ASSUME CodecInv, Send PROVE CodecInv'
  OBVIOUS
<1>1. wire' = wire \o Contents(out) /\ out' = RetrieveAll(out) /\ UNCHANGED <<in, sent, got>>
  BY DEF Send
<1>2. Valid(out') /\ Contents(out') = <<>>
  BY <1>1, CodecTypes, RetrieveAllEmpties
<1>3. wire' \in Seq(Byte) /\ Contents(in) \o wire' \in Seq(Byte)
  BY <1>1, CodecTypes, ConcatProperties
<1>4. Contents(in) \o wire' \o <<>> = Contents(in) \o wire \o Contents(out)
  <2>1. Contents(in) \in Seq(Byte) /\ wire \in Seq(Byte) /\ Contents(out) \in Seq(Byte)
    BY CodecTypes
  <2>2. Contents(in) \o wire' \o <<>> = Contents(in) \o wire'
    BY <1>3, ConcatEmptySeq
  <2>3. (Contents(in) \o wire) \o Contents(out) = Contents(in) \o (wire \o Contents(out))
    BY <2>1, Regrouped
  <2> QED BY <1>1, <2>2, <2>3
<1> QED BY <1>1, <1>2, <1>3, <1>4, CodecTypes, BytesMove

LEMMA DeliverKeeps ==
  ASSUME CodecInv, NEW n \in 1..Len(wire), Deliver(n)
  PROVE  CodecInv'
<1>1. wire \in Seq(Byte) /\ n \in Nat /\ n \in 0..Len(wire) /\ Len(wire) \in Nat
  BY CodecTypes, LenProperties
<1>2. PICK front \in Seq(Byte), back \in Seq(Byte) :
        /\ front = SubSeq(wire, 1, n) /\ back = SubSeq(wire, n + 1, Len(wire))
        /\ front \o back = wire
  <2>1. SubSeq(wire, 1, n) \in Seq(Byte)
    BY <1>1, PartFrom, 0 + n <= Len(wire), 0 + 1 = 1, 0 + n = n, 0 \in Nat
  <2>2. SubSeq(wire, n + 1, Len(wire)) \in Seq(Byte)
    BY <1>1, PartOf, n <= Len(wire), Len(wire) <= Len(wire)
  <2>3. SubSeq(wire, 1, n) \o SubSeq(wire, n + 1, Len(wire)) = SubSeq(wire, 1, Len(wire))
    <3>1. /\ 1 \in 1..(Len(wire) + 1) /\ n \in (1 - 1)..Len(wire)
          /\ Len(wire) \in n..Len(wire)
      BY <1>1
    <3> QED BY <1>1, <3>1, ConcatAdjacentSubSeq
  <2>4. SubSeq(wire, 1, Len(wire)) = wire
    BY <1>1, SubSeqFull
  <2> QED BY <2>1, <2>2, <2>3, <2>4
<1>3. in' = Received(in, front) /\ wire' = back /\ UNCHANGED <<out, sent, got>>
  BY <1>2 DEF Deliver
<1>4. Valid(in') /\ Contents(in') = Contents(in) \o front
  BY <1>2, <1>3, CodecTypes, ReceivedAppends
<1>5. Contents(in') \o wire' \o Contents(out') = Contents(in) \o wire \o Contents(out)
  <2>1. Contents(in) \in Seq(Byte)
    BY CodecTypes
  <2>2. (Contents(in) \o front) \o back = Contents(in) \o (front \o back)
    BY <2>1, Regrouped
  <2>3. Contents(in') = Contents(in) \o front /\ wire' = back /\ out' = out
    BY <1>3, <1>4
  <2>4. Contents(in') \o wire' \o Contents(out') =
          ((Contents(in) \o front) \o back) \o Contents(out)
    BY <2>3
  <2> QED BY <1>2, <2>2, <2>4
<1> QED BY <1>2, <1>3, <1>4, <1>5, CodecTypes, BytesMove

(* A row of bytes is cut in two behind s, and behind u. *)
CutTwice(s, t, u, v) == s \o t = u \o v /\ Len(u) <= Len(s)

LEMMA FrontCut ==
  ASSUME NEW s \in Seq(Byte), NEW t \in Seq(Byte), NEW u \in Seq(Byte), NEW v \in Seq(Byte),
         CutTwice(s, t, u, v)
  PROVE  /\ SubSeq(s, 1, Len(u)) = u
         /\ SubSeq(s, Len(u) + 1, Len(s)) \in Seq(Byte)
         /\ SubSeq(s, Len(u) + 1, Len(s)) \o t = v
<1>0. s \o t = u \o v /\ Len(u) <= Len(s)
  BY DEF CutTwice
<1>1. PICK k \in Nat, n \in Nat : k = Len(u) /\ n = Len(s) /\ k <= n
  BY <1>0
<1>2. PICK front \in Seq(Byte) : front = SubSeq(s, 1, k)
  <2>1. 0 \in Nat /\ 0 + k <= Len(s) /\ 0 + 1 = 1 /\ 0 + k = k
    BY <1>1
  <2>2. SubSeq(s, 0 + 1, 0 + k) \in Seq(Byte)
    BY <2>1, PartFrom
  <2> QED BY <2>1, <2>2
<1>3. Len(front) = k /\ \A i \in 1..k : front[i] = s[i]
  <2>1. 0 + k <= Len(s) /\ 0 + 1 = 1 /\ 0 + k = k /\ \A i \in 1..k : 0 + i = i
    BY <1>1
  <2>2. /\ Len(SubSeq(s, 0 + 1, 0 + k)) = k
        /\ \A i \in 1..k : SubSeq(s, 0 + 1, 0 + k)[i] = s[0 + i]
    BY <2>1, PartFrom, 0 \in Nat
  <2> QED BY <1>2, <2>1, <2>2
<1>4. PICK back \in Seq(Byte) : back = SubSeq(s, k + 1, n)
  <2>1. k <= n /\ n <= Len(s)
    BY <1>1
  <2>2. SubSeq(s, k + 1, n) \in Seq(Byte)
    BY <2>1, PartOf
  <2> QED BY <2>2
<1>5. front \o back = s
  <2>1. /\ 1 \in 1..(n + 1) /\ k \in (1 - 1)..n /\ n \in k..n
    BY <1>1
  <2>2. SubSeq(s, 1, k) \o SubSeq(s, k + 1, n) = SubSeq(s, 1, n)
    BY <1>1, <2>1, ConcatAdjacentSubSeq
  <2> QED BY <1>1, <1>2, <1>4, <2>2, SubSeqFull
<1>6. ASSUME NEW i \in 1..k PROVE front[i] = u[i]
  <2>1. i \in 1..(Len(s) + Len(t)) /\ i <= Len(s) /\ i \in 1..(Len(u) + Len(v)) /\ i <= Len(u)
    BY <1>0, <1>1, LenProperties
  <2>2. (s \o t)[i] = s[i]
    BY <2>1, ConcatProperties
  <2>3. (u \o v)[i] = u[i]
    BY <2>1, ConcatProperties
  <2> QED BY <1>0, <1>3, <2>2, <2>3
<1>7. front = u
  BY <1>1, <1>3, <1>6, SeqEqual
<1>8. u \o (back \o t) = u \o v
  <2>1. (u \o back) \o t = u \o (back \o t)
    BY Regrouped
  <2> QED BY <1>0, <1>5, <1>7, <2>1
<1>9. back \o t \in Seq(Byte)
  BY ConcatProperties
<1>10. back \o t = v
  BY <1>8, <1>9, SameFront
<1> QED BY <1>1, <1>2, <1>4, <1>7, <1>10

LEMMA ReadIntKeeps == CodecInv /\ ReadInt => CodecInv'
<1> SUFFICES ASSUME CodecInv, ReadInt PROVE CodecInv'
  OBVIOUS
<1>1. PICK m \in Nat : m = Len(got) /\ m < Len(sent) /\ Len(sent) \in Nat
  BY CodecTypes DEF ReadInt
<1>2. PICK x \in Message : x = sent[m + 1]
  <2>1. m + 1 \in 1..Len(sent)
    BY <1>1
  <2> QED BY <2>1, CodecTypes, ElementOfSeq
<1>3. PICK k \in Nat : k = x.width
  BY NetworkIs
<1>4. PICK bytes \in Seq(Byte) : bytes = NetworkBytes(x) /\ Len(bytes) = k
  BY <1>3, NetworkIs
<1>5. /\ k <= readByte(in) /\ in' = Retrieve(in, k)
      /\ got' = Append(got, [width |-> k, val |-> peekInt(in, k)])
      /\ UNCHANGED <<out, wire, sent>>
  BY <1>1, <1>2, <1>3 DEF ReadInt
<1>6. readByte(in) = Len(Contents(in))
  BY CodecTypes, ContentsCells DEF Valid, readByte
<1>7. /\ Rest # <<>> /\ Rest[1] = x
      /\ SubSeq(sent, (m + 1) + 1, Len(sent)) = Tail(Rest)
  BY <1>1, <1>2, CodecTypes, RestTail DEF Rest
<1>8. PICK others \in Seq(Byte) :
        /\ others = FlattenSeq(Encoded(Tail(Rest)))
        /\ FlattenSeq(Encoded(Rest)) = bytes \o others
  <2>1. Encoded(Rest) \in Seq(Seq(Byte)) /\ Encoded(Rest)[1] = bytes /\ Encoded(Rest) # <<>>
    <3>1. Len(Rest) \in Nat \ {0}
      BY <1>7, CodecTypes, EmptySeq
    <3>2. 1 \in 1..Len(Rest)
      BY <3>1
    <3>3. Len(Encoded(Rest)) = Len(Rest) /\ Encoded(Rest)[1] = NetworkBytes(Rest[1])
      BY <3>2, CodecTypes, EncodedIs
    <3> QED BY <1>4, <1>7, <3>1, <3>3, CodecTypes, EmptySeq
  <2>2. Encoded(Tail(Rest)) = Tail(Encoded(Rest))
    BY <1>7, CodecTypes, EncodedTail
  <2> QED BY <2>1, <2>2, FlattenFirst
<1>9. PICK behind \in Seq(Byte) : behind = wire \o Contents(out)
  BY CodecTypes, ConcatProperties
<1>10. Contents(in) \o behind = bytes \o others
  <2>1. Contents(in) \in Seq(Byte) /\ wire \in Seq(Byte) /\ Contents(out) \in Seq(Byte)
    BY CodecTypes
  <2>2. (Contents(in) \o wire) \o Contents(out) = Contents(in) \o behind
    BY <1>9, <2>1, Regrouped
  <2> QED BY <1>8, <2>2, CodecTypes
<1>11. PICK left \in Seq(Byte) :
         /\ left = SubSeq(Contents(in), k + 1, Len(Contents(in)))
         /\ SubSeq(Contents(in), 1, k) = bytes /\ left \o behind = others
  <2>1. Contents(in) \in Seq(Byte) /\ Len(bytes) <= Len(Contents(in))
    BY <1>4, <1>5, <1>6, CodecTypes
  <2> PICK s \in Seq(Byte) : s = Contents(in)
    BY <2>1
  <2>2. /\ SubSeq(s, 1, Len(bytes)) = bytes
        /\ SubSeq(s, Len(bytes) + 1, Len(s)) \in Seq(Byte)
        /\ SubSeq(s, Len(bytes) + 1, Len(s)) \o behind = others
    <3>1. CutTwice(s, behind, bytes, others)
      BY <1>10, <2>1 DEF CutTwice
    <3> QED BY <3>1, FrontCut
  <2> QED BY <1>4, <2>2
<1>12. Valid(in') /\ Contents(in') = left
  BY <1>3, <1>5, <1>11, CodecTypes, RetrieveDrops
<1>13. got' = Append(got, x)
  <2>1. SubSeq(in.mem, in.rd + 1, in.rd + k) = bytes
    BY <1>5, <1>11, CodecTypes, FrontOfContents
  <2>2. peekInt(in, k) = x.val
    BY <1>3, <1>4, <2>1, ReadBack DEF peekInt
  <2>3. x = [width |-> k, val |-> x.val]
    BY <1>3 DEF Message
  <2> QED BY <1>5, <2>2, <2>3
<1>14. /\ got' \in Seq(Message) /\ Len(got') = m + 1 /\ got'[m + 1] = x
       /\ \A i \in 1..m : got'[i] = got[i]
  BY <1>1, <1>13, CodecTypes, AppendProperties
<1>15. IntsArrive'
  <2>1. ASSUME NEW i \in 1..(m + 1) PROVE got'[i] = sent[i]
    <3>1. CASE i = m + 1
      BY <1>2, <1>14, <3>1
    <3>2. CASE i # m + 1
      <4>1. i \in 1..m
        BY <3>2
      <4> QED BY <1>1, <1>14, <4>1, CodecTypes
    <3> QED BY <3>1, <3>2
  <2>2. Len(got') <= Len(sent)
    BY <1>1, <1>14
  <2>3. IsPrefix(got', sent)
    BY <1>14, <2>1, <2>2, CodecTypes, PrefixIs
  <2> QED BY <1>5, <2>3 DEF IntsArrive
<1>16. WireFormat'
  <2>1. Rest' = Tail(Rest)
    BY <1>5, <1>7, <1>14 DEF Rest
  <2>2. WireFormat' <=> Contents(in)' \o wire' \o Contents(out)' = FlattenSeq(Encoded(Rest'))
    BY DEF WireFormat, Encoded, Rest
  <2>3. (left \o wire) \o Contents(out) = left \o behind
    <3>1. wire \in Seq(Byte) /\ Contents(out) \in Seq(Byte)
      BY CodecTypes
    <3> QED BY <1>9, <3>1, Regrouped
  <2> QED BY <1>5, <1>8, <1>11, <1>12, <2>1, <2>2, <2>3
<1> QED BY <1>5, <1>12, <1>14, <1>15, <1>16, CodecTypes DEF CodecInv

LEMMA CodecNextInv == CodecInv /\ [CodecNext]_codecVars => CodecInv'
<1> SUFFICES ASSUME CodecInv, [CodecNext]_codecVars PROVE CodecInv'
  OBVIOUS
<1>1. ASSUME NEW k \in Widths, NEW val \in 0..(Power[k] - 1), WriteInt(k, val)
      PROVE  CodecInv'
  BY <1>1, WriteIntKeeps
<1>2. CASE Send
  BY <1>2, SendKeeps
<1>3. ASSUME NEW n \in 1..Len(wire), Deliver(n) PROVE CodecInv'
  BY <1>3, DeliverKeeps
<1>4. CASE ReadInt
  BY <1>4, ReadIntKeeps
<1>5. CASE UNCHANGED codecVars
  BY <1>5, BytesMove, CodecTypes DEF codecVars
<1> QED BY <1>1, <1>2, <1>3, <1>4, <1>5 DEF CodecNext

LEMMA CodecInvHolds == CodecSpec => []CodecInv
<1> QED BY CodecInitInv, CodecNextInv, PTL DEF CodecSpec

(* Integers arrive as they were sent, for any widths and any number of them, *)
(* however the stream is cut up and whenever the buffers reallocate         *)
(* (message_buffer.cpp:30-97, tcp_connection.cpp:203-227).                   *)
THEOREM IntegersArrive == CodecSpec => []IntsArrive
<1>1. CodecInv => IntsArrive
  BY DEF CodecInv
<1> QED BY <1>1, CodecInvHolds, PTL

(* What was not read yet is on its way, complete and with the most          *)
(* significant byte first (endian.hpp:28-72, message_buffer.cpp:76-97).     *)
THEOREM NetworkByteOrder == CodecSpec => []WireFormat
<1>1. CodecInv => WireFormat
  BY DEF CodecInv
<1> QED BY <1>1, CodecInvHolds, PTL
==============================================================================
