-------------------------- MODULE EepromBusProofs --------------------------
(***************************************************************************)
(* Theorems about EepromBus, for every size of memory, page and address,   *)
(* and every choice of faults: its type, and that it implements            *)
(* EepromPages.                                                            *)
(***************************************************************************)
EXTENDS EepromBus, DivMod, SequenceTheorems

-----------------------------------------------------------------------------
(***************************************************************************)
(* A transaction, operation by operation.                                  *)
(***************************************************************************)

Prefix == <<"START", "SLA_W", "HI", "LO">>
Second == <<"START", "SLA_R">>
Last   == <<"READ_NACK", "STOP">>
Bytes(n, operation) == [i \in 1 .. n |-> operation]

Operations == {"START", "SLA_W", "SLA_R", "HI", "LO", "DATA", "READ_ACK",
               "READ_NACK", "STOP"}

LEMMA Parts ==
  /\ Prefix \in Seq(Operations) /\ Len(Prefix) = 4
  /\ Second \in Seq(Operations) /\ Len(Second) = 2
  /\ Last \in Seq(Operations) /\ Len(Last) = 2
  /\ <<"STOP">> \in Seq(Operations) /\ Len(<<"STOP">>) = 1
  /\ \A n \in Nat, o \in Operations :
       Bytes(n, o) \in Seq(Operations) /\ Len(Bytes(n, o)) = n
<1> USE DEF Operations
<1>1. Prefix \in Seq(Operations) /\ Len(Prefix) = 4
  BY DEF Prefix
<1>2. Second \in Seq(Operations) /\ Len(Second) = 2
  BY DEF Second
<1>3. Last \in Seq(Operations) /\ Len(Last) = 2
  BY DEF Last
<1>4. <<"STOP">> \in Seq(Operations) /\ Len(<<"STOP">>) = 1
  OBVIOUS
<1> HIDE DEF Operations
<1>5. ASSUME NEW n \in Nat, NEW o \in Operations
      PROVE  Bytes(n, o) \in Seq(Operations) /\ Len(Bytes(n, o)) = n
  BY DEF Bytes
<1> QED
  BY <1>1, <1>2, <1>3, <1>4, <1>5

(* Operation p, from 0, of a read of n bytes and of a write of n bytes.     *)
ReadOperation(n, p) ==
  IF p \in {0, 4} THEN "START"
  ELSE IF p = 1 THEN "SLA_W"
  ELSE IF p = 2 THEN "HI"
  ELSE IF p = 3 THEN "LO"
  ELSE IF p = 5 THEN "SLA_R"
  ELSE IF p \in 6 .. n + 4 THEN "READ_ACK"
  ELSE IF p = n + 5 THEN "READ_NACK" ELSE "STOP"

WriteOperation(n, p) ==
  IF p = 0 THEN "START"
  ELSE IF p = 1 THEN "SLA_W"
  ELSE IF p = 2 THEN "HI"
  ELSE IF p = 3 THEN "LO"
  ELSE IF p \in 4 .. n + 3 THEN "DATA" ELSE "STOP"

LEMMA ReadBytes ==
  ASSUME NEW n \in Nat \ {0}
  PROVE  LET t == Prefix \o (Second \o Bytes(n - 1, "READ_ACK") \o Last)
         IN  /\ Len(t) = n + 7
             /\ \A p \in 0 .. n + 6 : t[p + 1] = ReadOperation(n, p)
<1> DEFINE acks == Bytes(n - 1, "READ_ACK")
           mid  == Second \o acks
           tail == mid \o Last
           t    == Prefix \o tail
<1>1. acks \in Seq(Operations) /\ Len(acks) = n - 1
  <2>1. n - 1 \in Nat /\ "READ_ACK" \in Operations
    BY DEF Operations
  <2> QED
    BY <2>1, Parts
<1>2. /\ mid \in Seq(Operations) /\ Len(mid) = n + 1
      /\ \A i \in 1 .. n + 1 : mid[i] = IF i <= 2 THEN Second[i] ELSE acks[i - 2]
  <2> HIDE DEF acks
  <2>1. Len(Second) = 2 /\ Len(Second) + Len(acks) = n + 1 /\ n + 1 \in Nat
    BY <1>1, Parts
  <2>3. Second \in Seq(Operations) /\ acks \in Seq(Operations)
    BY <1>1, Parts
  <2>4. /\ mid \in Seq(Operations) /\ Len(mid) = Len(Second) + Len(acks)
        /\ \A i \in 1 .. Len(Second) + Len(acks) :
             (mid)[i] = IF i <= Len(Second) THEN Second[i] ELSE acks[i - Len(Second)]
    BY <2>3, ConcatProperties, Zenon
  <2> QED
    BY <2>1, <2>4
<1>3. /\ tail \in Seq(Operations) /\ Len(tail) = n + 3
      /\ \A i \in 1 .. n + 3 : tail[i] = IF i <= n + 1 THEN mid[i]
                                         ELSE Last[i - (n + 1)]
  <2> HIDE DEF mid
  <2>1. /\ Len(mid) = n + 1 /\ Len(mid) + Len(Last) = n + 3
        /\ n + 1 \in Nat /\ n + 3 \in Nat
    BY <1>2, Parts
  <2>3. mid \in Seq(Operations) /\ Last \in Seq(Operations)
    BY <1>2, Parts
  <2>4. /\ tail \in Seq(Operations) /\ Len(tail) = Len(mid) + Len(Last)
        /\ \A i \in 1 .. Len(mid) + Len(Last) :
             (tail)[i] = IF i <= Len(mid) THEN mid[i] ELSE Last[i - Len(mid)]
    BY <2>3, ConcatProperties, Zenon
  <2> QED
    BY <2>1, <2>4
<1>4. /\ Len(t) = n + 7
      /\ \A i \in 1 .. n + 7 : t[i] = IF i <= 4 THEN Prefix[i] ELSE tail[i - 4]
  <2> HIDE DEF tail
  <2>1. Len(Prefix) = 4 /\ Len(Prefix) + Len(tail) = n + 7 /\ n + 7 \in Nat
    BY <1>3, Parts
  <2>3. Prefix \in Seq(Operations) /\ tail \in Seq(Operations)
    BY <1>3, Parts
  <2>4. /\ t \in Seq(Operations) /\ Len(t) = Len(Prefix) + Len(tail)
        /\ \A i \in 1 .. Len(Prefix) + Len(tail) :
             (t)[i] = IF i <= Len(Prefix) THEN Prefix[i] ELSE tail[i - Len(Prefix)]
    BY <2>3, ConcatProperties, Zenon
  <2> QED
    BY <2>1, <2>4
<1>5. \A i \in 1 .. n - 1 : acks[i] = "READ_ACK"
  BY DEF Bytes
<1>6. /\ Prefix[1] = "START" /\ Prefix[2] = "SLA_W"
      /\ Prefix[3] = "HI" /\ Prefix[4] = "LO"
      /\ Second[1] = "START" /\ Second[2] = "SLA_R"
      /\ Last[1] = "READ_NACK" /\ Last[2] = "STOP"
  BY DEF Prefix, Second, Last
<1> HIDE DEF t, tail, mid, acks
<1>7. ASSUME NEW p \in 0 .. n + 6
      PROVE  t[p + 1] = ReadOperation(n, p)
  <2>1. CASE p \in 0 .. 3
    <3>1. t[p + 1] = Prefix[p + 1] /\ p + 1 \in {1, 2, 3, 4}
      BY <1>4, <2>1
    <3> QED
      BY <1>6, <3>1 DEF ReadOperation
  <2>2. CASE p \in 4 .. 5
    <3>1. t[p + 1] = tail[p - 3] /\ p - 3 \in {1, 2}
      BY <1>4, <2>2
    <3>2. tail[p - 3] = mid[p - 3]
      BY <1>3, <2>2
    <3>3. mid[p - 3] = Second[p - 3]
      BY <1>2, <2>2
    <3> QED
      BY <1>6, <3>1, <3>2, <3>3 DEF ReadOperation
  <2>3. CASE p \in 6 .. n + 4
    <3>1. t[p + 1] = tail[p - 3]
      BY <1>4, <2>3
    <3>2. tail[p - 3] = mid[p - 3]
      BY <1>3, <2>3
    <3>3. mid[p - 3] = acks[p - 5]
      BY <1>2, <2>3
    <3>4. acks[p - 5] = "READ_ACK"
      BY <1>5, <2>3
    <3> QED
      BY <2>3, <3>1, <3>2, <3>3, <3>4 DEF ReadOperation
  <2>4. CASE p \in n + 5 .. n + 6
    <3>1. t[p + 1] = tail[p - 3]
      BY <1>4, <2>4
    <3>2. tail[p - 3] = Last[p - n - 4] /\ p - n - 4 \in {1, 2}
      BY <1>3, <2>4
    <3>3. p = n + 6 => t[p + 1] = "STOP"
      BY <1>6, <3>1, <3>2
    <3>4. p = n + 5 => t[p + 1] = "READ_NACK"
      BY <1>6, <3>1, <3>2
    <3> QED
      BY <2>4, <3>3, <3>4 DEF ReadOperation
  <2> QED
    BY <2>1, <2>2, <2>3, <2>4
<1> QED
  BY <1>4, <1>7 DEF t, tail, mid, acks

LEMMA WriteBytes ==
  ASSUME NEW n \in Nat \ {0}
  PROVE  LET t == Prefix \o (Bytes(n, "DATA") \o <<"STOP">>)
         IN  /\ Len(t) = n + 5
             /\ \A p \in 0 .. n + 4 : t[p + 1] = WriteOperation(n, p)
<1> DEFINE bytes == Bytes(n, "DATA")
           stop == <<"STOP">>
           tail == bytes \o stop
           t    == Prefix \o tail
<1>1. bytes \in Seq(Operations) /\ Len(bytes) = n
  <2>1. "DATA" \in Operations
    BY DEF Operations
  <2> QED
    BY <2>1, Parts
<1>2. /\ tail \in Seq(Operations) /\ Len(tail) = n + 1
      /\ \A i \in 1 .. n + 1 : tail[i] = IF i <= n THEN bytes[i] ELSE stop[i - n]
  <2>1. stop \in Seq(Operations) /\ Len(stop) = 1
    BY Parts
  <2> HIDE DEF bytes, stop
  <2>2. Len(bytes) = n /\ Len(bytes) + Len(stop) = n + 1 /\ n + 1 \in Nat
    BY <1>1, <2>1
  <2>3. bytes \in Seq(Operations) /\ stop \in Seq(Operations)
    BY <1>1, <2>1, Parts
  <2>4. /\ tail \in Seq(Operations) /\ Len(tail) = Len(bytes) + Len(stop)
        /\ \A i \in 1 .. Len(bytes) + Len(stop) :
             (tail)[i] = IF i <= Len(bytes) THEN bytes[i] ELSE stop[i - Len(bytes)]
    BY <2>3, ConcatProperties, Zenon
  <2> QED
    BY <2>1, <2>2, <2>4
<1>3. /\ Len(t) = n + 5
      /\ \A i \in 1 .. n + 5 : t[i] = IF i <= 4 THEN Prefix[i] ELSE tail[i - 4]
  <2> HIDE DEF tail
  <2>1. Len(Prefix) = 4 /\ Len(Prefix) + Len(tail) = n + 5 /\ n + 5 \in Nat
    BY <1>2, Parts
  <2>3. Prefix \in Seq(Operations) /\ tail \in Seq(Operations)
    BY <1>2, Parts
  <2>4. /\ t \in Seq(Operations) /\ Len(t) = Len(Prefix) + Len(tail)
        /\ \A i \in 1 .. Len(Prefix) + Len(tail) :
             (t)[i] = IF i <= Len(Prefix) THEN Prefix[i] ELSE tail[i - Len(Prefix)]
    BY <2>3, ConcatProperties, Zenon
  <2> QED
    BY <2>1, <2>4
<1>4. \A i \in 1 .. n : bytes[i] = "DATA"
  BY DEF Bytes
<1>5. /\ Prefix[1] = "START" /\ Prefix[2] = "SLA_W"
      /\ Prefix[3] = "HI" /\ Prefix[4] = "LO"
      /\ stop[1] = "STOP"
  BY DEF Prefix
<1> HIDE DEF t, tail, bytes, stop
<1>6. ASSUME NEW p \in 0 .. n + 4
      PROVE  t[p + 1] = WriteOperation(n, p)
  <2>1. CASE p \in 0 .. 3
    <3>1. t[p + 1] = Prefix[p + 1] /\ p + 1 \in {1, 2, 3, 4}
      BY <1>3, <2>1
    <3> QED
      BY <1>5, <3>1 DEF WriteOperation
  <2>2. CASE p \in 4 .. n + 3
    <3>1. t[p + 1] = tail[p - 3]
      BY <1>3, <2>2
    <3>2. tail[p - 3] = bytes[p - 3]
      BY <1>2, <2>2
    <3>3. bytes[p - 3] = "DATA"
      BY <1>4, <2>2
    <3> QED
      BY <2>2, <3>1, <3>2, <3>3 DEF WriteOperation
  <2>3. CASE p = n + 4
    <3>1. t[p + 1] = tail[n + 1]
      BY <1>3, <2>3
    <3>2. tail[n + 1] = stop[1]
      BY <1>2
    <3>3. p \notin 0 .. 3 /\ p \notin 4 .. n + 3
      BY <2>3
    <3> QED
      BY <1>5, <3>1, <3>2, <3>3 DEF WriteOperation
  <2> QED
    BY <2>1, <2>2, <2>3
<1> QED
  BY <1>3, <1>6 DEF t, tail, bytes, stop

-----------------------------------------------------------------------------
(***************************************************************************)
(* Addresses.                                                              *)
(***************************************************************************)

(* A unit that begins inside a row of n units ends inside it.              *)
LEMMA UnitInside ==
  ASSUME NEW k \in Nat \ {0}, NEW n \in Nat, NEW q \in Nat, q * k < n * k,
         NEW c \in 0 .. k - 1
  PROVE  q < n /\ q * k + c \in 0 .. (n * k) - 1
<1>1. q < n
  <2> SUFFICES ASSUME n <= q PROVE FALSE
    OBVIOUS
  <2>1. PICK m \in Nat : q = n + m
    <3>1. q - n \in Nat /\ q = n + (q - n)
      OBVIOUS
    <3> QED
      BY <3>1
  <2>2. q * k = n * k + m * k /\ m * k \in Nat /\ n * k \in Nat
    BY <2>1
  <2> DEFINE Q == q * k
             N == n * k
             M == m * k
  <2>3. Q = N + M /\ M \in Nat /\ N \in Nat /\ Q < N
    BY <2>2
  <2> HIDE DEF Q, N, M
  <2> QED
    BY <2>3
<1>2. PICK m \in Nat : n = q + 1 + m
  <2>1. n - q - 1 \in Nat /\ n = q + 1 + (n - q - 1)
    BY <1>1
  <2> QED
    BY <2>1
<1>3. n * k = q * k + k + m * k /\ m * k \in Nat /\ q * k \in Nat
  BY <1>2
<1>4. q * k + c \in 0 .. (n * k) - 1
  <2> DEFINE Q == q * k
             N == n * k
             M == m * k
  <2>1. N = Q + k + M /\ M \in Nat /\ Q \in Nat
    BY <1>3
  <2> HIDE DEF Q, N, M
  <2>2. Q + c \in 0 .. N - 1
    BY <2>1
  <2> QED
    BY <2>2 DEF Q, N
<1> QED
  BY <1>1, <1>4

LEMMA Sizes ==
  /\ Uint8 \in Nat \ {0} /\ PageSize \in Nat \ {0}
  /\ MemSize \in Nat \ {0} /\ 0 \in Addr
  /\ Index = 0 .. Uint8 - 1 /\ 1 \in 1 .. Uint8
<1>1. Uint8 \in Nat \ {0} /\ PageSize \in Nat \ {0}
  BY BusAssumption
<1>2. Uint8 * Uint8 \in Nat \ {0}
  BY <1>1
<1> QED
  BY <1>1, <1>2 DEF MemSize, Addr, Index

(* The two bytes of an address, and the address of two bytes.              *)
LEMMA Halves ==
  ASSUME NEW a \in Addr
  PROVE  a \div Uint8 \in 0 .. Uint8 - 1 /\ a % Uint8 \in 0 .. Uint8 - 1
<1>1. a \in Nat /\ a < Uint8 * Uint8 /\ Uint8 \in Nat \ {0}
  BY Sizes DEF Addr, MemSize
<1> DEFINE q == a \div Uint8
           r == a % Uint8
<1>2. q \in Nat /\ r \in 0 .. Uint8 - 1 /\ q * Uint8 \in Nat /\ a = q * Uint8 + r
  BY <1>1, Division
<1> HIDE DEF q, r
<1>3. q * Uint8 < Uint8 * Uint8
  <2> DEFINE Q == q * Uint8
             M == Uint8 * Uint8
  <2>1. Q \in Nat /\ a = Q + r /\ a < M /\ M \in Nat /\ r >= 0 /\ r \in Int
    BY <1>1, <1>2
  <2> HIDE DEF Q, M
  <2>2. Q < M
    BY <2>1
  <2> QED
    BY <2>2 DEF Q, M
<1>4. q < Uint8
  <2>1. 0 \in 0 .. Uint8 - 1
    BY <1>1
  <2> QED
    BY <1>1, <1>2, <1>3, <2>1, UnitInside
<1>5. q \in 0 .. Uint8 - 1
  BY <1>1, <1>2, <1>4
<1> QED
  BY <1>2, <1>5 DEF q, r

LEMMA Pair ==
  ASSUME NEW h \in 0 .. Uint8 - 1, NEW l \in 0 .. Uint8 - 1
  PROVE  h * Uint8 + l \in Addr
<1>1. h \in Nat /\ Uint8 \in Nat \ {0} /\ h < Uint8
  BY Sizes
<1>2. h * Uint8 < Uint8 * Uint8
  <2>1. PICK m \in Nat : Uint8 = h + 1 + m
    <3>1. Uint8 - h - 1 \in Nat /\ Uint8 = h + 1 + (Uint8 - h - 1)
      BY <1>1
    <3> QED
      BY <3>1
  <2>2. Uint8 * Uint8 = h * Uint8 + Uint8 + m * Uint8
    BY <1>1, <2>1
  <2>3. h * Uint8 \in Nat /\ m * Uint8 \in Nat
    BY <1>1, <2>1
  <2> DEFINE H == h * Uint8
             M == m * Uint8
             U == Uint8 * Uint8
  <2>4. U = H + Uint8 + M /\ H \in Nat /\ M \in Nat
    BY <2>2, <2>3
  <2> HIDE DEF H, M, U
  <2>5. H < U
    BY <1>1, <2>4
  <2> QED
    BY <2>5 DEF H, U
<1>3. h * Uint8 + l \in 0 .. (Uint8 * Uint8) - 1
  BY <1>1, <1>2, UnitInside
<1> QED
  BY <1>3 DEF Addr, MemSize

LEMMA NextAddress ==
  ASSUME NEW a \in Addr
  PROVE  NextInPage(a) \in Addr /\ (a + 1) % MemSize \in Addr
<1>1. a \in Nat /\ a < MemSize /\ MemSize \in Nat \ {0} /\ PageSize \in Nat \ {0}
  BY Sizes DEF Addr
<1> DEFINE q == a \div PageSize
           r == a % PageSize
           n == MemSize \div PageSize
           c == (a + 1) % PageSize
<1>2. q \in Nat /\ r \in 0 .. PageSize - 1 /\ q * PageSize \in Nat
      /\ a = q * PageSize + r
  BY <1>1, Division
<1>3. n \in Nat /\ MemSize = n * PageSize + (MemSize % PageSize)
      /\ n * PageSize \in Nat
  BY <1>1, Division
<1>4. MemSize % PageSize = 0
  BY BusAssumption
<1>5. a + 1 \in Nat /\ c \in 0 .. PageSize - 1
  BY <1>1
<1> HIDE DEF q, r, n, c
<1> DEFINE Q == q * PageSize
           N == n * PageSize
<1>6. Q \in Nat /\ a = Q + r /\ N \in Nat /\ MemSize = N + 0
  BY <1>2, <1>3, <1>4
<1> HIDE DEF Q, N
<1>7. Q < N /\ MemSize = N /\ a - r = Q
  BY <1>1, <1>2, <1>6
<1>8. Q + c \in 0 .. N - 1
  BY <1>1, <1>2, <1>3, <1>5, <1>7, UnitInside DEF Q, N
<1>9. NextInPage(a) \in Addr
  BY <1>7, <1>8 DEF NextInPage, Addr, r, c
<1>10. (a + 1) % MemSize \in Addr
  <2>1. a + 1 \in Nat /\ MemSize \in Nat \ {0}
    BY <1>1
  <2> QED
    BY <2>1, Division DEF Addr
<1> QED
  BY <1>9, <1>10

-----------------------------------------------------------------------------
(***************************************************************************)
(* The transaction of a state.                                             *)
(***************************************************************************)

LEMMA ReadTransaction ==
  ASSUME Length \in 1 .. Uint8, Reading
  PROVE  /\ Len(Transaction) = Length + 7
         /\ pos \in 0 .. Length + 6 => Operation = ReadOperation(Length, pos)
<1> DEFINE n == Length
<1>1. n \in Nat \ {0}
  BY Sizes
<1>2. Transaction = Prefix \o (Second \o Bytes(n - 1, "READ_ACK") \o Last)
  BY DEF Transaction, Prefix, Second, Last, Bytes
<1> HIDE DEF n
<1>3. LET t == Prefix \o (Second \o Bytes(n - 1, "READ_ACK") \o Last)
      IN  /\ Len(t) = n + 7
          /\ \A p \in 0 .. n + 6 : t[p + 1] = ReadOperation(n, p)
  BY <1>1, ReadBytes
<1> QED
  BY <1>2, <1>3 DEF n, Operation

LEMMA WriteTransaction ==
  ASSUME Length \in 1 .. Uint8, ~Reading
  PROVE  /\ Len(Transaction) = Length + 5
         /\ pos \in 0 .. Length + 4 => Operation = WriteOperation(Length, pos)
<1> DEFINE n == Length
<1>1. n \in Nat \ {0}
  BY Sizes
<1>2. Transaction = Prefix \o (Bytes(n, "DATA") \o <<"STOP">>)
  BY DEF Transaction, Prefix, Bytes
<1> HIDE DEF n
<1>3. LET t == Prefix \o (Bytes(n, "DATA") \o <<"STOP">>)
      IN  /\ Len(t) = n + 5
          /\ \A p \in 0 .. n + 4 : t[p + 1] = WriteOperation(n, p)
  BY <1>1, WriteBytes
<1> QED
  BY <1>2, <1>3 DEF n, Operation

(* It has operations, and those about a byte are about one of the buffer.  *)
LEMMA Positions ==
  ASSUME TypeOK
  PROVE  /\ Len(Transaction) \in Nat \ {0}
         /\ Operation \in {"READ_ACK", "READ_NACK", "DATA"}
              => DataIndex \in Index
<1>1. Length \in 1 .. Uint8 /\ Uint8 \in Nat \ {0}
  BY Sizes DEF TypeOK, Length
<1>2. pos \in 0 .. Len(Transaction) - 1
  BY DEF TypeOK
<1>3. CASE Reading
  <2>1. Len(Transaction) = Length + 7
    BY <1>1, <1>3, ReadTransaction
  <2>2. pos \in 0 .. Length + 6
    BY <1>1, <1>2, <2>1
  <2>3. /\ Operation \in {"READ_ACK", "READ_NACK"} => pos \in 6 .. Length + 5
        /\ Operation # "DATA"
    BY <1>1, <1>3, <2>2, ReadTransaction DEF ReadOperation
  <2>4. DataIndex = pos - 6
    BY <1>3 DEF DataIndex
  <2> QED
    BY <1>1, <2>1, <2>3, <2>4, Sizes
<1>4. CASE ~Reading
  <2>1. Len(Transaction) = Length + 5
    BY <1>1, <1>4, WriteTransaction
  <2>2. pos \in 0 .. Length + 4
    BY <1>1, <1>2, <2>1
  <2>3. /\ Operation = "DATA" => pos \in 4 .. Length + 3
        /\ Operation \notin {"READ_ACK", "READ_NACK"}
    BY <1>1, <1>4, <2>2, WriteTransaction DEF WriteOperation
  <2>4. DataIndex = pos - 4
    BY <1>4 DEF DataIndex
  <2> QED
    BY <1>1, <2>1, <2>3, <2>4, Sizes
<1> QED
  BY <1>3, <1>4

(* The next transaction can begin at its first operation.                  *)
LEMMA FirstOperation ==
  ASSUME number' \in 1 .. Uint8, pos' = 0
  PROVE  pos' \in 0 .. Len(Transaction') - 1
<1> DEFINE n == Length'
<1>1. n \in Nat \ {0}
  BY Sizes DEF Length
<1>2. CASE Reading'
  <2>1. Transaction' = Prefix \o (Second \o Bytes(n - 1, "READ_ACK") \o Last)
    BY <1>2 DEF Transaction, Prefix, Second, Last, Bytes
  <2> HIDE DEF n
  <2>2. Len(Prefix \o (Second \o Bytes(n - 1, "READ_ACK") \o Last)) = n + 7
    BY <1>1, ReadBytes
  <2> QED
    BY <1>1, <2>1, <2>2
<1>3. CASE ~Reading'
  <2>1. Transaction' = Prefix \o (Bytes(n, "DATA") \o <<"STOP">>)
    BY <1>3 DEF Transaction, Prefix, Bytes
  <2> HIDE DEF n
  <2>2. Len(Prefix \o (Bytes(n, "DATA") \o <<"STOP">>)) = n + 5
    BY <1>1, WriteBytes
  <2> QED
    BY <1>1, <2>1, <2>2
<1> QED
  BY <1>2, <1>3

LEMMA SameTransaction ==
  ASSUME UNCHANGED <<stage, op, number>>
  PROVE  Transaction' = Transaction
  BY DEF Transaction, Reading, Length

-----------------------------------------------------------------------------
(***************************************************************************)
(* TypeOK, the calls' half and the chip's.                                 *)
(***************************************************************************)

CallTypeOK ==
  /\ stage \in {"idle", "poll", "transfer"}
  /\ op \in {"read", "write"}
  /\ addr \in Addr /\ number \in 1 .. Uint8
  /\ data \in Buffer
  /\ polls \in 0 .. MaxPolls
  /\ pos \in 0 .. Len(Transaction) - 1
  /\ ret \in {"none", "TWI_OK", "TWI_ERR"}

ChipTypeOK ==
  /\ listening \in {"off", "address", "HI", "LO", "data", "read"}
  /\ pointer \in Addr
  /\ latch \in [Addr -> Values \union {NoValue}]
  /\ programming \in BOOLEAN
  /\ eeprom \in [Addr -> Values]

LEMMA Halved == TypeOK <=> CallTypeOK /\ ChipTypeOK /\ held \in BOOLEAN
  BY Zenon DEF TypeOK, CallTypeOK, ChipTypeOK

LEMMA Targeted ==
  ASSUME CallTypeOK
  PROVE  Target \in Addr
  BY Sizes DEF CallTypeOK, Target

(* The chip, whatever the operation.                                       *)
LEMMA ChipKeepsType ==
  ASSUME TypeOK, ChipSees
  PROVE  ChipTypeOK'
<1>1. ChipTypeOK /\ CallTypeOK
  BY Halved
<1>2. NoLatch \in [Addr -> Values \union {NoValue}]
  BY DEF NoLatch
<1>3. CASE ChipStart
  BY <1>1, <1>2, <1>3 DEF ChipTypeOK, ChipStart
<1>4. CASE ChipAddressed
  BY <1>1, <1>4 DEF ChipTypeOK, ChipAddressed
<1>5. CASE ChipPointer
  <2>1. Target \in Addr /\ pointer \in Addr
    BY <1>1, Targeted DEF ChipTypeOK
  <2>2. /\ Target \div Uint8 \in 0 .. Uint8 - 1 /\ Target % Uint8 \in 0 .. Uint8 - 1
        /\ pointer \div Uint8 \in 0 .. Uint8 - 1
        /\ pointer % Uint8 \in 0 .. Uint8 - 1
    BY <2>1, Halves
  <2>3. /\ AddressByte("HI") = Target \div Uint8
        /\ AddressByte("LO") = Target % Uint8
    BY DEF AddressByte
  <2>4. /\ (AddressByte("HI") * Uint8) + (pointer % Uint8) \in Addr
        /\ (pointer \div Uint8) * Uint8 + AddressByte("LO") \in Addr
    BY <2>2, <2>3, Pair
  <2> QED
    BY <1>1, <1>5, <2>4, Zenon DEF ChipTypeOK, ChipPointer
<1>6. CASE ChipTakesByte
  <2>1. DataIndex \in Index
    BY <1>6, Positions DEF ChipTakesByte
  <2>2. data[DataIndex] \in Values
    BY <1>1, <2>1 DEF CallTypeOK, Buffer
  <2>3. NextInPage(pointer) \in Addr
    BY <1>1, NextAddress DEF ChipTypeOK
  <2> QED
    BY <1>1, <1>6, <2>2, <2>3 DEF ChipTypeOK, ChipTakesByte
<1>7. CASE ChipGivesByte
  <2>1. (pointer + 1) % MemSize \in Addr
    BY <1>1, NextAddress DEF ChipTypeOK
  <2> QED
    BY <1>1, <1>7, <2>1 DEF ChipTypeOK, ChipGivesByte
<1>8. CASE ChipStop
  <2>1. \A a \in Addr : latch[a] = NoValue \/ latch[a] \in Values
    BY <1>1 DEF ChipTypeOK
  <2>2. eeprom' \in [Addr -> Values]
    BY <1>1, <1>8, <2>1 DEF ChipTypeOK, ChipStop
  <2>3. programming' \in BOOLEAN
    BY <1>1, <1>8, Zenon DEF ChipTypeOK, ChipStop
  <2> QED
    BY <1>1, <1>2, <1>8, <2>2, <2>3 DEF ChipTypeOK, ChipStop
<1> QED
  BY <1>3, <1>4, <1>5, <1>6, <1>7, <1>8 DEF ChipSees

(* A call that gives up, or polls again.                                   *)
LEMMA AbortKeepsType ==
  ASSUME TypeOK, Abort, stage # "idle"
  PROVE  CallTypeOK' /\ held' = held
<1>1. CallTypeOK
  BY Halved
<1>2. polls' \in 0 .. MaxPolls
  <2>1. MaxPolls \in Nat /\ polls \in 0 .. MaxPolls
    BY <1>1, BusAssumption DEF CallTypeOK
  <2> QED
    BY <2>1 DEF Abort, GiveUp, NextPoll
<1>3. stage' \in {"idle", "poll", "transfer"} /\ ret' \in {"none", "TWI_OK", "TWI_ERR"}
  BY <1>1 DEF CallTypeOK, Abort
<1>4. /\ op' \in {"read", "write"} /\ addr' \in Addr /\ number' \in 1 .. Uint8
      /\ data' \in Buffer /\ held' = held /\ pos' = 0
  BY <1>1 DEF CallTypeOK, Abort
<1>5. pos' \in 0 .. Len(Transaction') - 1
  BY <1>4, FirstOperation
<1> QED
  BY <1>2, <1>3, <1>4, <1>5 DEF CallTypeOK

LEMMA BeginKeepsType ==
  ASSUME TypeOK, NEW o \in {"read", "write"}, NEW a \in Addr,
         NEW n \in 1 .. Uint8, Begin(o, a, n), data' \in Buffer
  PROVE  TypeOK'
<1>1. CallTypeOK /\ ChipTypeOK /\ held \in BOOLEAN
  BY Halved
<1>2. ChipTypeOK' /\ held' \in BOOLEAN
  BY <1>1 DEF ChipTypeOK, Begin, chip
<1>3. polls' \in 0 .. MaxPolls
  BY BusAssumption DEF Begin
<1>4. pos' \in 0 .. Len(Transaction') - 1
  BY FirstOperation DEF Begin
<1>5. CallTypeOK'
  BY <1>3, <1>4 DEF CallTypeOK, Begin
<1>6. TypeOK' <=> CallTypeOK' /\ ChipTypeOK' /\ (held \in BOOLEAN)'
  BY Zenon DEF TypeOK, CallTypeOK, ChipTypeOK
<1> QED
  BY <1>2, <1>5, <1>6

LEMMA OkKeepsType ==
  ASSUME TypeOK, TwiOk
  PROVE  CallTypeOK' /\ held' = held
<1>1. CallTypeOK /\ ChipTypeOK
  BY Halved
<1>2. /\ op' = op /\ addr' = addr /\ number' = number /\ polls' = polls
      /\ held' = held
  BY DEF TwiOk
<1>3. data' \in Buffer
  <2>1. CASE stage = "transfer" /\ Operation \in {"READ_ACK", "READ_NACK"}
    <3>1. DataIndex \in Index
      BY <2>1, Positions
    <3>2. eeprom[pointer] \in Values
      BY <1>1 DEF ChipTypeOK
    <3>3. data' = [data EXCEPT ![DataIndex] = eeprom[pointer]]
      BY <2>1 DEF TwiOk, Store
    <3> QED
      BY <1>1, <3>1, <3>2, <3>3 DEF CallTypeOK, Buffer
  <2>2. CASE ~(stage = "transfer" /\ Operation \in {"READ_ACK", "READ_NACK"})
    BY <1>1, <2>2 DEF TwiOk, Store, CallTypeOK
  <2> QED
    BY <2>1, <2>2
<1>4. /\ stage' \in {"idle", "poll", "transfer"}
      /\ ret' \in {"none", "TWI_OK", "TWI_ERR"}
      /\ pos' \in 0 .. Len(Transaction') - 1
  <2>1. CASE pos + 1 < Len(Transaction)
    <3>1. pos' = pos + 1 /\ stage' = stage /\ ret' = ret
      BY <2>1 DEF TwiOk, Continue
    <3>2. Transaction' = Transaction
      BY <1>2, <3>1, SameTransaction
    <3>3. Len(Transaction) \in Nat \ {0} /\ pos \in 0 .. Len(Transaction) - 1
      BY <1>1, Positions DEF CallTypeOK
    <3>4. pos' \in 0 .. Len(Transaction') - 1
      BY <2>1, <3>1, <3>2, <3>3
    <3> QED
      BY <1>1, <3>1, <3>4 DEF CallTypeOK
  <2>2. CASE ~(pos + 1 < Len(Transaction))
    <3>1. /\ pos' = 0
          /\ \/ stage = "poll" /\ stage' = "transfer" /\ UNCHANGED ret
             \/ stage = "transfer" /\ stage' = "idle" /\ ret' = "TWI_OK"
      BY <2>2 DEF TwiOk, Continue
    <3>2. number' \in 1 .. Uint8
      BY <1>1, <1>2 DEF CallTypeOK
    <3>3. pos' \in 0 .. Len(Transaction') - 1
      BY <3>1, <3>2, FirstOperation
    <3> QED
      BY <1>1, <3>1, <3>3 DEF CallTypeOK
  <2> QED
    BY <2>1, <2>2
<1> QED
  BY <1>1, <1>2, <1>3, <1>4 DEF CallTypeOK

LEMMA Both ==
  ASSUME CallTypeOK', ChipTypeOK', held' \in BOOLEAN
  PROVE  TypeOK'
  BY Zenon DEF TypeOK, CallTypeOK, ChipTypeOK

LEMMA InitTypeOK == Init => TypeOK
<1> SUFFICES ASSUME Init PROVE TypeOK
  OBVIOUS
<1>1. addr \in Addr /\ number \in 1 .. Uint8 /\ polls \in 0 .. MaxPolls
      /\ pointer \in Addr
  BY Sizes, BusAssumption DEF Init
<1>2. data \in Buffer
  BY DEF Init, Buffer
<1>3. pos \in 0 .. Len(Transaction) - 1
  <2>1. Length \in 1 .. Uint8 /\ Reading
    BY <1>1 DEF Init, Length, Reading
  <2>2. Len(Transaction) = Length + 7
    BY <2>1, ReadTransaction
  <2> QED
    BY <2>1, <2>2, Sizes DEF Init
<1>4. latch \in [Addr -> Values \union {NoValue}]
  BY DEF Init, NoLatch
<1>5. /\ stage \in {"idle", "poll", "transfer"} /\ op \in {"read", "write"}
      /\ ret \in {"none", "TWI_OK", "TWI_ERR"}
      /\ listening \in {"off", "address", "HI", "LO", "data", "read"}
      /\ eeprom \in [Addr -> Values]
  BY DEF Init
<1>6. held \in BOOLEAN /\ programming \in BOOLEAN
  BY DEF Init
<1> QED
  BY <1>1, <1>2, <1>3, <1>4, <1>5, <1>6 DEF TypeOK

LEMMA NextTypeOK == TypeOK /\ [Next]_vars => TypeOK'
<1> SUFFICES ASSUME TypeOK, [Next]_vars PROVE TypeOK'
  OBVIOUS
<1>1. CallTypeOK /\ ChipTypeOK /\ held \in BOOLEAN
  BY Halved
<1>2. CASE ext_eeprom_read_block
  <2>1. PICK r \in Reads : Begin("read", r[1], r[2]) /\ UNCHANGED data
    BY <1>2 DEF ext_eeprom_read_block
  <2>2. r[1] \in Addr /\ r[2] \in 1 .. Uint8
    BY <2>1, BusAssumption
  <2>3. data' \in Buffer
    BY <1>1, <2>1 DEF CallTypeOK
  <2> QED
    BY <2>1, <2>2, <2>3, BeginKeepsType
<1>3. CASE ext_eeprom_write_page
  <2>1. PICK w \in Writes : Begin("write", w[1], w[2])
    BY <1>3 DEF ext_eeprom_write_page
  <2>2. w[1] \in Addr /\ w[2] \in 1 .. PageSize
    BY <2>1, BusAssumption
  <2>3. w[2] \in 1 .. Uint8
    BY <2>2, BusAssumption
  <2>4. data' \in Buffer
    BY <1>3 DEF ext_eeprom_write_page
  <2> QED
    BY <2>1, <2>2, <2>3, <2>4, BeginKeepsType
<1>4. CASE TwiOk
  <2>1. CallTypeOK' /\ held' = held
    BY <1>4, OkKeepsType
  <2>2. ChipTypeOK'
    BY <1>4, ChipKeepsType DEF TwiOk
  <2> QED
    BY <1>1, <2>1, <2>2, Both
<1>5. CASE TwiNack
  <2>1. CallTypeOK' /\ held' = held
    BY <1>5, AbortKeepsType DEF TwiNack
  <2>2. ChipTypeOK'
    BY <1>1, <1>5 DEF TwiNack, ChipTypeOK
  <2> QED
    BY <1>1, <2>1, <2>2, Both
<1>6. CASE TwiFails
  <2>1. CallTypeOK' /\ held' = held
    BY <1>6, AbortKeepsType DEF TwiFails
  <2>2. CASE ChipSees
    <3>1. ChipTypeOK'
      BY <2>2, ChipKeepsType
    <3> QED
      BY <1>1, <2>1, <3>1, Both
  <2>3. CASE UNCHANGED chip
    <3>1. ChipTypeOK'
      BY <1>1, <2>3 DEF chip, ChipTypeOK
    <3> QED
      BY <1>1, <2>1, <3>1, Both
  <2> QED
    BY <1>6, <2>2, <2>3 DEF TwiFails
<1>7. CASE WriteCycleEnds
  <2>1. Transaction' = Transaction
    BY <1>7, SameTransaction DEF WriteCycleEnds, call
  <2>2. CallTypeOK'
    BY <1>1, <1>7, <2>1 DEF WriteCycleEnds, call, CallTypeOK
  <2>3. ChipTypeOK' /\ held' \in BOOLEAN
    BY <1>1, <1>7 DEF WriteCycleEnds, ChipTypeOK
  <2> QED
    BY <2>2, <2>3, Both
<1>8. CASE WatchdogReset
  <2>1. number' \in 1 .. Uint8 /\ addr' \in Addr /\ polls' \in 0 .. MaxPolls
    BY <1>8, Sizes, BusAssumption DEF WatchdogReset
  <2>2. pos' \in 0 .. Len(Transaction') - 1
    BY <1>8, <2>1, FirstOperation DEF WatchdogReset
  <2>3. CallTypeOK'
    BY <1>1, <1>8, <2>1, <2>2 DEF WatchdogReset, CallTypeOK
  <2>4. ChipTypeOK'
    BY <1>1, <1>8 DEF WatchdogReset, ChipTypeOK, chip
  <2>5. held' \in BOOLEAN
    BY <1>1, <1>8 DEF WatchdogReset
  <2> QED
    BY <2>3, <2>4, <2>5, Both
<1>9. CASE UNCHANGED vars
  <2>1. Transaction' = Transaction
    BY <1>9, SameTransaction DEF vars, call
  <2>2. CallTypeOK'
    BY <1>1, <1>9, <2>1 DEF vars, call, CallTypeOK
  <2>3. ChipTypeOK' /\ held' \in BOOLEAN
    BY <1>1, <1>9 DEF vars, chip, ChipTypeOK
  <2> QED
    BY <2>2, <2>3, Both
<1> QED
  BY <1>2, <1>3, <1>4, <1>5, <1>6, <1>7, <1>8, <1>9 DEF Next

(* The type invariant (ext_eeprom.c and twi.c): the operations stay within *)
(* their transaction and the bytes within the caller's buffer, whatever    *)
(* fails and whenever the processor is reset.                              *)
THEOREM TypeCorrect == Spec => []TypeOK
<1>1. Init => TypeOK
  BY InitTypeOK
<1>2. TypeOK /\ [Next]_vars => TypeOK'
  BY NextTypeOK
<1> QED
  BY <1>1, <1>2, PTL DEF Spec

-----------------------------------------------------------------------------
(***************************************************************************)
(* The addresses of a page write and of a read.                            *)
(***************************************************************************)

PageAddress(a, i) == Promise!PageAddress(a, i)

(* The rest of the next number.                                            *)
LEMMA NextRest ==
  ASSUME NEW k \in Nat \ {0}, NEW m \in Nat
  PROVE  ((m % k) + 1) % k = (m + 1) % k
<1>1. /\ (m % k) + 1 < k => (m + 1) % k = (m % k) + 1
      /\ (m % k) + 1 \in k .. 2 * k - 1 => (m + 1) % k = (m % k) + 1 - k
  BY RestOfSum
<1> DEFINE d == m % k
<1>2. d \in 0 .. k - 1
  OBVIOUS
<1> HIDE DEF d
<1>3. d \in Nat /\ d % k = d
  BY <1>2, RestOfSmall
<1>4. /\ (d % k) + 1 < k => (d + 1) % k = (d % k) + 1
      /\ (d % k) + 1 \in k .. 2 * k - 1 => (d + 1) % k = (d % k) + 1 - k
  BY <1>3, RestOfSum
<1>5. d + 1 < k \/ d + 1 \in k .. 2 * k - 1
  BY <1>2
<1>6. /\ d + 1 < k => (m + 1) % k = d + 1
      /\ d + 1 \in k .. 2 * k - 1 => (m + 1) % k = d + 1 - k
  BY <1>1 DEF d
<1>7. (d + 1) % k = (m + 1) % k
  <2> DEFINE x == (d + 1) % k
             y == (m + 1) % k
  <2>1. /\ d + 1 < k => x = d + 1
        /\ d + 1 \in k .. 2 * k - 1 => x = d + 1 - k
    BY <1>3, <1>4
  <2>2. /\ d + 1 < k => y = d + 1
        /\ d + 1 \in k .. 2 * k - 1 => y = d + 1 - k
    BY <1>6
  <2> HIDE DEF x, y
  <2>3. x = y
    BY <1>5, <2>1, <2>2
  <2> QED
    BY <2>3 DEF x, y
<1> QED
  BY <1>7 DEF d

(* The page of an address is whole.                                        *)
LEMMA InPage ==
  ASSUME NEW a \in Addr
  PROVE  /\ a % PageSize \in 0 .. PageSize - 1
         /\ a - (a % PageSize) = (a \div PageSize) * PageSize
         /\ a \div PageSize \in Nat
         /\ \A c \in 0 .. PageSize - 1 :
              /\ (a - (a % PageSize)) + c \in Addr
              /\ ((a - (a % PageSize)) + c) % PageSize = c
<1>1. a \in Nat /\ a < MemSize /\ MemSize \in Nat \ {0} /\ PageSize \in Nat \ {0}
  BY Sizes DEF Addr
<1> DEFINE q == a \div PageSize
           r == a % PageSize
           n == MemSize \div PageSize
<1>2. q \in Nat /\ r \in 0 .. PageSize - 1 /\ q * PageSize \in Nat
      /\ a = q * PageSize + r
  BY <1>1, Division
<1>3. n \in Nat /\ MemSize = n * PageSize + (MemSize % PageSize)
      /\ n * PageSize \in Nat
  BY <1>1, Division
<1>4. MemSize % PageSize = 0
  BY BusAssumption
<1> HIDE DEF q, r, n
<1> DEFINE Q == q * PageSize
           N == n * PageSize
<1>5. Q \in Nat /\ a = Q + r /\ N \in Nat /\ MemSize = N + 0
  BY <1>2, <1>3, <1>4
<1> HIDE DEF Q, N
<1>6. Q < N /\ MemSize = N /\ a - r = Q
  BY <1>1, <1>2, <1>5
<1>7. ASSUME NEW c \in 0 .. PageSize - 1
      PROVE  Q + c \in Addr /\ (Q + c) % PageSize = c
  <2>1. Q + c \in 0 .. N - 1
    BY <1>1, <1>2, <1>3, <1>6, <1>7, UnitInside DEF Q, N
  <2>2. (Q + c) % PageSize = c
    BY <1>1, <1>2, <1>7, QuotientAndRest DEF Q
  <2> QED
    BY <1>6, <2>1, <2>2 DEF Addr
<1>8. r \in 0 .. PageSize - 1 /\ a - r = Q /\ q \in Nat
  BY <1>2, <1>6
<1> QED
  BY <1>7, <1>8 DEF Q, q, r

LEMMA PageAddresses ==
  ASSUME NEW a \in Addr
  PROVE  /\ PageAddress(a, 0) = a
         /\ \A i \in Nat :
              /\ PageAddress(a, i) \in Addr
              /\ NextInPage(PageAddress(a, i)) = PageAddress(a, i + 1)
<1> DEFINE r == a % PageSize
           Q == a - r
           c(i) == (r + i) % PageSize
<1>1. PageSize \in Nat \ {0} /\ a \in Nat
  BY Sizes DEF Addr
<1>2. r \in 0 .. PageSize - 1 /\ Q \in Int /\ a = Q + r
  BY <1>1, InPage
<1>3. \A i \in Nat : c(i) \in 0 .. PageSize - 1
  BY <1>1, <1>2
<1>4. \A i : PageAddress(a, i) = Q + c(i)
  BY DEF PageAddress, Promise!PageAddress
<1>5. \A x \in 0 .. PageSize - 1 : Q + x \in Addr /\ (Q + x) % PageSize = x
  BY InPage
<1>6. c(0) = r
  <2> HIDE DEF r
  <2>1. r + 0 = r /\ r % PageSize = r
    BY <1>1, <1>2, RestOfSmall
  <2> QED
    BY <2>1
<1>7. ASSUME NEW i \in Nat
      PROVE  c(i + 1) = (c(i) + 1) % PageSize
  <2> HIDE DEF r
  <2> DEFINE m == r + i
  <2>1. m \in Nat /\ r + (i + 1) = m + 1
    BY <1>2, <1>7
  <2> HIDE DEF m
  <2>2. ((m % PageSize) + 1) % PageSize = (m + 1) % PageSize
    BY <1>1, <2>1, NextRest
  <2> QED
    BY <2>1, <2>2 DEF m
<1> HIDE DEF c
<1>8. ASSUME NEW i \in Nat
      PROVE  NextInPage(PageAddress(a, i)) = PageAddress(a, i + 1)
  <2> HIDE DEF Q
  <2> DEFINE b == PageAddress(a, i)
             d == c(i)
  <2>1. d \in 0 .. PageSize - 1 /\ b = Q + d /\ b \in Addr /\ b % PageSize = d
    BY <1>3, <1>4, <1>5
  <2>2. (b + 1) % PageSize = (d + 1) % PageSize
    <3> HIDE DEF b, d
    <3>1. b \in Nat
      BY <1>1, <2>1, Sizes DEF Addr
    <3>2. ((b % PageSize) + 1) % PageSize = (b + 1) % PageSize
      BY <1>1, <3>1, NextRest
    <3> QED
      BY <2>1, <3>2
  <2>3. b - (b % PageSize) = Q
    <3> HIDE DEF b, d
    <3> QED
      BY <1>2, <2>1
  <2>4. NextInPage(b) = Q + c(i + 1)
    BY <1>7, <2>2, <2>3 DEF NextInPage
  <2> QED
    BY <1>4, <2>4
<1>9. PageAddress(a, 0) = a
  BY <1>2, <1>4, <1>6
<1>10. \A i \in Nat : PageAddress(a, i) \in Addr
  BY <1>3, <1>4, <1>5
<1> QED
  BY <1>8, <1>9, <1>10

(* As many bytes as a page has go to different addresses.                  *)
LEMMA PageAddressesDiffer ==
  ASSUME NEW a \in Addr, NEW i \in 0 .. PageSize - 1, NEW j \in 0 .. i - 1
  PROVE  PageAddress(a, j) # PageAddress(a, i)
<1> DEFINE r == a % PageSize
           c(x) == (r + x) % PageSize
<1>1. PageSize \in Nat \ {0} /\ r \in 0 .. PageSize - 1 /\ a \in Nat
  <2>1. PageSize \in Nat \ {0} /\ a \in Nat
    BY Sizes DEF Addr
  <2> QED
    BY <2>1, Division
<1>2. \A x : PageAddress(a, x) = (a - r) + c(x)
  BY DEF PageAddress, Promise!PageAddress
<1> HIDE DEF r
<1>3. ASSUME NEW x \in 0 .. PageSize - 1
      PROVE  \/ r + x < PageSize /\ c(x) = r + x
             \/ r + x >= PageSize /\ c(x) = r + x - PageSize
  <2>1. r % PageSize = r /\ r \in Nat /\ x \in Nat
    BY <1>1, RestOfSmall
  <2>2. /\ (r % PageSize) + x < PageSize
             => (r + x) % PageSize = (r % PageSize) + x
        /\ (r % PageSize) + x \in PageSize .. 2 * PageSize - 1
             => (r + x) % PageSize = (r % PageSize) + x - PageSize
    BY <1>1, <2>1, RestOfSum
  <2>3. /\ r + x < PageSize => c(x) = r + x
        /\ r + x \in PageSize .. 2 * PageSize - 1 => c(x) = r + x - PageSize
    BY <2>1, <2>2
  <2> HIDE DEF c
  <2> QED
    BY <1>1, <2>1, <2>3
<1>4. j \in 0 .. PageSize - 1 /\ j < i
  BY <1>1
<1> HIDE DEF c
<1>5. /\ \/ r + i < PageSize /\ c(i) = r + i
         \/ r + i >= PageSize /\ c(i) = r + i - PageSize
      /\ \/ r + j < PageSize /\ c(j) = r + j
         \/ r + j >= PageSize /\ c(j) = r + j - PageSize
  BY <1>3, <1>4
<1>6. c(i) \in Int /\ c(j) \in Int /\ c(i) # c(j)
  BY <1>1, <1>4, <1>5
<1>7. (a - r) + c(j) # (a - r) + c(i)
  <2> DEFINE x == c(i)
             y == c(j)
  <2>1. x \in Int /\ y \in Int /\ x # y /\ a - r \in Int
    BY <1>1, <1>6
  <2> HIDE DEF x, y
  <2>2. (a - r) + y # (a - r) + x
    BY <2>1
  <2> QED
    BY <2>2 DEF x, y
<1> QED
  BY <1>2, <1>7

(* The chip's counter runs over the end of the memory.                     *)
LEMMA NextInMemory ==
  ASSUME NEW a \in Nat
  PROVE  ((a % MemSize) + 1) % MemSize = (a + 1) % MemSize
  BY Sizes, NextRest

-----------------------------------------------------------------------------
(***************************************************************************)
(* How far a transaction has come.                                         *)
(***************************************************************************)

(* A page write that has sent the address, and a read that is addressed.   *)
Collecting == stage = "transfer" /\ op = "write" /\ pos >= 4
Fetching   == stage = "transfer" /\ op = "read" /\ pos >= 6

(* A call in progress has returned nothing; a page write fits a page.      *)
Returning == stage # "idle" => ret = "none"
Fits      == op = "write" => number \in 1 .. PageSize

(* After its START the chip has no bytes of an earlier page write, and     *)
(* once it has answered it is not in its write cycle.                      *)
Forgotten == pos >= 1 /\ ~Collecting => latch = NoLatch
Answering == pos >= 2 => ~programming

(* Its counter takes the address in two halves.                            *)
Pointed == /\ pos = 3 => pointer \div Uint8 = Target \div Uint8
           /\ Reading /\ pos \in 4 .. 5 => pointer = Target

(* The bytes it has for a page write are the first ones of the buffer.     *)
Collected ==
  Collecting =>
    /\ pointer = PageAddress(addr, pos - 4)
    /\ \A j \in 0 .. pos - 5 : latch[PageAddress(addr, j)] = data[j]
    /\ \A a \in Addr :
         (\A j \in 0 .. pos - 5 : PageAddress(addr, j) # a) => latch[a] = NoValue

(* The first bytes of the buffer are those it has given.                   *)
Fetched ==
  Fetching =>
    /\ pointer = (addr + (pos - 6)) % MemSize
    /\ \A j \in 0 .. pos - 7 : data[j] = eeprom[(addr + j) % MemSize]

Progress == /\ Returning /\ Fits /\ Forgotten /\ Answering
            /\ Pointed /\ Collected /\ Fetched

LEMMA Place ==
  ASSUME TypeOK
  PROVE  /\ Length \in Nat \ {0} /\ pos \in Nat
         /\ Reading => /\ Len(Transaction) = Length + 7 /\ pos <= Length + 6
                       /\ Operation = ReadOperation(Length, pos)
         /\ ~Reading => /\ Len(Transaction) = Length + 5 /\ pos <= Length + 4
                        /\ Operation = WriteOperation(Length, pos)
<1>1. Length \in 1 .. Uint8 /\ Uint8 \in Nat \ {0}
  BY Sizes DEF TypeOK, Length
<1>2. pos \in 0 .. Len(Transaction) - 1
  BY DEF TypeOK
<1>3. CASE Reading
  <2>1. Len(Transaction) = Length + 7
    BY <1>1, <1>3, ReadTransaction
  <2>2. pos \in 0 .. Length + 6
    BY <1>1, <1>2, <2>1
  <2>3. Operation = ReadOperation(Length, pos)
    BY <1>1, <1>3, <2>2, ReadTransaction
  <2> QED
    BY <1>1, <1>3, <2>1, <2>2, <2>3
<1>4. CASE ~Reading
  <2>1. Len(Transaction) = Length + 5
    BY <1>1, <1>4, WriteTransaction
  <2>2. pos \in 0 .. Length + 4
    BY <1>1, <1>2, <2>1
  <2>3. Operation = WriteOperation(Length, pos)
    BY <1>1, <1>4, <2>2, WriteTransaction
  <2> QED
    BY <1>1, <1>4, <2>1, <2>2, <2>3
<1> QED
  BY <1>3, <1>4

(* The operation at each place.                                            *)
LEMMA OperationAt ==
  ASSUME TypeOK
  PROVE  /\ pos = 0 => Operation = "START"
         /\ pos = 1 => Operation = "SLA_W"
         /\ pos = 2 => Operation = "HI"
         /\ pos = 3 => Operation = "LO"
         /\ Reading /\ pos = 4 => Operation = "START"
         /\ Reading /\ pos = 5 => Operation = "SLA_R"
         /\ Reading /\ pos \in 6 .. Length + 5
              => Operation \in {"READ_ACK", "READ_NACK"}
         /\ ~Reading /\ pos \in 4 .. Length + 3 => Operation = "DATA"
         /\ Operation = "STOP" <=> ~(pos + 1 < Len(Transaction))
<1>1. Length \in Nat \ {0} /\ pos \in Nat
  BY Place
<1>2. CASE Reading
  <2>1. /\ Len(Transaction) = Length + 7 /\ pos <= Length + 6
        /\ Operation = ReadOperation(Length, pos)
    BY <1>2, Place
  <2> QED
    BY <1>1, <1>2, <2>1 DEF ReadOperation
<1>3. CASE ~Reading
  <2>1. /\ Len(Transaction) = Length + 5 /\ pos <= Length + 4
        /\ Operation = WriteOperation(Length, pos)
    BY <1>3, Place
  <2> QED
    BY <1>1, <1>3, <2>1 DEF WriteOperation
<1> QED
  BY <1>2, <1>3

(* What each operation does to the chip.                                   *)
LEMMA ChipEffect ==
  ASSUME ChipSees
  PROVE  /\ Operation = "START"
              => latch' = NoLatch /\ UNCHANGED <<pointer, programming, eeprom>>
         /\ Operation \in {"SLA_W", "SLA_R"}
              => UNCHANGED <<pointer, latch, programming, eeprom>>
         /\ Operation = "HI"
              => /\ pointer' = ((Target \div Uint8) * Uint8) + (pointer % Uint8)
                 /\ UNCHANGED <<latch, programming, eeprom>>
         /\ Operation = "LO"
              => /\ pointer' = (pointer \div Uint8) * Uint8 + (Target % Uint8)
                 /\ UNCHANGED <<latch, programming, eeprom>>
         /\ Operation = "DATA"
              => /\ latch' = [latch EXCEPT ![pointer] = data[DataIndex]]
                 /\ pointer' = NextInPage(pointer)
                 /\ UNCHANGED <<programming, eeprom>>
         /\ Operation \in {"READ_ACK", "READ_NACK"}
              => /\ pointer' = (pointer + 1) % MemSize
                 /\ UNCHANGED <<latch, programming, eeprom>>
         /\ Operation = "STOP"
              => /\ eeprom' = [a \in Addr |->
                       IF latch[a] = NoValue THEN eeprom[a] ELSE latch[a]]
                 /\ programming' = (programming \/ latch # NoLatch)
         /\ Operation # "STOP" => UNCHANGED <<programming, eeprom>>
<1>1. /\ AddressByte("HI") = Target \div Uint8
      /\ AddressByte("LO") = Target % Uint8
  BY DEF AddressByte
<1>2. CASE ChipStart
  BY <1>2 DEF ChipStart
<1>3. CASE ChipAddressed
  BY <1>3 DEF ChipAddressed
<1>4. CASE ChipPointer
  BY <1>1, <1>4 DEF ChipPointer
<1>5. CASE ChipTakesByte
  BY <1>5 DEF ChipTakesByte
<1>6. CASE ChipGivesByte
  BY <1>6 DEF ChipGivesByte
<1>7. CASE ChipStop
  <2>1. /\ Operation = "STOP"
        /\ eeprom' = [a \in Addr |->
             IF latch[a] = NoValue THEN eeprom[a] ELSE latch[a]]
        /\ programming' = (programming \/ latch # NoLatch)
    BY <1>7 DEF ChipStop
  <2> QED
    BY <2>1
<1> QED
  BY <1>2, <1>3, <1>4, <1>5, <1>6, <1>7 DEF ChipSees

-----------------------------------------------------------------------------
(***************************************************************************)
(* One operation more.                                                     *)
(***************************************************************************)

(* What TwiOk leaves alone when the transaction goes on.                   *)
LEMMA GoesOn ==
  ASSUME TypeOK, TwiOk, pos + 1 < Len(Transaction)
  PROVE  /\ pos' = pos + 1 /\ ChipSees /\ Acknowledged
         /\ stage' = stage /\ ret' = ret /\ op' = op /\ addr' = addr
         /\ number' = number
         /\ Reading' = Reading /\ Target' = Target
         /\ Operation # "STOP"
<1>1. pos' = pos + 1 /\ stage' = stage /\ ret' = ret
  BY DEF TwiOk, Continue
<1>2. Operation # "STOP"
  BY OperationAt
<1> QED
  BY <1>1, <1>2 DEF TwiOk, Reading, Target

LEMMA ForgottenKept ==
  ASSUME TypeOK, Progress, TwiOk, pos + 1 < Len(Transaction)
  PROVE  Forgotten'
<1> SUFFICES ASSUME ~Collecting' PROVE latch' = NoLatch
  BY DEF Forgotten
<1>1. pos' = pos + 1 /\ stage' = stage /\ op' = op /\ pos \in Nat
  BY GoesOn, Place
<1>2. ~Collecting /\ ~(stage = "transfer" /\ op = "write" /\ pos >= 3)
  BY <1>1 DEF Collecting
<1>3. CASE pos = 0
  BY <1>3, GoesOn, OperationAt, ChipEffect
<1>4. CASE pos # 0
  <2>1. latch = NoLatch
    BY <1>1, <1>2, <1>4 DEF Progress, Forgotten
  <2>2. Operation # "DATA"
    <3>1. CASE pos < 4
      BY <1>1, <1>4, <3>1, OperationAt
    <3>2. CASE Reading
      BY <3>2, Place DEF ReadOperation
    <3>3. CASE pos >= 4 /\ ~Reading
      <4>1. stage = "transfer" /\ op = "write"
        BY <3>3 DEF TypeOK, Reading, TwiOk
      <4> QED
        BY <1>1, <1>2, <3>3, <4>1
    <3> QED
      BY <1>1, <3>1, <3>2, <3>3
  <2>3. Operation # "STOP" /\ ChipSees
    BY GoesOn
  <2>4. latch' = latch \/ latch' = NoLatch
    BY <2>2, <2>3 DEF ChipSees, ChipStart, ChipAddressed, ChipPointer,
                      ChipTakesByte, ChipGivesByte, ChipStop
  <2> QED
    BY <2>1, <2>4
<1> QED
  BY <1>3, <1>4

LEMMA AnsweringKept ==
  ASSUME TypeOK, Progress, TwiOk, pos + 1 < Len(Transaction)
  PROVE  Answering'
<1> SUFFICES ASSUME pos' >= 2 PROVE ~programming'
  BY DEF Answering
<1>1. pos' = pos + 1 /\ pos \in Nat /\ programming' = programming
  BY GoesOn, Place, ChipEffect
<1>2. CASE pos = 1
  BY <1>1, <1>2, GoesOn, OperationAt DEF Acknowledged
<1>3. CASE pos >= 2
  BY <1>1, <1>3 DEF Progress, Answering
<1> QED
  BY <1>1, <1>2, <1>3

(* LO completes the address.                                               *)
LEMMA AddressComplete ==
  ASSUME TypeOK, Progress, TwiOk, pos = 3
  PROVE  pointer' = Target
<1>1. Target \in Addr
  BY Halved, Targeted
<1>2. pos + 1 < Len(Transaction)
  BY Place
<1>3. pointer' = (pointer \div Uint8) * Uint8 + (Target % Uint8)
  BY <1>2, GoesOn, OperationAt, ChipEffect
<1>4. pointer \div Uint8 = Target \div Uint8
  BY DEF Progress, Pointed
<1>5. Target = (Target \div Uint8) * Uint8 + (Target % Uint8)
  <2>1. Target \in Nat /\ Uint8 \in Nat \ {0}
    BY <1>1, Sizes DEF Addr
  <2> QED
    BY <2>1, Division
<1> QED
  BY <1>3, <1>4, <1>5

LEMMA PointedKept ==
  ASSUME TypeOK, Progress, TwiOk, pos + 1 < Len(Transaction)
  PROVE  Pointed'
<1>1. pos' = pos + 1 /\ pos \in Nat /\ Reading' = Reading /\ Target' = Target
  BY GoesOn, Place
<1>2. ASSUME pos' = 3
      PROVE  pointer' \div Uint8 = Target' \div Uint8
  <2>1. pointer' = ((Target \div Uint8) * Uint8) + (pointer % Uint8)
    BY <1>1, <1>2, GoesOn, OperationAt, ChipEffect
  <2>2. /\ Target \div Uint8 \in 0 .. Uint8 - 1
        /\ pointer % Uint8 \in 0 .. Uint8 - 1 /\ Uint8 \in Nat \ {0}
    <3>1. Target \in Addr /\ pointer \in Addr
      BY Halved, Targeted DEF ChipTypeOK
    <3> QED
      BY <3>1, Halves, Sizes
  <2> DEFINE h == Target \div Uint8
             l == pointer % Uint8
  <2>3. h \in Nat /\ l \in 0 .. Uint8 - 1
    BY <2>2
  <2> HIDE DEF h, l
  <2>4. (h * Uint8 + l) \div Uint8 = h
    BY <2>2, <2>3, QuotientAndRest
  <2> QED
    BY <1>1, <2>1, <2>4 DEF h, l
<1>3. ASSUME Reading', pos' \in 4 .. 5
      PROVE  pointer' = Target'
  <2>1. CASE pos = 3
    BY <1>1, <2>1, AddressComplete
  <2>2. CASE pos = 4
    <3>1. pointer' = pointer
      BY <1>1, <1>3, <2>2, GoesOn, OperationAt, ChipEffect
    <3>2. pointer = Target
      BY <1>1, <1>3, <2>2 DEF Progress, Pointed
    <3> QED
      BY <1>1, <3>1, <3>2
  <2> QED
    BY <1>1, <1>3, <2>1, <2>2
<1> QED
  BY <1>2, <1>3 DEF Pointed

LEMMA CollectedKept ==
  ASSUME TypeOK, Progress, TwiOk, pos + 1 < Len(Transaction)
  PROVE  Collected'
<1> SUFFICES ASSUME Collecting' PROVE Collected'
  BY DEF Collected
<1>1. /\ pos' = pos + 1 /\ pos \in Nat /\ stage' = stage /\ op' = op
      /\ addr' = addr /\ number' = number
  BY GoesOn, Place
<1>2. stage = "transfer" /\ op = "write" /\ pos >= 3 /\ ~Reading
  BY <1>1 DEF Collecting, Reading
<1>3. addr \in Addr /\ number \in 1 .. PageSize /\ PageSize \in Nat \ {0}
  BY <1>2, Sizes DEF TypeOK, Progress, Fits
<1>4. data' = data
  <2>1. Operation \notin {"READ_ACK", "READ_NACK"}
    BY <1>2, Place DEF WriteOperation
  <2> QED
    BY <2>1 DEF TwiOk, Store
<1>5. SUFFICES
        /\ pointer' = PageAddress(addr, pos - 3)
        /\ \A j \in 0 .. pos - 4 : latch'[PageAddress(addr, j)] = data[j]
        /\ \A a \in Addr :
             (\A j \in 0 .. pos - 4 : PageAddress(addr, j) # a)
               => latch'[a] = NoValue
  <2>1. pos' - 4 = pos - 3 /\ pos' - 5 = pos - 4
    BY <1>1
  <2> QED
    BY <1>1, <1>4, <1>5, <2>1 DEF Collected, PageAddress, Promise!PageAddress
<1>6. CASE pos = 3
  <2>1. pointer' = addr
    BY <1>2, <1>6, AddressComplete DEF Target
  <2>2. PageAddress(addr, 0) = addr
    BY <1>3, PageAddresses
  <2>3. latch' = NoLatch
    <3>1. latch' = latch
      BY <1>6, GoesOn, OperationAt, ChipEffect
    <3>2. latch = NoLatch
      BY <1>6 DEF Progress, Forgotten, Collecting
    <3> QED
      BY <3>1, <3>2
  <2>4. pos - 3 = 0 /\ 0 .. pos - 4 = {}
    BY <1>6
  <2> QED
    BY <2>1, <2>2, <2>3, <2>4 DEF NoLatch
<1>7. CASE pos >= 4
  <2> DEFINE i == pos - 4
             p == PageAddress(addr, i)
  <2>1. i \in 0 .. number - 1 /\ Operation = "DATA" /\ DataIndex = i
    <3>1. Length = number
      BY <1>2 DEF Length
    <3>2. pos \in 4 .. Length + 3
      BY <1>1, <1>2, <1>7, Place
    <3> QED
      BY <1>2, <3>1, <3>2, OperationAt, Place DEF DataIndex
  <2>2. i \in 0 .. PageSize - 1 /\ i \in Nat
    BY <1>3, <2>1
  <2>3. /\ pointer = p
        /\ \A j \in 0 .. i - 1 : latch[PageAddress(addr, j)] = data[j]
        /\ \A a \in Addr :
             (\A j \in 0 .. i - 1 : PageAddress(addr, j) # a)
               => latch[a] = NoValue
    <3>1. Collecting /\ i - 1 = pos - 5
      BY <1>1, <1>2, <1>7 DEF Collecting
    <3> QED
      BY <3>1 DEF Progress, Collected
  <2>4. latch' = [latch EXCEPT ![p] = data[i]] /\ pointer' = NextInPage(p)
    BY <2>1, <2>3, GoesOn, ChipEffect
  <2>5. p \in Addr /\ NextInPage(p) = PageAddress(addr, i + 1)
    BY <1>3, <2>2, PageAddresses
  <2>6. \A j \in 0 .. i - 1 :
          PageAddress(addr, j) # p /\ PageAddress(addr, j) \in Addr
    BY <1>3, <2>2, PageAddresses, PageAddressesDiffer
  <2>7. DOMAIN latch = Addr
    BY DEF TypeOK
  <2>8. pos - 3 = i + 1 /\ pos - 4 = i
    BY <1>1, <2>2
  <2> HIDE DEF i, p
  <2>9. latch'[p] = data[i] /\ \A a \in Addr : a # p => latch'[a] = latch[a]
    BY <2>4, <2>5, <2>7
  <2>10. ASSUME NEW j \in 0 .. i
         PROVE  latch'[PageAddress(addr, j)] = data[j]
    <3>1. CASE j = i
      BY <2>9, <3>1 DEF p
    <3>2. CASE j \in 0 .. i - 1
      BY <2>3, <2>6, <2>9, <3>2
    <3> QED
      BY <2>2, <3>1, <3>2
  <2>11. ASSUME NEW a \in Addr, \A j \in 0 .. i : PageAddress(addr, j) # a
         PROVE  latch'[a] = NoValue
    <3>1. a # p
      BY <2>2, <2>11 DEF p
    <3>2. \A j \in 0 .. i - 1 : PageAddress(addr, j) # a
      BY <2>2, <2>11
    <3> QED
      BY <2>3, <2>9, <3>1, <3>2
  <2> QED
    BY <2>4, <2>5, <2>8, <2>10, <2>11
<1> QED
  BY <1>1, <1>2, <1>6, <1>7

LEMMA FetchedKept ==
  ASSUME TypeOK, Progress, TwiOk, pos + 1 < Len(Transaction)
  PROVE  Fetched'
<1> SUFFICES ASSUME Fetching' PROVE Fetched'
  BY DEF Fetched
<1>1. /\ pos' = pos + 1 /\ pos \in Nat /\ stage' = stage /\ op' = op
      /\ addr' = addr /\ number' = number /\ ChipSees
  BY GoesOn, Place
<1>2. stage = "transfer" /\ op = "read" /\ pos >= 5 /\ Reading
  BY <1>1 DEF Fetching, Reading
<1>3. addr \in Addr /\ addr \in Nat /\ MemSize \in Nat \ {0}
  BY Sizes DEF TypeOK, Addr
<1>4. eeprom' = eeprom
  BY GoesOn, ChipEffect
<1>5. SUFFICES
        /\ pointer' = (addr + (pos - 5)) % MemSize
        /\ \A j \in 0 .. pos - 6 : data'[j] = eeprom[(addr + j) % MemSize]
  <2>1. pos' - 6 = pos - 5 /\ pos' - 7 = pos - 6
    BY <1>1
  <2> QED
    BY <1>1, <1>4, <1>5, <2>1 DEF Fetched
<1>6. CASE pos = 5
  <2>1. pointer' = pointer
    BY <1>1, <1>2, <1>6, OperationAt, ChipEffect
  <2>2. pointer = addr
    BY <1>2, <1>6 DEF Progress, Pointed, Target
  <2>3. addr % MemSize = addr
    BY <1>3, RestOfSmall DEF Addr
  <2>4. addr + (pos - 5) = addr /\ 0 .. pos - 6 = {}
    BY <1>3, <1>6
  <2> QED
    BY <2>1, <2>2, <2>3, <2>4
<1>7. CASE pos >= 6
  <2> DEFINE i == pos - 6
             m == addr + i
  <2>1. /\ i \in Nat /\ DataIndex = i
        /\ Operation \in {"READ_ACK", "READ_NACK"}
    <3>1. pos \in 6 .. Length + 5
      BY <1>1, <1>2, <1>7, Place
    <3> QED
      BY <1>2, <3>1, OperationAt, Place DEF DataIndex
  <2>2. DataIndex \in Index
    BY <2>1, Positions
  <2>3. /\ pointer = m % MemSize
        /\ \A j \in 0 .. i - 1 : data[j] = eeprom[(addr + j) % MemSize]
    <3>1. Fetching /\ i - 1 = pos - 7
      BY <1>1, <1>2, <1>7 DEF Fetching
    <3> QED
      BY <3>1 DEF Progress, Fetched
  <2>4. /\ data' = [data EXCEPT ![i] = eeprom[pointer]]
        /\ pointer' = (pointer + 1) % MemSize
    BY <1>1, <1>2, <2>1, ChipEffect DEF TwiOk, Store
  <2>5. m \in Nat /\ m + 1 = addr + (pos - 5) /\ pos - 6 = i
    BY <1>1, <1>3, <2>1
  <2>6. i \in Index /\ DOMAIN data = Index
    BY <2>1, <2>2 DEF TypeOK, Buffer
  <2>7. (m + 1) % MemSize = ((m % MemSize) + 1) % MemSize
    <3> HIDE DEF m
    <3> QED
      BY <2>5, NextInMemory
  <2>8. pointer' = (addr + (pos - 5)) % MemSize
    <3> HIDE DEF m
    <3> QED
      BY <2>3, <2>4, <2>5, <2>7
  <2>9. data'[i] = eeprom[(addr + i) % MemSize]
    BY <2>3, <2>4, <2>6
  <2> HIDE DEF i
  <2>10. ASSUME NEW j \in 0 .. i
         PROVE  data'[j] = eeprom[(addr + j) % MemSize]
    <3>1. CASE j = i
      BY <2>9, <3>1
    <3>2. CASE j \in 0 .. i - 1
      <4>1. data'[j] = data[j]
        BY <2>1, <2>4, <3>2
      <4> QED
        BY <2>3, <3>2, <4>1
    <3> QED
      BY <2>1, <3>1, <3>2
  <2> QED
    BY <2>5, <2>8, <2>10
<1> QED
  BY <1>1, <1>2, <1>6, <1>7

-----------------------------------------------------------------------------
(***************************************************************************)
(* Progress is an invariant.                                               *)
(***************************************************************************)

(* A transaction that has not begun has no progress to show.               *)
LEMMA AtTheStart ==
  ASSUME pos = 0, Returning, Fits
  PROVE  Progress
<1>1. ~Collecting /\ ~Fetching
  BY DEF Collecting, Fetching
<1> QED
  BY <1>1 DEF Progress, Forgotten, Answering, Pointed, Collected, Fetched

LEMMA BackToStart ==
  ASSUME pos' = 0, Returning', Fits'
  PROVE  Progress'
<1>1. ~Collecting' /\ ~Fetching'
  BY DEF Collecting, Fetching
<1> QED
  BY <1>1 DEF Progress, Forgotten, Answering, Pointed, Collected, Fetched

LEMMA AbortKeepsProgress ==
  ASSUME Progress, Abort
  PROVE  Progress'
<1>1. pos' = 0
  BY DEF Abort
<1>2. Returning' /\ Fits'
  BY DEF Abort, Progress, Returning, Fits
<1> QED
  BY <1>1, <1>2, BackToStart

LEMMA InitProgress == Init => Progress
<1> SUFFICES ASSUME Init PROVE Progress
  OBVIOUS
<1>1. pos = 0 /\ Returning /\ Fits
  BY DEF Init, Returning, Fits
<1> QED
  BY <1>1, AtTheStart

LEMMA NextProgress == TypeOK /\ Progress /\ [Next]_vars => Progress'
<1> SUFFICES ASSUME TypeOK, Progress, [Next]_vars PROVE Progress'
  OBVIOUS
<1>1. CASE ext_eeprom_read_block
  <2>1. pos' = 0 /\ Returning' /\ Fits'
    BY <1>1 DEF ext_eeprom_read_block, Begin, Returning, Fits
  <2> QED
    BY <2>1, BackToStart
<1>2. CASE ext_eeprom_write_page
  <2>1. PICK w \in Writes : Begin("write", w[1], w[2])
    BY <1>2 DEF ext_eeprom_write_page
  <2>2. w[2] \in 1 .. PageSize
    BY <2>1, BusAssumption
  <2>3. pos' = 0 /\ Returning' /\ Fits'
    BY <2>1, <2>2 DEF Begin, Returning, Fits
  <2> QED
    BY <2>3, BackToStart
<1>3. CASE TwiOk
  <2>1. op' = op /\ number' = number
    BY <1>3 DEF TwiOk
  <2>2. Fits'
    BY <2>1 DEF Progress, Fits
  <2>3. CASE pos + 1 < Len(Transaction)
    <3>1. Returning'
      BY <1>3, <2>3, GoesOn DEF Progress, Returning
    <3> QED
      BY <1>3, <2>2, <2>3, <3>1, ForgottenKept, AnsweringKept, PointedKept,
         CollectedKept, FetchedKept DEF Progress
  <2>4. CASE ~(pos + 1 < Len(Transaction))
    <3>1. pos' = 0 /\ Returning'
      BY <1>3, <2>4 DEF TwiOk, Continue, Progress, Returning
    <3> QED
      BY <2>2, <3>1, BackToStart
  <2> QED
    BY <2>3, <2>4
<1>4. CASE TwiNack
  BY <1>4, AbortKeepsProgress DEF TwiNack
<1>5. CASE TwiFails
  BY <1>5, AbortKeepsProgress DEF TwiFails
<1>6. CASE WriteCycleEnds
  BY <1>6 DEF WriteCycleEnds, call, Progress, Returning, Fits, Forgotten,
              Answering, Pointed, Collected, Fetched, Collecting, Fetching,
              Reading, Target, PageAddress, Promise!PageAddress
<1>7. CASE WatchdogReset
  <2>1. pos' = 0 /\ Returning' /\ Fits'
    BY <1>7 DEF WatchdogReset, Returning, Fits
  <2> QED
    BY <2>1, BackToStart
<1>8. CASE UNCHANGED vars
  BY <1>8 DEF vars, call, chip, Progress, Returning, Fits, Forgotten,
              Answering, Pointed, Collected, Fetched, Collecting, Fetching,
              Reading, Target, PageAddress, Promise!PageAddress
<1> QED
  BY <1>1, <1>2, <1>3, <1>4, <1>5, <1>6, <1>7, <1>8 DEF Next

-----------------------------------------------------------------------------
(***************************************************************************)
(* The refinement to EepromPages.                                          *)
(***************************************************************************)

(* The call and the reply the caller sees, as Promise names them.          *)
SeenCall == IF stage = "idle" THEN NoCall
            ELSE CallOf(op, addr, number, IF op = "write" THEN data ELSE <<>>)

SeenReply == [ret   |-> ret,
              bytes |-> IF stage = "idle" /\ ret = "TWI_OK" /\ op = "read"
                          THEN [i \in 0 .. number - 1 |-> data[i]]
                          ELSE <<>>]

LEMMA InProgress ==
  ASSUME TypeOK, stage # "idle"
  PROVE  /\ SeenCall # NoCall /\ SeenCall.op = op
         /\ SeenCall.addr = addr /\ SeenCall.number = number
         /\ op = "write" => SeenCall.bytes = data
<1>1. op \in {"read", "write"}
  BY DEF TypeOK
<1>2. SeenCall = CallOf(op, addr, number, IF op = "write" THEN data ELSE <<>>)
  BY DEF SeenCall
<1>3. /\ SeenCall.op = op /\ SeenCall.addr = addr /\ SeenCall.number = number
      /\ op = "write" => SeenCall.bytes = data
  BY <1>2 DEF CallOf
<1>4. NoCall.op = "none"
  BY DEF NoCall, CallOf
<1> QED
  BY <1>1, <1>3, <1>4

LEMMA Idle ==
  ASSUME stage' = "idle", ret' \in {"none", "TWI_ERR"}
  PROVE  SeenCall' = NoCall /\ SeenReply' = Promise!Returned(ret')
  BY DEF SeenCall, SeenReply, Promise!Returned, NoCall, CallOf

(* The call is under way and goes on.                                      *)
LEMMA Stutters ==
  ASSUME stage # "idle", stage' # "idle", ret' = ret, op' = op, addr' = addr,
         number' = number, op = "write" => data' = data,
         UNCHANGED <<eeprom, programming>>
  PROVE  UNCHANGED Promise!vars
<1>1. SeenCall' = SeenCall
  BY DEF SeenCall, CallOf
<1>2. SeenReply' = SeenReply
  BY DEF SeenReply
<1> QED
  BY <1>1, <1>2 DEF Promise!vars, SeenCall, SeenReply

LEMMA Asks ==
  ASSUME NEW o \in {"read", "write"}, NEW a, NEW n, Begin(o, a, n),
         CallOf(o, a, n, IF o = "write" THEN data' ELSE <<>>) \in AllCalls
  PROVE  Promise!Ask
<1>1. SeenCall = NoCall
  BY DEF Begin, SeenCall
<1>2. SeenCall' \in AllCalls
  BY DEF Begin, SeenCall
<1>3. SeenReply' = Promise!Returned("none")
  BY DEF Begin, SeenReply, Promise!Returned
<1>4. UNCHANGED <<eeprom, programming>>
  BY DEF Begin, chip
<1> QED
  BY <1>1, <1>2, <1>3, <1>4 DEF Promise!Ask, SeenCall, SeenReply

LEMMA AbortFails ==
  ASSUME TypeOK, stage # "idle", Abort, UNCHANGED <<eeprom, programming>>
  PROVE  Promise!Fail \/ UNCHANGED Promise!vars
<1>1. CASE stage = "poll" /\ ~GiveUp
  BY <1>1, Stutters DEF Abort
<1>2. CASE ~(stage = "poll" /\ ~GiveUp)
  <2>1. stage' = "idle" /\ ret' = "TWI_ERR"
    BY <1>2 DEF Abort
  <2>2. SeenCall' = NoCall /\ SeenReply' = Promise!Returned("TWI_ERR")
    BY <2>1, Idle
  <2>3. SeenCall # NoCall
    BY InProgress
  <2>4. Promise!Fail
    BY <2>2, <2>3 DEF Promise!Fail, SeenCall, SeenReply
  <2> QED
    BY <2>4
<1> QED
  BY <1>1, <1>2

(* The STOP of a page write stores its bytes.                              *)
LEMMA Stores ==
  ASSUME TypeOK, Progress, TwiOk, stage = "transfer", op = "write",
         ~(pos + 1 < Len(Transaction))
  PROVE  Promise!WriteDone
<1> DEFINE c == SeenCall
<1>1. c # NoCall /\ c.op = "write" /\ c.addr = addr /\ c.number = number
      /\ c.bytes = data
  BY InProgress
<1>2. Operation = "STOP" /\ ChipSees
  BY OperationAt DEF TwiOk
<1>3. Collecting /\ pos - 5 = number - 1 /\ number \in 1 .. PageSize
      /\ pos >= 2
  <2>1. ~Reading /\ Length = number
    BY DEF Reading, Length
  <2> QED
    BY <2>1, Place DEF Collecting, Progress, Fits
<1>4. ~programming
  BY <1>3 DEF Progress, Answering
<1>5. /\ \A j \in 0 .. number - 1 : latch[PageAddress(addr, j)] = data[j]
      /\ \A a \in Addr :
           (\A j \in 0 .. number - 1 : PageAddress(addr, j) # a)
             => latch[a] = NoValue
  BY <1>3 DEF Progress, Collected
<1>6. \A j \in 0 .. number - 1 : data[j] \in Values /\ data[j] # NoValue
  <2>1. 0 .. number - 1 \subseteq Index
    BY Sizes DEF TypeOK
  <2> QED
    BY <2>1, BusAssumption DEF TypeOK, Buffer
<1>7. addr \in Addr
  BY DEF TypeOK
<1>8. eeprom' = [a \in Addr |->
                   IF latch[a] = NoValue THEN eeprom[a] ELSE latch[a]]
      /\ programming' = (programming \/ latch # NoLatch)
  BY <1>2, ChipEffect
<1>9. programming' = TRUE
  <2>1. PageAddress(addr, 0) = addr /\ 0 \in 0 .. number - 1
    BY <1>3, <1>7, PageAddresses
  <2>2. latch[addr] # NoValue
    BY <1>5, <1>6, <2>1
  <2>3. latch # NoLatch
    BY <1>7, <2>2 DEF NoLatch
  <2> QED
    BY <1>8, <2>3
<1> HIDE DEF c
<1> DEFINE Stored == [a \in Addr |->
             IF \E i \in 0 .. c.number - 1 : Promise!PageAddress(c.addr, i) = a
               THEN c.bytes[CHOOSE i \in 0 .. c.number - 1 :
                              Promise!PageAddress(c.addr, i) = a]
               ELSE eeprom[a]]
<1>10. ASSUME NEW a \in Addr
       PROVE  eeprom'[a] = Stored[a]
  <2>1. CASE \E i \in 0 .. c.number - 1 : Promise!PageAddress(c.addr, i) = a
    <3> DEFINE k == CHOOSE i \in 0 .. c.number - 1 :
                      Promise!PageAddress(c.addr, i) = a
    <3>1. k \in 0 .. c.number - 1 /\ Promise!PageAddress(c.addr, k) = a
      BY <2>1
    <3>2. Stored[a] = c.bytes[k]
      BY <2>1
    <3> HIDE DEF k
    <3>3. k \in 0 .. number - 1 /\ PageAddress(addr, k) = a
      BY <1>1, <3>1 DEF PageAddress
    <3>4. latch[a] = data[k] /\ latch[a] # NoValue
      BY <1>5, <1>6, <3>3
    <3> HIDE DEF Stored
    <3> QED
      BY <1>1, <1>8, <3>2, <3>4
  <2>2. CASE ~\E i \in 0 .. c.number - 1 : Promise!PageAddress(c.addr, i) = a
    <3>1. Stored[a] = eeprom[a]
      BY <2>2
    <3>2. \A j \in 0 .. number - 1 : PageAddress(addr, j) # a
      BY <1>1, <2>2 DEF PageAddress
    <3>3. latch[a] = NoValue
      BY <1>5, <3>2
    <3> HIDE DEF Stored
    <3> QED
      BY <1>8, <3>1, <3>3
  <2> QED
    BY <2>1, <2>2
<1>11. eeprom' = Stored
  <2>1. eeprom' = [a \in Addr |-> eeprom'[a]]
    BY <1>8
  <2> QED
    BY <1>10, <2>1
<1>12. Promise!Addr = Addr
  BY DEF Promise!Addr, Addr
<1>13. stage' = "idle" /\ ret' = "TWI_OK" /\ op' = op
  BY DEF TwiOk, Continue
<1>14. SeenCall' = NoCall /\ SeenReply' = Promise!Returned("TWI_OK")
  BY <1>13 DEF SeenCall, SeenReply, Promise!Returned
<1> QED
  BY <1>1, <1>4, <1>9, <1>11, <1>12, <1>14, Zenon
     DEF Promise!WriteDone, c, Stored, SeenCall, SeenReply

(* That of a read returns what the memory holds.                           *)
LEMMA Fetches ==
  ASSUME TypeOK, Progress, TwiOk, stage = "transfer", op = "read",
         ~(pos + 1 < Len(Transaction))
  PROVE  Promise!ReadDone
<1> DEFINE c == SeenCall
<1>1. c # NoCall /\ c.op = "read" /\ c.addr = addr /\ c.number = number
  BY InProgress
<1>2. Operation = "STOP" /\ ChipSees
  BY OperationAt DEF TwiOk
<1>3. Fetching /\ pos - 7 = number - 1 /\ pos >= 1 /\ pos >= 2 /\ ~Collecting
  <2>1. Reading /\ Length = number
    BY DEF Reading, Length
  <2> QED
    BY <2>1, Place DEF Fetching, Collecting
<1>4. ~programming /\ latch = NoLatch
  BY <1>3 DEF Progress, Answering, Forgotten
<1>5. eeprom' = eeprom
  <2>1. eeprom' = [a \in Addr |->
                     IF latch[a] = NoValue THEN eeprom[a] ELSE latch[a]]
    BY <1>2, ChipEffect
  <2>2. \A a \in Addr : latch[a] = NoValue
    BY <1>4 DEF NoLatch
  <2>3. eeprom = [a \in Addr |-> eeprom[a]]
    BY DEF TypeOK
  <2> QED
    BY <2>1, <2>2, <2>3
<1>6. programming' = programming
  BY <1>2, <1>4, ChipEffect DEF TypeOK
<1>7. /\ stage' = "idle" /\ ret' = "TWI_OK" /\ op' = op
      /\ number' = number /\ data' = data
  BY <1>2 DEF TwiOk, Continue, Store
<1>8. \A j \in 0 .. number - 1 : data[j] = eeprom[(addr + j) % MemSize]
  BY <1>3 DEF Progress, Fetched
<1> HIDE DEF c
<1>9. [i \in 0 .. number - 1 |-> data[i]]
        = [i \in 0 .. c.number - 1 |-> eeprom[(c.addr + i) % MemSize]]
  BY <1>1, <1>8
<1>10. SeenCall' = NoCall
  BY <1>7 DEF SeenCall
<1>11. SeenReply' = [ret |-> "TWI_OK", bytes |-> [i \in 0 .. number - 1 |-> data[i]]]
  BY <1>7 DEF SeenReply
<1>12. SeenReply' = [ret |-> "TWI_OK",
         bytes |-> [i \in 0 .. c.number - 1 |-> eeprom[(c.addr + i) % MemSize]]]
  BY <1>9, <1>11
<1> QED
  BY <1>1, <1>4, <1>5, <1>6, <1>10, <1>12, Zenon
     DEF Promise!ReadDone, c, SeenCall, SeenReply

LEMMA EachStepKeepsPromise ==
  TypeOK /\ Progress /\ [Next]_vars => Promise!Next \/ UNCHANGED Promise!vars
<1> SUFFICES ASSUME TypeOK, Progress, [Next]_vars
             PROVE  Promise!Next \/ UNCHANGED Promise!vars
  OBVIOUS
<1>1. CASE ext_eeprom_read_block
  <2>1. PICK r \in Reads : Begin("read", r[1], r[2])
    BY <1>1 DEF ext_eeprom_read_block
  <2>2. CallOf("read", r[1], r[2], <<>>) \in AllCalls
    BY <2>1 DEF AllCalls
  <2>3. Promise!Ask
    BY <2>1, <2>2, Asks
  <2> QED
    BY <2>3 DEF Promise!Next
<1>2. CASE ext_eeprom_write_page
  <2>1. PICK w \in Writes : Begin("write", w[1], w[2])
    BY <1>2 DEF ext_eeprom_write_page
  <2>2. data' \in Buffer
    BY <1>2 DEF ext_eeprom_write_page
  <2>3. CallOf("write", w[1], w[2], data') \in AllCalls
    BY <2>1, <2>2 DEF AllCalls
  <2>4. Promise!Ask
    BY <2>1, <2>3, Asks
  <2> QED
    BY <2>4 DEF Promise!Next
<1>3. CASE TwiOk
  <2>1. /\ stage \in {"poll", "transfer"} /\ op \in {"read", "write"}
        /\ op' = op /\ addr' = addr /\ number' = number
    BY <1>3 DEF TwiOk, TypeOK
  <2>2. CASE pos + 1 < Len(Transaction)
    <3>1. stage' = stage /\ ret' = ret /\ UNCHANGED <<eeprom, programming>>
      BY <1>3, <2>2, GoesOn, ChipEffect
    <3>2. op = "write" => data' = data
      <4> SUFFICES ASSUME op = "write" PROVE data' = data
        OBVIOUS
      <4>1. stage = "transfer"
              => Operation \notin {"READ_ACK", "READ_NACK"}
        BY Place DEF Reading, WriteOperation
      <4> QED
        BY <1>3, <4>1 DEF TwiOk, Store
    <3>3. UNCHANGED Promise!vars
      BY <2>1, <3>1, <3>2, Stutters
    <3> QED
      BY <3>3
  <2>3. CASE stage = "poll" /\ ~(pos + 1 < Len(Transaction))
    <3>1. Operation = "STOP" /\ ChipSees
      BY <1>3, <2>3, OperationAt DEF TwiOk
    <3>2. stage' = "transfer" /\ ret' = ret /\ data' = data
      BY <1>3, <2>3 DEF TwiOk, Continue, Store
    <3>3. pos >= 1 /\ ~Collecting
      <4>1. Reading
        BY <2>3 DEF Reading
      <4> QED
        BY <2>3, <4>1, Place DEF Collecting
    <3>4. latch = NoLatch
      BY <3>3 DEF Progress, Forgotten
    <3>5. eeprom' = eeprom
      <4>1. eeprom' = [a \in Addr |->
                         IF latch[a] = NoValue THEN eeprom[a] ELSE latch[a]]
        BY <3>1, ChipEffect
      <4>2. \A a \in Addr : latch[a] = NoValue
        BY <3>4 DEF NoLatch
      <4>3. eeprom = [a \in Addr |-> eeprom[a]]
        BY DEF TypeOK
      <4> QED
        BY <4>1, <4>2, <4>3
    <3>6. programming' = programming
      BY <3>1, <3>4, ChipEffect DEF TypeOK
    <3>7. UNCHANGED Promise!vars
      BY <2>1, <2>3, <3>2, <3>5, <3>6, Stutters
    <3> QED
      BY <3>7
  <2>4. CASE stage = "transfer" /\ op = "write" /\ ~(pos + 1 < Len(Transaction))
    BY <1>3, <2>4, Stores DEF Promise!Next
  <2>5. CASE stage = "transfer" /\ op = "read" /\ ~(pos + 1 < Len(Transaction))
    BY <1>3, <2>5, Fetches DEF Promise!Next
  <2> QED
    BY <2>1, <2>2, <2>3, <2>4, <2>5
<1>4. CASE TwiNack
  <2>1. Promise!Fail \/ UNCHANGED Promise!vars
    BY <1>4, AbortFails DEF TwiNack
  <2> QED
    BY <2>1 DEF Promise!Next
<1>5. CASE TwiFails
  <2>1. UNCHANGED <<eeprom, programming>>
    BY <1>5, ChipEffect DEF TwiFails, chip
  <2>2. Promise!Fail \/ UNCHANGED Promise!vars
    BY <1>5, <2>1, AbortFails DEF TwiFails
  <2> QED
    BY <2>2 DEF Promise!Next
<1>6. CASE WriteCycleEnds
  <2>1. programming /\ programming' = FALSE /\ eeprom' = eeprom
    BY <1>6 DEF WriteCycleEnds
  <2>2. SeenCall' = SeenCall /\ SeenReply' = SeenReply
    BY <1>6 DEF WriteCycleEnds, call, SeenCall, SeenReply
  <2>3. Promise!WriteCycleEnds
    BY <2>1, <2>2 DEF Promise!WriteCycleEnds, SeenCall, SeenReply
  <2> QED
    BY <2>3 DEF Promise!Next
<1>7. CASE WatchdogReset
  <2>1. stage' = "idle" /\ ret' = "none" /\ UNCHANGED <<eeprom, programming>>
    BY <1>7 DEF WatchdogReset, chip
  <2>2. SeenCall' = NoCall /\ SeenReply' = Promise!Returned("none")
    BY <2>1, Idle
  <2>3. Promise!Reset
    BY <2>1, <2>2 DEF Promise!Reset, SeenCall, SeenReply
  <2> QED
    BY <2>3 DEF Promise!Next
<1>8. CASE UNCHANGED vars
  <2>1. SeenCall' = SeenCall /\ SeenReply' = SeenReply
        /\ UNCHANGED <<eeprom, programming>>
    BY <1>8 DEF vars, call, chip, SeenCall, SeenReply
  <2>2. UNCHANGED Promise!vars
    BY <2>1 DEF Promise!vars, SeenCall, SeenReply
  <2> QED
    BY <2>2
<1> QED
  BY <1>1, <1>2, <1>3, <1>4, <1>5, <1>6, <1>7, <1>8 DEF Next

(* A transfer is all or nothing (ext_eeprom.c:111-128, 190-210): a call     *)
(* that returns TWI_OK has moved exactly its bytes, one that returns       *)
(* TWI_ERR has left the EEPROM as it was, whatever fails, and whenever the *)
(* processor is reset.                                                     *)
THEOREM TransferImplemented == Spec => KeepsPromise
<1>1. Init => Promise!Init
  <2> SUFFICES ASSUME Init PROVE Promise!Init
    OBVIOUS
  <2>1. SeenCall = NoCall /\ SeenReply = Promise!Returned("none")
    BY DEF Init, SeenCall, SeenReply, Promise!Returned
  <2>2. eeprom \in [Addr -> Values] /\ programming = FALSE
    BY DEF Init
  <2>3. Promise!Addr = Addr
    BY DEF Promise!Addr, Addr
  <2> QED
    BY <2>1, <2>2, <2>3 DEF Promise!Init, SeenCall, SeenReply
<1>2. Init => TypeOK /\ Progress
  BY InitTypeOK, InitProgress
<1>3. TypeOK /\ Progress /\ [Next]_vars => TypeOK' /\ Progress'
  BY NextTypeOK, NextProgress
<1>4. TypeOK /\ Progress /\ [Next]_vars => [Promise!Next]_(Promise!vars)
  BY EachStepKeepsPromise
<1> QED
  BY <1>1, <1>2, <1>3, <1>4, PTL DEF Spec, KeepsPromise, Promise!Spec
-----------------------------------------------------------------------------
(***************************************************************************)
(* The operations of a call are bounded.                                   *)
(***************************************************************************)

(* Of a poll there are at least those of the polls to come.                *)
LEMMA PollLeft ==
  ASSUME TypeOK, stage = "poll"
  PROVE  /\ pos \in 0 .. 7 /\ Len(Transaction) = 8
         /\ number \in Nat \ {0} /\ MaxPolls - polls \in Nat
         /\ Remaining = (MaxPolls - polls) * 8 + 15 + number - pos
<1>1. Reading /\ Length = 1
  BY DEF Reading, Length
<1>2. pos \in 0 .. 7 /\ Len(Transaction) = 8
  BY <1>1, Place
<1>3. /\ MaxPolls \in Nat /\ polls \in 0 .. MaxPolls
      /\ number \in Nat \ {0}
  BY Sizes, BusAssumption DEF TypeOK
<1>4. MaxPolls - polls \in Nat
  BY <1>3
<1>5. (MaxPolls - polls + 1) * 8 = (MaxPolls - polls) * 8 + 8
  BY <1>4
<1> QED
  BY <1>2, <1>3, <1>4, <1>5 DEF Remaining

TransferInside ==
  TypeOK /\ stage = "transfer"
    => /\ Len(Transaction) \in 1 .. number + 7 /\ pos \in Nat
       /\ Remaining = Len(Transaction) - pos

LEMMA TransferLeft == TransferInside
<1> SUFFICES ASSUME TypeOK, stage = "transfer"
             PROVE  /\ Len(Transaction) \in 1 .. number + 7 /\ pos \in Nat
                    /\ Remaining = Len(Transaction) - pos
  BY DEF TransferInside
<1>1. Length = number
  BY DEF Length
<1>2. number \in Nat \ {0}
  BY Sizes DEF TypeOK
<1> QED
  BY <1>1, <1>2, Place DEF Remaining

LEMMA OkRunsDown ==
  ASSUME TypeOK, TypeOK', TwiOk
  PROVE  stage' = "idle" \/ Remaining' \in 0 .. Remaining - 1
<1>1. /\ stage \in {"poll", "transfer"}
      /\ op' = op /\ number' = number /\ polls' = polls
  BY DEF TwiOk, TypeOK
<1>2. CASE pos + 1 < Len(Transaction)
  <2>1. pos' = pos + 1 /\ stage' = stage
    BY <1>2, GoesOn
  <2>2. Transaction' = Transaction
    BY <1>1, <2>1, SameTransaction
  <2>3. Remaining' =
          (IF stage = "poll" THEN (MaxPolls - polls + 1) * 8 + number + 7
                             ELSE Len(Transaction)) - (pos + 1)
    BY <1>1, <2>1, <2>2 DEF Remaining
  <2>4. CASE stage = "poll"
    <3>1. /\ pos \in 0 .. 7 /\ number \in Nat \ {0}
          /\ MaxPolls - polls \in Nat
          /\ Remaining = (MaxPolls - polls) * 8 + 15 + number - pos
      BY <2>4, PollLeft
    <3>2. (MaxPolls - polls + 1) * 8 = (MaxPolls - polls) * 8 + 8
      BY <3>1
    <3> QED
      BY <2>3, <2>4, <3>1, <3>2
  <2>5. CASE stage = "transfer"
    <3>1. /\ Len(Transaction) \in Nat /\ pos \in Nat
          /\ Remaining = Len(Transaction) - pos
      BY <2>5, TransferLeft, Sizes DEF TypeOK, TransferInside
    <3> QED
      BY <1>2, <2>3, <2>5, <3>1
  <2> QED
    BY <1>1, <2>4, <2>5
<1>3. CASE ~(pos + 1 < Len(Transaction)) /\ stage = "poll"
  <2>1. pos' = 0 /\ stage' = "transfer"
    BY <1>3 DEF TwiOk, Continue
  <2>2. Remaining' \in 1 .. number + 7
    <3>1. TransferInside'
      BY TransferLeft, PTL
    <3>2. Len(Transaction') \in 1 .. number + 7 /\ Remaining' = Len(Transaction')
      BY <1>1, <2>1, <3>1 DEF TransferInside
    <3> QED
      BY <3>2
  <2>3. /\ pos = 7 /\ number \in Nat /\ MaxPolls - polls \in Nat
        /\ Remaining = (MaxPolls - polls) * 8 + 15 + number - pos
    <3>1. /\ pos \in 0 .. 7 /\ Len(Transaction) = 8
          /\ number \in Nat \ {0} /\ MaxPolls - polls \in Nat
          /\ Remaining = (MaxPolls - polls) * 8 + 15 + number - pos
      BY <1>3, PollLeft
    <3>2. ~(pos + 1 < 8)
      BY <1>3, <3>1
    <3>3. pos = 7
      BY <3>1, <3>2
    <3> QED
      BY <3>1, <3>3
  <2> QED
    BY <2>2, <2>3
<1>4. CASE ~(pos + 1 < Len(Transaction)) /\ stage = "transfer"
  BY <1>4 DEF TwiOk, Continue
<1> QED
  BY <1>1, <1>2, <1>3, <1>4

LEMMA AbortRunsDown ==
  ASSUME TypeOK, Abort, stage # "idle"
  PROVE  stage' = "idle" \/ Remaining' \in 0 .. Remaining - 1
<1>1. CASE stage = "poll" /\ ~GiveUp
  <2>1. /\ pos' = 0 /\ polls' = polls + 1 /\ stage' = "poll"
        /\ number' = number
    BY <1>1 DEF Abort, NextPoll
  <2>2. /\ pos \in 0 .. 7 /\ number \in Nat \ {0}
        /\ MaxPolls - polls \in Nat
        /\ Remaining = (MaxPolls - polls) * 8 + 15 + number - pos
    BY <1>1, PollLeft
  <2>3. MaxPolls \in Nat /\ polls \in Nat /\ polls < MaxPolls
    BY <1>1, BusAssumption DEF TypeOK, GiveUp
  <2>4. Remaining' = (MaxPolls - (polls + 1) + 1) * 8 + number + 7
    BY <2>1, <2>2, <2>3 DEF Remaining
  <2>5. (MaxPolls - (polls + 1) + 1) * 8 = (MaxPolls - polls) * 8
    BY <2>3
  <2> QED
    BY <2>2, <2>3, <2>4, <2>5
<1>2. CASE ~(stage = "poll" /\ ~GiveUp)
  BY <1>2 DEF Abort
<1> QED
  BY <1>1, <1>2

(* A call takes a bounded number of operations, whatever they return       *)
(* (ext_eeprom_wait, ext_eeprom.c:48-59): every one, a failed poll         *)
(* included, ends it or leaves it less to do.                              *)
THEOREM CallsAreBounded == Spec => CallsRunDown
<1>1. ASSUME TypeOK, TypeOK', TwiOk \/ TwiNack \/ TwiFails
      PROVE  stage' = "idle" \/ Remaining' \in 0 .. Remaining - 1
  <2>1. CASE TwiOk
    BY <1>1, <2>1, OkRunsDown
  <2>2. CASE TwiNack
    BY <1>1, <2>2, AbortRunsDown DEF TwiNack
  <2>3. CASE TwiFails
    BY <1>1, <2>3, AbortRunsDown DEF TwiFails
  <2> QED
    BY <1>1, <2>1, <2>2, <2>3
<1>2. Spec => []TypeOK
  BY TypeCorrect
<1>3. TypeOK /\ TypeOK' =>
        [TwiOk \/ TwiNack \/ TwiFails =>
           stage' = "idle" \/ Remaining' \in 0 .. Remaining - 1]_vars
  BY <1>1
<1> QED
  BY <1>2, <1>3, PTL DEF CallsRunDown
=============================================================================
