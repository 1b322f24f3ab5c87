--------------------------- MODULE UsbDataProofs ---------------------------
(***************************************************************************)
(* The ring of usbdata.c is a queue, for every number of slots and every   *)
(* set of buffers and lengths, as long as its users leave one slot free.   *)
(***************************************************************************)
EXTENDS UsbData, SequenceTheorems, TLAPS

(* The distance of the two indices, and a slot counted on from one, with   *)
(* one wrap at most.                                                       *)
LEMMA OccupiedIs ==
  ASSUME NEW i \in Slot, NEW o \in Slot
  PROVE  (i - o) % BufferSize = IF i >= o THEN i - o ELSE i - o + BufferSize
<1> USE RingAssumption DEF Slot
<1>1. \A x \in Slot : x % BufferSize = x /\ (x - BufferSize) % BufferSize = x
  OBVIOUS
<1>2. CASE i >= o
  BY <1>1, <1>2
<1>3. CASE i < o
  <2>1. i - o + BufferSize \in Slot
    BY <1>3
  <2>2. (i - o + BufferSize) - BufferSize = i - o
    OBVIOUS
  <2> QED
    BY <1>1, <1>3, <2>1, <2>2
<1> QED
  BY <1>2, <1>3

LEMMA SlotAfter ==
  ASSUME NEW o \in Slot, NEW k \in 0 .. BufferSize
  PROVE  (o + k) % BufferSize =
           IF o + k < BufferSize THEN o + k ELSE o + k - BufferSize
<1> USE RingAssumption DEF Slot
<1>1. CASE o + k < BufferSize
  BY <1>1
<1>2. CASE o + k >= BufferSize
  <2>1. o + k - BufferSize \in Slot
    BY <1>2
  <2>2. \A x \in Slot : (x + BufferSize) % BufferSize = x
    OBVIOUS
  <2>3. (o + k - BufferSize) + BufferSize = o + k
    OBVIOUS
  <2> QED
    BY <1>2, <2>1, <2>2, <2>3
<1> QED
  BY <1>1, <1>2

-----------------------------------------------------------------------------
(* A slot in use holds a packet, and one that is being sent is not the     *)
(* last byte of it.                                                        *)
Used(i) == IF packet_index_in >= packet_index_out
           THEN packet_index_out <= i /\ i < packet_index_in
           ELSE packet_index_out <= i \/ i < packet_index_in

RingInv ==
  /\ TypeOK
  /\ \A i \in Slot : Used(i) => packets[i] \in Buf /\ packet_length[i] \in Lengths
  /\ during_send => /\ packet_index_in # packet_index_out
                    /\ index_during_send < packet_length[packet_index_out]

LEMMA RingInit == Init => RingInv
<1> SUFFICES ASSUME Init PROVE RingInv
  OBVIOUS
<1> USE RingAssumption
<1>1. /\ packets \in [Slot -> Buf \union {NoBuf}]
      /\ packet_length \in [Slot -> Lengths \union {0}]
  BY DEF Init
<1>2. packet_index_in \in Slot /\ packet_index_out \in Slot
  BY DEF Init, Slot
<1>3. during_send = FALSE /\ index_during_send = 0
  BY DEF Init
<1>4. \A i \in Slot : ~ Used(i)
  BY DEF Init, Used, Slot
<1>5. during_send \in BOOLEAN
  BY <1>3
<1>6. TypeOK
  BY <1>1, <1>2, <1>3, <1>5 DEF TypeOK
<1> QED
  BY <1>3, <1>4, <1>6 DEF RingInv

(* What usb_send_next_data hands out lies inside its packet.               *)
LEMMA ChunkInside ==
  ASSUME RingInv, usb_send_next_data
  PROVE  /\ packet_index_in # packet_index_out
         /\ packet_length[packet_index_out] \in 1 .. 255
         /\ StartIndex \in 0 .. 255
         /\ StartIndex < packet_length[packet_index_out]
<1> USE RingAssumption
<1>1. packet_index_in # packet_index_out
  BY DEF usb_send_next_data, RingInv
<1>2. Used(packet_index_out)
  BY <1>1 DEF Used, RingInv, TypeOK, Slot
<1>3. packet_length[packet_index_out] \in 1 .. 255
  BY <1>2 DEF RingInv, TypeOK
<1> QED
  BY <1>1, <1>3 DEF StartIndex, RingInv, TypeOK

LEMMA RingStep == RingInv /\ [Next]_vars => RingInv'
<1> SUFFICES ASSUME RingInv, [Next]_vars PROVE RingInv'
  OBVIOUS
<1> USE RingAssumption
<1>1. ASSUME SlotLeft, NEW buf \in Buf, NEW length \in Lengths,
             usb_send_data(buf, length)
      PROVE  RingInv'
  <2>1. TypeOK'
    BY <1>1 DEF usb_send_data, RingInv, TypeOK, NextSlot, Slot
  <2>2. \A i \in Slot : Used(i)' => i = packet_index_in \/ Used(i)
    BY <1>1 DEF usb_send_data, SlotLeft, RingInv, TypeOK, NextSlot, Slot, Used
  <2>3. \A i \in Slot : Used(i)' => /\ packets'[i] \in Buf
                                    /\ packet_length'[i] \in Lengths
    BY <1>1, <2>2 DEF usb_send_data, RingInv, TypeOK
  <2>4. (during_send => /\ packet_index_in # packet_index_out
                        /\ index_during_send
                             < packet_length[packet_index_out])'
    BY <1>1 DEF usb_send_data, SlotLeft, RingInv, TypeOK
  <2> QED
    BY <2>1, <2>3, <2>4 DEF RingInv
<1>2. ASSUME usb_send_next_data PROVE RingInv'
  <2>1. /\ packet_index_in # packet_index_out
        /\ packet_length[packet_index_out] \in 1 .. 255
        /\ StartIndex \in 0 .. 255
        /\ StartIndex < packet_length[packet_index_out]
    BY <1>2, ChunkInside
  <2>2. UNCHANGED <<packets, packet_length, packet_index_in>>
    BY <1>2 DEF usb_send_next_data
  <2>3. CASE packet_length[packet_index_out] - StartIndex > 8
    <3>1. /\ index_during_send' = StartIndex + 8 /\ during_send'
          /\ packet_index_out' = packet_index_out
      BY <1>2, <2>3 DEF usb_send_next_data
    <3>2. during_send' = TRUE
      BY <1>2, <2>3, Zenon DEF usb_send_next_data
    <3>3. index_during_send' \in 0 .. 255
          /\ index_during_send' < packet_length[packet_index_out]
      BY <2>1, <2>3, <3>1
    <3>4. TypeOK'
      BY <2>2, <3>1, <3>2, <3>3 DEF RingInv, TypeOK
    <3>5. \A i \in Slot : Used(i)' = Used(i)
      BY <2>2, <3>1 DEF Used
    <3> QED
      BY <2>1, <2>2, <3>1, <3>3, <3>4, <3>5 DEF RingInv
  <2>4. CASE packet_length[packet_index_out] - StartIndex <= 8
    <3> DEFINE more == packet_length[packet_index_out] - StartIndex > 8
    <3>1. ~ more /\ more \in BOOLEAN
      BY <2>1, <2>4
    <3>2. during_send' = more
      BY <1>2 DEF usb_send_next_data
    <3>3. index_during_send' =
               StartIndex + (packet_length[packet_index_out] - StartIndex)
          /\ packet_index_out' = NextSlot(packet_index_out)
      BY <1>2, <3>1 DEF usb_send_next_data
    <3> HIDE DEF more
    <3>4. during_send' \in BOOLEAN /\ ~ during_send'
      <4>1. during_send' \in BOOLEAN
        BY <3>1, <3>2, Zenon
      <4>2. ~ during_send'
        BY <3>1, <3>2, Zenon
      <4> QED
        BY <4>1, <4>2
    <3>5. index_during_send' \in 0 .. 255
      BY <2>1, <3>3
    <3>6. \A i \in Slot : Used(i)' => Used(i)
      BY <2>1, <2>2, <3>3 DEF RingInv, TypeOK, NextSlot, Slot, Used
    <3>7. packet_index_out' \in Slot
      BY <3>3 DEF RingInv, TypeOK, NextSlot, Slot
    <3>8. TypeOK'
      BY <2>2, <3>4, <3>5, <3>7 DEF RingInv, TypeOK
    <3> QED
      BY <2>2, <3>4, <3>6, <3>8 DEF RingInv
  <2> QED
    BY <2>1, <2>3, <2>4
<1>3. ASSUME UNCHANGED vars PROVE RingInv'
  BY <1>3 DEF vars, ring, RingInv, TypeOK, Used
<1> QED
  BY <1>1, <1>2, <1>3 DEF Next, Send

(* Indices stay inside the arrays, and the offset inside a packet.         *)
THEOREM TypeCorrect == Spec => []TypeOK
<1>1. RingInv => TypeOK
  BY DEF RingInv
<1> QED
  BY RingInit, RingStep, <1>1, PTL DEF Spec

-----------------------------------------------------------------------------
(***************************************************************************)
(* The queue.                                                              *)
(***************************************************************************)

(* The i-th packet queued lies in this slot.                               *)
At(i) == IF packet_index_out + i - 1 < BufferSize
         THEN packet_index_out + i - 1 ELSE packet_index_out + i - 1 - BufferSize

Entry(s) == [buf |-> packets[s], length |-> packet_length[s]]

Count == IF packet_index_in >= packet_index_out
         THEN packet_index_in - packet_index_out
         ELSE packet_index_in - packet_index_out + BufferSize

(* The queue with its modular arithmetic written out.                      *)
Queued ==
  /\ Count \in 0 .. BufferSize - 1
  /\ \A i \in 1 .. Count : At(i) \in Slot
  /\ Abstract.packets = [i \in 1 .. Count |-> Entry(At(i))]
  /\ Abstract = [packets |-> Abstract.packets, index |-> StartIndex]

LEMMA AbstractIs == TypeOK => Queued
<1> SUFFICES ASSUME TypeOK PROVE Queued
  OBVIOUS
<1> USE RingAssumption
<1>1. Occupied = Count
  BY OccupiedIs DEF Occupied, Count, TypeOK
<1>2. Count \in 0 .. BufferSize - 1
  BY DEF Count, TypeOK, Slot
<1>3. ASSUME NEW i \in 1 .. Count
      PROVE  (packet_index_out + i - 1) % BufferSize = At(i) /\ At(i) \in Slot
  <2>1. i - 1 \in 0 .. BufferSize /\ packet_index_out \in Slot
    BY <1>2, <1>3 DEF TypeOK
  <2>2. packet_index_out + i - 1 = packet_index_out + (i - 1)
    BY <2>1 DEF Slot
  <2>3. (packet_index_out + (i - 1)) % BufferSize = At(i)
    BY <2>1, <2>2, SlotAfter DEF At
  <2> QED
    BY <1>2, <2>1, <2>2, <2>3 DEF At, Slot
<1>4. Abstract.packets = [i \in 1 .. Count |-> Entry(At(i))]
  BY <1>1, <1>3 DEF Abstract, Entry
<1> QED
  BY <1>2, <1>3, <1>4 DEF Queued, Abstract, StartIndex

LEMMA AbstractNext == TypeOK' => Queued'
  BY AbstractIs, PTL

LEMMA StartsEmpty == Init => Fifo!Init
<1> SUFFICES ASSUME Init PROVE Fifo!Init
  OBVIOUS
<1>1. Queued /\ Count = 0 /\ StartIndex = 0
  BY RingInit, AbstractIs DEF RingInv, Init, Count, StartIndex
<1>2. Abstract.packets = << >>
  BY <1>1 DEF Queued
<1> QED
  BY <1>1, <1>2 DEF Queued, Init, Fifo!Init, Fifo!EmptyQueue

(* A packet is appended: the slot it goes to is not one of those in use.   *)
LEMMA SendAppends ==
  ASSUME RingInv, RingInv', SlotLeft,
         NEW buf \in Buf, NEW length \in Lengths, usb_send_data(buf, length)
  PROVE  Fifo!Send(buf, length)
<1> USE RingAssumption
<1> DEFINE new == [buf |-> buf, length |-> length]
           before == [i \in 1 .. Count |-> Entry(At(i))]
           after == [i \in 1 .. Count' |-> Entry(At(i))']
<1>1. Queued /\ Queued'
  BY AbstractIs, AbstractNext DEF RingInv
<1>2. packet_index_in \in Slot /\ packet_index_out \in Slot
  BY DEF RingInv, TypeOK
<1>3. /\ packets' = [packets EXCEPT ![packet_index_in] = buf]
      /\ packet_length' = [packet_length EXCEPT ![packet_index_in] = length]
      /\ packet_index_in' = NextSlot(packet_index_in)
      /\ UNCHANGED <<packet_index_out, during_send, index_during_send, handed>>
  BY DEF usb_send_data
<1>4. Count' = Count + 1 /\ Count \in Nat
  <2>1. packet_index_in' = NextSlot(packet_index_in)
        /\ packet_index_out' = packet_index_out
        /\ NextSlot(packet_index_in) # packet_index_out
    BY <1>3 DEF SlotLeft
  <2> QED
    BY <1>2, <2>1 DEF Count, NextSlot, Slot
<1>5. At(Count + 1) = packet_index_in
  BY <1>2 DEF At, Count, Slot
<1>6. ASSUME NEW i \in 1 .. Count PROVE At(i) # packet_index_in
  BY <1>2, <1>6 DEF At, Count, Slot
<1>7. \A i \in Int : At(i)' = At(i)
  BY <1>3 DEF At
<1>8. \A i \in 1 .. Count : Entry(At(i))' = Entry(At(i))
  BY <1>1, <1>3, <1>6, <1>7 DEF Entry, Queued, RingInv, TypeOK
<1>9. Entry(At(Count))' = new
  <2>1. At(Count)' = packet_index_in
    BY <1>3, <1>4, <1>5 DEF At
  <2>2. packets'[packet_index_in] = buf
        /\ packet_length'[packet_index_in] = length
    BY <1>2, <1>3 DEF RingInv, TypeOK
  <2> QED
    BY <2>1, <2>2 DEF Entry
<1>10. after = Append(before, new)
  <2> DEFINE E(i) == Entry(At(i))
             F(i) == Entry(At(i))'
  <2>1. \A i \in 1 .. Count : F(i) = E(i)
    BY <1>8
  <2>2. ASSUME NEW n \in Nat, n = Count + 1 PROVE F(n) = new
    <3>1. n = Count'
      BY <1>4, <2>2
    <3> QED
      BY <1>9, <3>1 DEF Entry, At
  <2> HIDE DEF E, F, new
  <2>3. [i \in 1 .. Count + 1 |-> F(i)] = Append([i \in 1 .. Count |-> E(i)], new)
    BY <1>4, <2>1, <2>2
  <2>4. after = [i \in 1 .. Count + 1 |-> F(i)]
    BY <1>4 DEF F
  <2>5. before = [i \in 1 .. Count |-> E(i)]
    BY DEF E
  <2> QED
    BY <2>3, <2>4, <2>5
<1>11. StartIndex' = StartIndex
  BY <1>3 DEF StartIndex
<1>12. /\ Abstract.packets = before /\ Abstract'.packets = after
       /\ Abstract = [packets |-> Abstract.packets, index |-> StartIndex]
       /\ Abstract' = [packets |-> Abstract'.packets, index |-> StartIndex']
  BY <1>1 DEF Queued
<1> HIDE DEF before, after
<1>13. Abstract' = [Abstract EXCEPT !.packets = Append(@, new)]
  BY <1>10, <1>11, <1>12
<1> QED
  BY <1>3, <1>13 DEF Fifo!Send, Fifo!Enqueue

(* A chunk is taken off the packet that has waited longest; with its last  *)
(* chunk every other packet moves one place up.                            *)
LEMMA SendNextDequeues ==
  ASSUME RingInv, RingInv', usb_send_next_data
  PROVE  Fifo!SendNext
<1> USE RingAssumption
<1> DEFINE first == packet_index_out
           before == [i \in 1 .. Count |-> Entry(At(i))]
           after == [i \in 1 .. Count' |-> Entry(At(i))']
           rest == packet_length[packet_index_out] - StartIndex
<1>1. Queued /\ Queued'
  BY AbstractIs, AbstractNext DEF RingInv
<1>2. /\ packet_index_in \in Slot /\ packet_index_out \in Slot
      /\ packet_index_in # packet_index_out
      /\ packet_length[packet_index_out] \in 1 .. 255
      /\ StartIndex \in 0 .. 255
      /\ StartIndex < packet_length[packet_index_out]
  BY ChunkInside DEF RingInv, TypeOK
<1>3. /\ Abstract.packets = before /\ Abstract'.packets = after
      /\ Abstract = [packets |-> Abstract.packets, index |-> StartIndex]
      /\ Abstract' = [packets |-> Abstract'.packets, index |-> StartIndex']
  BY <1>1 DEF Queued
<1>4. /\ UNCHANGED <<packets, packet_length, packet_index_in>>
      /\ handed' = [buf |-> packets[packet_index_out], off |-> StartIndex,
                    len |-> IF rest > 8 THEN 8 ELSE rest]
      /\ index_during_send' = StartIndex + (IF rest > 8 THEN 8 ELSE rest)
      /\ packet_index_out' = IF rest > 8 THEN packet_index_out
                             ELSE NextSlot(packet_index_out)
  BY DEF usb_send_next_data
<1>5. during_send' = (rest > 8)
  BY DEF usb_send_next_data
<1>6. Count \in Nat \ {0}
  BY <1>2 DEF Count, Slot
<1>7. Entry(At(1)) = [buf    |-> packets[packet_index_out],
                      length |-> packet_length[packet_index_out]]
  <2>1. At(1) = packet_index_out
    BY <1>2 DEF At, Slot
  <2> QED
    BY <2>1 DEF Entry
<1>8. before # << >> /\ Head(before) = Entry(At(1))
  <2> DEFINE E(i) == Entry(At(i))
  <2> HIDE DEF E
  <2>1. LET s == [i \in 1 .. Count |-> E(i)]
        IN  s # << >> /\ Head(s) = E(1)
    BY <1>6
  <2> QED
    BY <2>1 DEF E
<1>9. /\ Fifo!HasPacket(Abstract)
      /\ Head(Abstract.packets).length - Abstract.index = rest
      /\ handed' = Fifo!NextChunk(Abstract)
  <2> HIDE DEF before
  <2>1. /\ Head(Abstract.packets).buf = packets[packet_index_out]
        /\ Head(Abstract.packets).length = packet_length[packet_index_out]
        /\ Abstract.index = StartIndex
    BY <1>3, <1>7, <1>8
  <2>2. Abstract.packets # << >>
    BY <1>3, <1>8
  <2> QED
    BY <1>4, <2>1, <2>2
       DEF Fifo!HasPacket, Fifo!NextChunk, Fifo!MaxChunk
<1>10. CASE rest > 8
  <2>1. during_send'
    BY <1>5, <1>10
  <2>2. StartIndex' = StartIndex + 8
    BY <1>4, <1>10, <2>1 DEF StartIndex
  <2>3. /\ Count' = Count
        /\ \A i \in 1 .. Count : Entry(At(i))' = Entry(At(i))
    BY <1>4, <1>10 DEF Count, Entry, At
  <2>4. after = before
    BY <2>3
  <2> HIDE DEF before, after
  <2>5. Abstract' = [Abstract EXCEPT !.index = @ + 8]
    BY <1>3, <2>2, <2>4
  <2> QED
    BY <1>9, <1>10, <2>5 DEF Fifo!SendNext, Fifo!Dequeue, Fifo!MaxChunk
<1>11. CASE ~ (rest > 8)
  <2>1. ~ during_send'
    BY <1>5, <1>11
  <2>2. StartIndex' = 0
    BY <2>1 DEF StartIndex
  <2>3. packet_index_in' = packet_index_in
        /\ packet_index_out' = NextSlot(packet_index_out)
    BY <1>4, <1>11
  <2>4. Count' = Count - 1
    BY <1>2, <2>3 DEF Count, NextSlot, Slot
  <2>5. ASSUME NEW i \in 1 .. Count - 1 PROVE At(i)' = At(i + 1)
    BY <1>2, <1>6, <2>3, <2>5 DEF At, Count, NextSlot, Slot
  <2>6. \A i \in 1 .. Count - 1 : Entry(At(i))' = Entry(At(i + 1))
    BY <1>4, <2>5 DEF Entry
  <2>7. after = Tail(before)
    <3> DEFINE E(i) == Entry(At(i))
               F(i) == Entry(At(i))'
    <3>1. \A i \in 1 .. Count - 1 : F(i) = E(i + 1)
      BY <2>6
    <3> HIDE DEF E, F
    <3>2. [i \in 1 .. Count - 1 |-> F(i)] = Tail([i \in 1 .. Count |-> E(i)])
      BY <1>6, <3>1
    <3>3. after = [i \in 1 .. Count - 1 |-> F(i)]
      BY <2>4 DEF F
    <3>4. before = [i \in 1 .. Count |-> E(i)]
      BY DEF E
    <3> QED
      BY <3>2, <3>3, <3>4
  <2> HIDE DEF before, after
  <2>8. Abstract' = [packets |-> Tail(Abstract.packets), index |-> 0]
    BY <1>3, <2>2, <2>7
  <2> QED
    BY <1>9, <1>11, <2>8 DEF Fifo!SendNext, Fifo!Dequeue, Fifo!MaxChunk
<1> QED
  BY <1>10, <1>11

LEMMA QueueStep ==
  RingInv /\ RingInv' /\ [Next]_vars => [Fifo!Next]_<<Abstract, handed>>
<1> SUFFICES ASSUME RingInv, RingInv', [Next]_vars
             PROVE  [Fifo!Next]_<<Abstract, handed>>
  OBVIOUS
<1>1. ASSUME SlotLeft, NEW buf \in Buf, NEW length \in Lengths,
             usb_send_data(buf, length)
      PROVE  Fifo!Next
  BY <1>1, SendAppends DEF Fifo!Next
<1>2. ASSUME usb_send_next_data PROVE Fifo!Next
  BY <1>2, SendNextDequeues DEF Fifo!Next
<1>3. ASSUME UNCHANGED vars PROVE UNCHANGED <<Abstract, handed>>
  <2>1. Queued /\ Queued'
    BY AbstractIs, AbstractNext DEF RingInv
  <2>2. Count' = Count /\ StartIndex' = StartIndex
    BY <1>3 DEF vars, ring, Count, StartIndex
  <2>3. \A i \in 1 .. Count : Entry(At(i))' = Entry(At(i))
    BY <1>3 DEF vars, ring, Entry, At
  <2>4. Abstract'.packets = Abstract.packets
    BY <2>1, <2>2, <2>3 DEF Queued
  <2> QED
    BY <1>3, <2>1, <2>2, <2>4 DEF Queued, vars
<1> QED
  BY <1>1, <1>2, <1>3 DEF Next, Send

(* The ring of usbdata.c implements the queue its users think of, whatever *)
(* the number of slots, as long as they leave one free.                    *)
THEOREM RingIsQueue == Spec => IsQueue
<1> QED
  BY RingInit, RingStep, StartsEmpty, QueueStep, PTL
     DEF Spec, IsQueue, Fifo!Spec
=============================================================================
