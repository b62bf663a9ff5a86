----------------------------- MODULE RingProofs -----------------------------
(***************************************************************************)
(* The ring buffer implements the log of the most recent messages, for     *)
(* every capacity, every set of identifiers and every set of texts.        *)
(***************************************************************************)
EXTENDS Ring, TLAPS

\* One wrap-around at most.
LEMMA Wrap ==
    ASSUME NEW c \in Nat \ {0}, NEW x \in 0..2 * c - 1
    PROVE  x % c = IF x < c THEN x ELSE x - c
<1>1. CASE x < c
  BY <1>1, SMT
<1>2. CASE x >= c
  <2> DEFINE q == x \div c
  <2>1. x \in Int /\ c \in Int /\ c > 0
    OBVIOUS
  <2>2. q \in Int /\ x = c * q + (x % c)
    BY <2>1
  <2>3. x % c \in 0..c - 1
    BY <2>1
  <2> HIDE DEF q
  <2>4. q = 1
    <3>1. CASE q <= 0
      <4>1. c * q <= 0
        BY <2>1, <2>2, <3>1
      <4> QED BY <4>1, <2>1, <2>2, <2>3, <1>2
    <3>2. CASE q >= 2
      <4>1. c * q >= 2 * c
        BY <2>1, <2>2, <3>2
      <4> QED BY <4>1, <2>1, <2>2, <2>3
    <3> QED BY <2>2, <3>1, <3>2
  <2>5. c * q = c
    BY <2>1, <2>4
  <2> QED BY <2>1, <2>2, <2>3, <2>5, <1>2
<1> QED BY <1>1, <1>2

\* The slot of the i-th newest message, without the modulo.
LEMMA SlotOfIs ==
    ASSUME NEW nx \in Slots, NEW i \in 0..Capacity - 1
    PROVE  /\ SlotOf(nx, i) = IF i < nx THEN nx - 1 - i ELSE nx - 1 - i + Capacity
           /\ SlotOf(nx, i) \in Slots
<1> DEFINE x == nx - 1 - i + Capacity
<1>1. Capacity \in Nat \ {0} /\ nx \in 0..Capacity - 1
  BY RingAssumption DEF Slots
<1>2. x \in 0..2 * Capacity - 1
  BY <1>1
<1>3. SlotOf(nx, i) = x % Capacity /\ x \in Int
  BY <1>1 DEF SlotOf
<1>4. x % Capacity = IF x < Capacity THEN x ELSE x - Capacity
  BY <1>1, <1>2, Wrap
<1>5. (x < Capacity) <=> (i >= nx)
  BY <1>1
<1>6. x - Capacity = nx - 1 - i
  BY <1>1
<1>7. SlotOf(nx, i) = IF i < nx THEN nx - 1 - i ELSE x
  BY <1>1, <1>3, <1>4, <1>5, <1>6
<1> QED BY <1>1, <1>7 DEF Slots

\* Where Append moves the write position.
LEMMA NextSlot ==
    ASSUME NEW nx \in Slots
    PROVE  /\ (nx + 1) % Capacity = IF nx = Capacity - 1 THEN 0 ELSE nx + 1
           /\ (nx + 1) % Capacity \in Slots
<1> DEFINE x == nx + 1
<1>1. Capacity \in Nat \ {0} /\ nx \in 0..Capacity - 1
  BY RingAssumption DEF Slots
<1>2. x \in 0..2 * Capacity - 1
  BY <1>1
<1>3. (x < Capacity) <=> (nx # Capacity - 1)
  BY <1>1
<1>4. x - Capacity = IF nx = Capacity - 1 THEN 0 ELSE x - Capacity
  BY <1>1
<1>5. x % Capacity = IF x < Capacity THEN x ELSE x - Capacity
  <2> HIDE DEF x
  <2> QED BY <1>1, <1>2, Wrap
<1>6. x % Capacity = IF nx = Capacity - 1 THEN 0 ELSE x
  BY <1>3, <1>4, <1>5
<1>7. x % Capacity \in Slots
  BY <1>1, <1>6 DEF Slots
<1> QED BY <1>6, <1>7

\* A new ring is well formed.
LEMMA InitTypeOK == NewRing => RingTypeOK
<1> SUFFICES ASSUME NewRing PROVE RingTypeOK
  OBVIOUS
<1>1. Capacity \in Nat \ {0} /\ 0 \in Slots /\ 0 \in 0..Capacity
  BY RingAssumption DEF Slots
<1>2. buf \in [Slots -> Entry \union {Blank}]
  BY DEF NewRing
<1>3. \A s \in Slots : ~(s < 0) /\ buf[s] = Blank
  BY DEF Slots, NewRing
<1> QED BY <1>1, <1>2, <1>3 DEF NewRing, RingTypeOK

\* Append, Update and a restart keep it so.
LEMMA StepTypeOK == RingTypeOK /\ [RingNext]_ring => RingTypeOK'
<1> SUFFICES ASSUME RingTypeOK, [RingNext]_ring PROVE RingTypeOK'
  OBVIOUS
<1>0. Capacity \in Nat \ {0} /\ next \in 0..Capacity - 1 /\ n \in 0..Capacity
  BY RingAssumption DEF RingTypeOK, Slots
<1>1. ASSUME NEW id \in Ids \union {NoId}, NEW text \in Texts, Append1(id, text)
      PROVE  RingTypeOK'
  <2>1. next' = (IF next = Capacity - 1 THEN 0 ELSE next + 1) /\ next' \in Slots
    BY <1>1, NextSlot DEF Append1, RingTypeOK
  <2>2. n' \in 0..Capacity /\ (n' < Capacity => next' = n')
    BY <1>0, <1>1, <2>1 DEF Append1, RingTypeOK
  <2>3. buf' \in [Slots -> Entry \union {Blank}]
    BY <1>1 DEF Append1, RingTypeOK, Entry
  <2>4. ASSUME NEW s \in Slots PROVE IF s < n' THEN buf'[s] \in Entry ELSE buf'[s] = Blank
    <3>1. CASE s = next
      <4>1. buf'[s] \in Entry
        BY <1>1, <3>1 DEF Append1, RingTypeOK, Entry
      <4>2. s < n'
        BY <1>0, <1>1, <3>1 DEF Append1, RingTypeOK
      <4> QED BY <4>1, <4>2
    <3>2. CASE s # next
      <4>1. buf'[s] = buf[s]
        BY <1>1, <3>2 DEF Append1, RingTypeOK
      <4>2. s < n' <=> s < n
        BY <1>0, <1>1, <3>2 DEF Append1, RingTypeOK, Slots
      <4>3. IF s < n THEN buf[s] \in Entry ELSE buf[s] = Blank
        BY DEF RingTypeOK
      <4> QED BY <4>1, <4>2, <4>3
    <3> QED BY <3>1, <3>2
  <2> QED BY <2>1, <2>2, <2>3, <2>4 DEF RingTypeOK
<1>2. ASSUME NEW id \in Ids \union {NoId}, NEW text \in Texts, Update(id, text)
      PROVE  RingTypeOK'
  <2>1. PICK s \in Slots : buf[s].id = id /\ buf' = [buf EXCEPT ![s] = [id |-> id, text |-> text]]
    BY <1>2 DEF Update
  <2>2. id # NoId /\ UNCHANGED <<next, n>>
    BY <1>2 DEF Update
  <2>3. s < n
    BY <2>1, <2>2 DEF RingTypeOK, Blank
  <2>4. [id |-> id, text |-> text] \in Entry
    BY DEF Entry
  <2>5. \A t \in Slots : IF t < n' THEN buf'[t] \in Entry ELSE buf'[t] = Blank
    BY <2>1, <2>2, <2>3, <2>4 DEF RingTypeOK
  <2>6. buf' \in [Slots -> Entry \union {Blank}]
    BY <2>1, <2>4 DEF RingTypeOK
  <2> QED BY <2>2, <2>5, <2>6 DEF RingTypeOK
<1>3. CASE Restart
  <2>1. (NewRing => RingTypeOK)'
    BY InitTypeOK, PTL
  <2>2. NewRing'
    BY <1>3 DEF Restart, NewRing
  <2> QED BY <2>1, <2>2
<1>4. CASE UNCHANGED ring
  BY <1>4 DEF ring, RingTypeOK
<1> QED BY <1>1, <1>2, <1>3, <1>4 DEF RingNext

\* The counters stay in range and valid slots hold messages.
THEOREM RingTypeCorrect == RingSpec => []RingTypeOK
  BY InitTypeOK, StepTypeOK, PTL DEF RingSpec

-----------------------------------------------------------------------------
(* The refinement. *)

\* The view, given the write position and the count.
LEMMA ViewIs ==
    RingTypeOK => /\ View = [i \in 1..n |-> buf[SlotOf(next, i - 1)]]
              /\ View \in Seq(Entry)
              /\ Len(View) = n
<1> SUFFICES ASSUME RingTypeOK
             PROVE  /\ View = [i \in 1..n |-> buf[SlotOf(next, i - 1)]]
                    /\ View \in Seq(Entry)
                    /\ Len(View) = n
  OBVIOUS
<1>1. n \in 0..Capacity /\ Capacity \in Nat \ {0} /\ next \in 0..Capacity - 1
  BY RingAssumption DEF RingTypeOK, Slots
<1>2. View = [i \in 1..n |-> buf[SlotOf(next, i - 1)]]
  BY <1>1 DEF View, Recent
<1>3. ASSUME NEW i \in 1..n PROVE buf[SlotOf(next, i - 1)] \in Entry
  <2> DEFINE s == SlotOf(next, i - 1)
  <2>1. i - 1 \in 0..Capacity - 1 /\ next \in Slots
    BY <1>1 DEF RingTypeOK
  <2>2. /\ s = IF i - 1 < next THEN next - 1 - (i - 1) ELSE next - 1 - (i - 1) + Capacity
        /\ s \in Slots
    BY <2>1, SlotOfIs
  <2> HIDE DEF s
  <2>3. s < n
    BY <1>1, <2>2 DEF RingTypeOK
  <2> QED BY <2>2, <2>3 DEF RingTypeOK, s
<1> QED BY <1>1, <1>2, <1>3

\* The same after a step.
LEMMA ViewNext ==
    (RingTypeOK => /\ View = [i \in 1..n |-> buf[SlotOf(next, i - 1)]]
               /\ Len(View) = n)'
<1>1. RingTypeOK => /\ View = [i \in 1..n |-> buf[SlotOf(next, i - 1)]]
                /\ Len(View) = n
  BY ViewIs
<1> QED BY <1>1, PTL

\* A new ring shows the empty log.
LEMMA InitLog == NewRing => Buffer!Init
<1> SUFFICES ASSUME NewRing PROVE View = <<>>
  BY DEF Buffer!Init
<1>1. RingTypeOK /\ n = 0
  BY InitTypeOK DEF NewRing
<1>2. View \in Seq(Entry) /\ Len(View) = 0
  BY <1>1, ViewIs
<1> QED BY <1>2

\* Appending to the ring is appending to the log.
LEMMA AppendLog ==
    ASSUME RingTypeOK, RingTypeOK', NEW id \in Ids \union {NoId}, NEW text \in Texts, Append1(id, text)
    PROVE  Buffer!Append1(id, text)
<1> DEFINE m == [id |-> id, text |-> text]
           k == IF Len(View) + 1 < Capacity THEN Len(View) + 1 ELSE Capacity
<1>1. /\ Capacity \in Nat \ {0}
      /\ next \in 0..Capacity - 1 /\ next \in Slots
      /\ next' \in 0..Capacity - 1 /\ next' \in Slots
      /\ n \in 0..Capacity
      /\ Len(View) = n
  BY RingAssumption, ViewIs DEF RingTypeOK, Slots
<1>2. /\ buf' = [buf EXCEPT ![next] = m]
      /\ next' = (IF next = Capacity - 1 THEN 0 ELSE next + 1)
      /\ n' = k
  BY <1>1, NextSlot DEF Append1
<1> HIDE DEF m
<1>3. View' = [i \in 1..n' |-> buf'[SlotOf(next', i - 1)]]
  BY ViewNext
<1>4. ASSUME NEW i \in 1..n'
      PROVE  buf'[SlotOf(next', i - 1)] = IF i = 1 THEN m ELSE View[i - 1]
  <2> DEFINE s == SlotOf(next', i - 1)
  <2>1. i - 1 \in 0..Capacity - 1 /\ n' <= Capacity
    BY <1>1, <1>2
  <2>2. s = IF i - 1 < next' THEN next' - 1 - (i - 1) ELSE next' - 1 - (i - 1) + Capacity
    BY <1>1, <2>1, SlotOfIs
  <2> HIDE DEF s
  <2>3. CASE i = 1
    <3>1. s = next
      BY <1>1, <1>2, <2>2, <2>3
    <3>2. buf'[next] = m
      BY <1>1, <1>2 DEF RingTypeOK
    <3> QED BY <2>3, <3>1, <3>2 DEF s
  <2>4. CASE i # 1
    <3> DEFINE t == SlotOf(next, i - 2)
    <3>1. i - 2 \in 0..Capacity - 1 /\ i - 1 \in 1..n
      BY <1>1, <1>2, <2>1, <2>4
    <3>2. /\ t = IF i - 2 < next THEN next - 1 - (i - 2) ELSE next - 1 - (i - 2) + Capacity
          /\ t \in Slots
      BY <1>1, <3>1, SlotOfIs
    <3>3. View[i - 1] = buf[t]
      <4>1. View[i - 1] = buf[SlotOf(next, i - 1 - 1)]
        BY <3>1, ViewIs
      <4>2. i - 1 - 1 = i - 2
        BY <3>1
      <4> QED BY <4>1, <4>2
    <3> HIDE DEF t
    <3>4. s = t /\ t # next
      BY <1>1, <1>2, <2>1, <2>2, <2>4, <3>1, <3>2
    <3>5. buf'[s] = buf[t]
      BY <1>2, <3>2, <3>4 DEF RingTypeOK
    <3> QED BY <2>4, <3>3, <3>5 DEF s
  <2> QED BY <2>3, <2>4
<1>5. View' = [i \in 1..k |-> IF i = 1 THEN m ELSE View[i - 1]]
  BY <1>2, <1>3, <1>4
<1> QED BY <1>5 DEF Buffer!Append1, Buffer!Kept, m

\* Editing a slot is editing the one entry of the log that the slot shows.
LEMMA UpdateLog ==
    ASSUME RingTypeOK, RingTypeOK', NEW id \in Ids \union {NoId}, NEW text \in Texts, Update(id, text)
    PROVE  Buffer!Edit(id, text)
<1> DEFINE m == [id |-> id, text |-> text]
<1>1. /\ Capacity \in Nat \ {0}
      /\ next \in 0..Capacity - 1 /\ next \in Slots
      /\ n \in 0..Capacity
      /\ Len(View) = n /\ View \in Seq(Entry)
      /\ n < Capacity => next = n
  BY RingAssumption, ViewIs DEF RingTypeOK, Slots
<1>2. PICK s \in Slots : buf[s].id = id /\ buf' = [buf EXCEPT ![s] = m]
  BY DEF Update
<1>3. id # NoId /\ next' = next /\ n' = n
  BY DEF Update
<1>4. s < n /\ s \in 0..Capacity - 1
  BY <1>2, <1>3 DEF RingTypeOK, Blank, Slots
<1> HIDE DEF m
<1> DEFINE i == IF s < next THEN next - s ELSE next - s + Capacity
<1>5. i \in 1..n /\ i - 1 \in 0..Capacity - 1
  BY <1>1, <1>4
<1>6. SlotOf(next, i - 1) = s
  <2>1. SlotOf(next, i - 1) = IF i - 1 < next THEN next - 1 - (i - 1)
                                              ELSE next - 1 - (i - 1) + Capacity
    BY <1>1, <1>5, SlotOfIs
  <2> QED BY <2>1, <1>1, <1>4
<1>7. ASSUME NEW j \in 1..n, j # i PROVE SlotOf(next, j - 1) # s /\ SlotOf(next, j - 1) \in Slots
  <2>1. j - 1 \in 0..Capacity - 1
    BY <1>1
  <2>2. /\ SlotOf(next, j - 1) = IF j - 1 < next THEN next - 1 - (j - 1)
                                                 ELSE next - 1 - (j - 1) + Capacity
        /\ SlotOf(next, j - 1) \in Slots
    BY <1>1, <2>1, SlotOfIs
  <2> QED BY <2>2, <1>1, <1>4, <1>7
<1> HIDE DEF i
<1>8. View = [j \in 1..n |-> buf[SlotOf(next, j - 1)]]
  BY ViewIs
<1>9. View' = [j \in 1..n |-> buf'[SlotOf(next, j - 1)]]
  BY <1>3, ViewNext
<1>10. View[i].id = id
  BY <1>2, <1>5, <1>6, <1>8
<1>11. ASSUME NEW j \in 1..n PROVE buf'[SlotOf(next, j - 1)] = IF j = i THEN m ELSE View[j]
  BY <1>2, <1>6, <1>7, <1>8 DEF RingTypeOK
<1>12. View' = [View EXCEPT ![i] = m]
  BY <1>1, <1>8, <1>9, <1>11
<1> QED BY <1>1, <1>3, <1>5, <1>10, <1>12 DEF Buffer!Edit, m

\* Recent(0) behaves as the log of the most recent messages: wrapping around never
\* repeats, reorders or resurrects a message, and an edit never lands on another.
THEOREM RingImplementsLog == RingSpec => ImplementsLog
<1>1. RingTypeOK /\ RingTypeOK' /\ [RingNext]_ring => [Buffer!Next]_View
  <2> SUFFICES ASSUME RingTypeOK, RingTypeOK', [RingNext]_ring PROVE [Buffer!Next]_View
    OBVIOUS
  <2>1. ASSUME NEW id \in Ids \union {NoId}, NEW text \in Texts, Append1(id, text)
        PROVE  Buffer!Next
    BY <2>1, AppendLog DEF Buffer!Next
  <2>2. ASSUME NEW id \in Ids \union {NoId}, NEW text \in Texts, Update(id, text)
        PROVE  Buffer!Next
    BY <2>2, UpdateLog DEF Buffer!Next
  <2>3. CASE Restart
    <3>1. (NewRing => View = <<>>)'
      BY InitLog, PTL DEF Buffer!Init
    <3>2. NewRing'
      BY <2>3 DEF Restart, NewRing
    <3> QED BY <3>1, <3>2 DEF Buffer!Next, Buffer!Restart
  <2>4. CASE UNCHANGED ring
    BY <2>4 DEF ring, View, Recent
  <2> QED BY <2>1, <2>2, <2>3, <2>4 DEF RingNext
<1> QED BY InitLog, RingTypeCorrect, <1>1, PTL DEF RingSpec, ImplementsLog, Buffer!Spec
=============================================================================
