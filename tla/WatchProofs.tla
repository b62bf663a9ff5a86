----------------------------- MODULE WatchProofs -----------------------------
(***************************************************************************)
(* For every capacity, window and number of messages: the buffer that the  *)
(* watch command looks into is the log of the most recent messages, and    *)
(* watch prints no message twice between two cut answers.                  *)
(***************************************************************************)
EXTENDS Watch, RingProofs, SequenceTheorems, WellFoundedInduction

-----------------------------------------------------------------------------
(* The loop of watch, as a function of what the answer lists and what was seen. *)

\* Every nonempty set of naturals has a least element: what induction is done with here.
LEMMA LeastNumber ==
    ASSUME NEW T \in SUBSET Nat, T # {}
    PROVE  \E x \in T : \A y \in T : x <= y
<1> DEFINE Less == OpToRel(<, Nat)
<1>1. \A x, y \in Nat : x < y => <<x, y>> \in Less
  BY DEF OpToRel
<1>2. IsWellFoundedOn(Less, Nat)
  BY NatLessThanWellFounded
<1> HIDE DEF Less
<1>3. PICK x \in T : \A y \in T : ~(<<y, x>> \in Less)
  BY <1>2, WFMin
<1>4. ASSUME NEW y \in T PROVE x <= y
  <2>1. x \in Nat /\ y \in Nat
    OBVIOUS
  <2>2. ~(y < x)
    BY <1>1, <1>3, <2>1
  <2> QED BY <2>1, <2>2
<1> QED BY <1>4

\* One round of the loop.
Round(list, old, f, i) ==
    IF i = 0 THEN <<>>
    ELSE IF list[i] \in old THEN f[i - 1]
    ELSE <<list[i]>> \o f[i - 1]

Loop(list, old, k, f) == f = [i \in 0..k |-> Round(list, old, f, i)]

\* The loop computes something.
LEMMA LoopRuns ==
    ASSUME NEW list, NEW old, NEW k \in Nat
    PROVE  \E f : Loop(list, old, k, f)
<1> DEFINE T == {m \in 0..k : ~ \E f : Loop(list, old, m, f)}
<1>1. SUFFICES T = {}
  OBVIOUS
<1>2. SUFFICES ASSUME T # {} PROVE FALSE
  OBVIOUS
<1>3. PICK m \in T : \A y \in T : m <= y
  <2>1. T \in SUBSET Nat
    OBVIOUS
  <2> HIDE DEF T
  <2> QED BY <1>2, <2>1, LeastNumber
<1>4. m \in 0..k /\ ~ \E f : Loop(list, old, m, f)
  OBVIOUS
<1>5. CASE m = 0
  <2> DEFINE f == [i \in 0..0 |-> <<>>]
  <2>1. Loop(list, old, 0, f)
    BY DEF Loop, Round
  <2> QED BY <1>4, <1>5, <2>1
<1>6. CASE m # 0
  <2>1. m - 1 \in 0..k /\ ~(m <= m - 1)
    BY <1>4, <1>6
  <2>2. m - 1 \notin T
    BY <1>3, <2>1
  <2>3. PICK f : Loop(list, old, m - 1, f)
    BY <2>1, <2>2
  <2> DEFINE g == [i \in 0..m |-> IF i < m THEN f[i] ELSE Round(list, old, f, m)]
  <2>4. \A i \in 0..m - 1 : f[i] = Round(list, old, f, i)
    BY <2>3 DEF Loop
  <2>5. ASSUME NEW i \in 0..m PROVE g[i] = Round(list, old, g, i)
    <3>1. CASE i = m
      <4>1. m - 1 \in 0..m /\ m - 1 < m
        BY <1>4, <1>6
      <4>2. g[m - 1] = f[m - 1] /\ g[m] = Round(list, old, f, m)
        BY <1>4, <1>6, <4>1
      <4> HIDE DEF g
      <4> QED BY <3>1, <4>2 DEF Round
    <3>2. CASE i # m
      <4>1. i \in 0..m - 1 /\ i < m
        BY <1>4, <3>2
      <4>2. g[i] = f[i]
        BY <4>1
      <4>3. i # 0 => g[i - 1] = f[i - 1]
        BY <1>4, <4>1
      <4> HIDE DEF g
      <4> QED BY <2>4, <4>1, <4>2, <4>3 DEF Round
    <3> QED BY <3>1, <3>2
  <2>6. g = [i \in 0..m |-> g[i]]
    OBVIOUS
  <2>7. Loop(list, old, m, g)
    <3> HIDE DEF g
    <3> QED BY <2>5, <2>6 DEF Loop
  <2> QED BY <1>4, <2>7
<1> QED BY <1>5, <1>6

\* After i rounds of a list whose numbers fall: the first i numbers of the list that were
\* not seen and no others, from the last to the first, so that they rise.
Rises(list, old, i, s) ==
    /\ s \in Seq(Nat)
    /\ \A a \in 1..Len(s) : \E j \in 1..i : s[a] = list[j] /\ list[j] \notin old
    /\ \A a, b \in 1..Len(s) : a < b => s[a] < s[b]
    /\ \A j \in 1..i : list[j] \notin old => \E a \in 1..Len(s) : s[a] = list[j]

\* The loop yields the unseen numbers of the list and no others, in rising order.
LEMMA LoopRises ==
    ASSUME NEW k \in Nat, NEW list \in [1..k -> Nat], NEW old, NEW f, Loop(list, old, k, f),
           \A i, j \in 1..k : i < j => list[j] < list[i]
    PROVE  \A i \in 0..k : Rises(list, old, i, f[i])
<1> DEFINE T == {m \in 0..k : ~ Rises(list, old, m, f[m])}
<1>1. SUFFICES T = {}
  OBVIOUS
<1>2. SUFFICES ASSUME T # {} PROVE FALSE
  OBVIOUS
<1>3. PICK m \in T : \A y \in T : m <= y
  <2>1. T \in SUBSET Nat
    OBVIOUS
  <2> HIDE DEF T
  <2> QED BY <1>2, <2>1, LeastNumber
<1>4. m \in 0..k /\ ~ Rises(list, old, m, f[m])
  OBVIOUS
<1>5. f[m] = Round(list, old, f, m)
  BY <1>4 DEF Loop
<1>6. CASE m = 0
  <2>1. f[m] = <<>>
    BY <1>5, <1>6 DEF Round
  <2>2. <<>> \in Seq(Nat) /\ Len(<<>>) = 0 /\ ~ \E j \in 1..0 : TRUE
    OBVIOUS
  <2> QED BY <1>4, <1>6, <2>1, <2>2 DEF Rises
<1>7. CASE m # 0
  <2>1. m - 1 \in 0..k /\ ~(m <= m - 1) /\ m \in 1..k
    BY <1>4, <1>7
  <2>2. Rises(list, old, m - 1, f[m - 1])
    BY <1>3, <2>1
  <2> DEFINE s == f[m - 1]
  <2>3. /\ s \in Seq(Nat)
        /\ \A a \in 1..Len(s) : \E j \in 1..m - 1 : s[a] = list[j] /\ list[j] \notin old
        /\ \A a, b \in 1..Len(s) : a < b => s[a] < s[b]
        /\ \A j \in 1..m - 1 : list[j] \notin old => \E a \in 1..Len(s) : s[a] = list[j]
    BY <2>2 DEF Rises
  <2> HIDE DEF s
  <2>4. \A a \in 1..Len(s) : \E j \in 1..m : s[a] = list[j] /\ list[j] \notin old
    <3>1. \A j \in 1..m - 1 : j \in 1..m
      BY <2>1
    <3> QED BY <2>3, <3>1
  <2>5. CASE list[m] \in old
    <3>1. f[m] = s
      BY <1>5, <1>7, <2>5 DEF Round, s
    <3>2. \A j \in 1..m : list[j] \notin old => \E a \in 1..Len(s) : s[a] = list[j]
      <4>1. \A j \in 1..m : j = m \/ j \in 1..m - 1
        BY <2>1
      <4> QED BY <2>3, <2>5, <4>1
    <3> QED BY <1>4, <2>3, <2>4, <3>1, <3>2 DEF Rises
  <2>6. CASE list[m] \notin old
    <3> DEFINE x == list[m]
               t == <<x>> \o s
    <3>1. f[m] = t
      BY <1>5, <1>7, <2>6 DEF Round, s
    <3>2. x \in Nat
      BY <2>1
    <3>3. \A a \in 1..Len(s) : x < s[a]
      <4>1. \A j \in 1..m - 1 : j \in 1..k /\ j < m
        BY <1>4
      <4> QED BY <2>1, <2>3, <4>1
    <3> HIDE DEF x
    <3>4. /\ t \in Seq(Nat) /\ Len(t) = Len(s) + 1
          /\ t[1] = x
          /\ \A a \in 2..Len(s) + 1 : t[a] = s[a - 1]
      BY <2>3, <3>2
    <3> HIDE DEF t
    <3>5. ASSUME NEW a \in 1..Len(t)
          PROVE  a = 1 \/ (a \in 2..Len(s) + 1 /\ a - 1 \in 1..Len(s))
      BY <2>3, <3>4
    <3>6. \A a \in 1..Len(t) : \E j \in 1..m : t[a] = list[j] /\ list[j] \notin old
      <4>1. m \in 1..m /\ t[1] = list[m]
        BY <2>1, <3>4 DEF x
      <4>2. ASSUME NEW a \in 1..Len(t), a # 1
            PROVE  \E j \in 1..m : t[a] = list[j] /\ list[j] \notin old
        <5>1. t[a] = s[a - 1] /\ a - 1 \in 1..Len(s)
          BY <3>4, <3>5, <4>2
        <5> QED BY <2>4, <5>1
      <4> QED BY <2>6, <4>1, <4>2
    <3>7. ASSUME NEW a \in 1..Len(t), NEW b \in 1..Len(t), a < b PROVE t[a] < t[b]
      <4>1. b \in 2..Len(s) + 1 /\ b - 1 \in 1..Len(s)
        BY <2>3, <3>4, <3>7
      <4>2. CASE a = 1
        BY <3>3, <3>4, <4>1, <4>2
      <4>3. CASE a # 1
        <5>1. a \in 2..Len(s) + 1 /\ a - 1 \in 1..Len(s) /\ a - 1 < b - 1
          BY <3>5, <3>7, <4>1, <4>3
        <5>2. t[a] = s[a - 1] /\ t[b] = s[b - 1]
          BY <3>4, <4>1, <5>1
        <5> QED BY <2>3, <4>1, <5>1, <5>2
      <4> QED BY <4>2, <4>3
    <3>8. ASSUME NEW j \in 1..m, list[j] \notin old PROVE \E a \in 1..Len(t) : t[a] = list[j]
      <4>1. CASE j = m
        <5>1. 1 \in 1..Len(t) /\ t[1] = list[j]
          BY <2>3, <3>4, <4>1 DEF x
        <5> QED BY <5>1
      <4>2. CASE j # m
        <5>1. j \in 1..m - 1
          BY <2>1, <4>2
        <5>2. PICK a \in 1..Len(s) : s[a] = list[j]
          BY <2>3, <3>8, <5>1
        <5>3. PICK b \in 2..Len(s) + 1 : b = a + 1
          BY <2>3, <5>2
        <5>4. b \in 1..Len(t) /\ b - 1 = a
          BY <2>3, <3>4, <5>2, <5>3
        <5>5. t[b] = s[a]
          BY <3>4, <5>3, <5>4
        <5> QED BY <5>2, <5>4, <5>5
      <4> QED BY <4>1, <4>2
    <3> QED BY <1>4, <3>1, <3>4, <3>6, <3>7, <3>8 DEF Rises
  <2> QED BY <2>5, <2>6
<1> QED BY <1>6, <1>7

-----------------------------------------------------------------------------
(* The buffer. *)

\* Whatever happens, the buffer takes a step of the ring or none.
LEMMA RingStep == arrived \in Nat /\ [Next]_vars => [RingNext]_ring
<1> SUFFICES ASSUME arrived \in Nat, [Next]_vars PROVE [RingNext]_ring
  OBVIOUS
<1>1. CASE Stores
  <2>1. PICK text \in Texts : Append1(arrived + 1, text)
    BY <1>1 DEF Stores
  <2>2. arrived + 1 \in Ids
    BY <1>1, WatchAssumption DEF Stores
  <2> QED BY <2>1, <2>2 DEF RingNext
<1>2. CASE Edits
  BY <1>2 DEF Edits, RingNext
<1>3. CASE Restarts
  BY <1>3 DEF Restarts, RingNext
<1>4. CASE WatchStarts \/ Polls \/ AnswerCut \/ WatchStops \/ UNCHANGED vars
  BY <1>4 DEF WatchStarts, Polls, AnswerCut, WatchStops, vars, ring
<1> QED BY <1>1, <1>2, <1>3, <1>4 DEF Next

\* How many messages an answer shows.
Shown == IF Window > n THEN n ELSE Window

\* The oldest message an answer can show: once a message is out of reach it stays so.
Oldest == arrived + 1 - Shown

\* The buffer shows the messages that arrived last, newest first.
ViewInv ==
    /\ arrived \in Nat /\ n <= arrived
    /\ \A i \in 1..n : View[i].id = arrived + 1 - i

\* What can still be found and was not found by the last poll is newer than all that
\* was printed since the last cut answer.
PrintedInv ==
    /\ whole \in Nat /\ printed \in Seq(Nat)
    /\ \A j \in whole + 1..Len(printed) :
          /\ printed[j] \in 1..arrived
          /\ \A id \in Oldest..arrived : id \in seen \/ printed[j] < id

\* What watch takes for seen was there before it, or before the last restart, or has been
\* printed: a message is never skipped as seen without having been shown.
SeenIsPrinted ==
    \A id \in seen : id > missable => \E j \in 1..Len(printed) : printed[j] = id

SeenInv == missable \in Nat /\ missable <= arrived /\ seen \subseteq Nat /\ SeenIsPrinted

WatchInv == RingTypeOK /\ ViewInv /\ PrintedInv /\ PrintedOnce /\ SeenInv

-----------------------------------------------------------------------------
(* What an answer lists, and what watch prints of it. *)

\* An answer shows the whole buffer or as much of it as the request asks for.
LEMMA ShownIs ==
    RingTypeOK => /\ Shown \in 0..n /\ Shown \in Nat
                  /\ (Window > n => Shown = n) /\ (~(Window > n) => Shown = Window)
BY RingAssumption, WatchAssumption DEF RingTypeOK, Shown

\* It lists the messages that arrived last, newest first.
LEMMA NewestIs ==
    ASSUME RingTypeOK, ViewInv
    PROVE  /\ Len(Newest) = Shown
           /\ Newest \in [1..Shown -> Nat]
           /\ \A i \in 1..Shown : Newest[i] = arrived + 1 - i
<1>1. /\ n \in Nat /\ Window \in Nat \ {0} /\ arrived \in Nat /\ n <= arrived
      /\ Shown \in 0..n
  BY RingAssumption, WatchAssumption, ShownIs DEF RingTypeOK, ViewInv
<1>2. Recent(Window) = [i \in 1..Shown |-> buf[SlotOf(next, i - 1)]]
  BY <1>1 DEF Recent, Shown
<1>3. View = [i \in 1..n |-> buf[SlotOf(next, i - 1)]]
  BY ViewIs
<1>4. \A i \in 1..Shown : i \in 1..n
  BY <1>1
<1>5. \A i \in 1..Shown : Recent(Window)[i].id = arrived + 1 - i
  BY <1>2, <1>3, <1>4 DEF ViewInv
<1>6. Len(Recent(Window)) = Shown
  BY <1>1, <1>2
<1>7. Newest = [i \in 1..Shown |-> arrived + 1 - i]
  BY <1>5, <1>6 DEF Newest
<1>8. \A i \in 1..Shown : arrived + 1 - i \in Nat
  BY <1>1
<1> HIDE DEF Shown
<1> QED BY <1>1, <1>7, <1>8

\* An answer lists all that it can reach.
LEMMA FoundIs ==
    ASSUME RingTypeOK, ViewInv
    PROVE  Found = Oldest..arrived
<1>1. /\ Len(Newest) = Shown
      /\ \A i \in 1..Shown : Newest[i] = arrived + 1 - i
  BY NewestIs
<1>2. arrived \in Nat /\ Shown \in Nat /\ Shown <= arrived
  BY RingAssumption, ShownIs DEF ViewInv, RingTypeOK
<1>3. Found = {Newest[i] : i \in 1..Shown}
  BY <1>1 DEF Found, ToSet
<1>4. ASSUME NEW id \in Found PROVE id \in Oldest..arrived
  <2>1. PICK i \in 1..Shown : id = arrived + 1 - i
    BY <1>1, <1>3
  <2> QED BY <1>2, <2>1 DEF Oldest
<1>5. ASSUME NEW id \in Oldest..arrived PROVE id \in Found
  <2> DEFINE i == arrived + 1 - id
  <2>1. i \in 1..Shown /\ id = arrived + 1 - i
    BY <1>2 DEF Oldest
  <2> HIDE DEF i
  <2> QED BY <1>1, <1>3, <2>1
<1> QED BY <1>4, <1>5

\* What a poll prints: the messages within reach that the last poll did not find, in the
\* order they arrived.
LEMMA UnseenRises ==
    ASSUME RingTypeOK, ViewInv
    PROVE  /\ Unseen \in Seq(Nat)
           /\ \A a \in 1..Len(Unseen) :
                 Unseen[a] \in Oldest..arrived /\ Unseen[a] \in 1..arrived /\ Unseen[a] \notin seen
           /\ \A a, b \in 1..Len(Unseen) : a < b => Unseen[a] < Unseen[b]
           /\ \A id \in Found \ seen : \E a \in 1..Len(Unseen) : Unseen[a] = id
<1>1. /\ Len(Newest) = Shown
      /\ Newest \in [1..Shown -> Nat]
      /\ \A i \in 1..Shown : Newest[i] = arrived + 1 - i
  BY NewestIs
<1>2. arrived \in Nat /\ Shown \in Nat /\ Shown <= arrived
  BY RingAssumption, ShownIs DEF ViewInv, RingTypeOK
<1> DEFINE f == CHOOSE g : Loop(Newest, seen, Shown, g)
<1>3. Loop(Newest, seen, Shown, f)
  <2>1. \E g : Loop(Newest, seen, Shown, g)
    BY <1>2, LoopRuns
  <2> QED BY <2>1
<1>4. Unseen = f[Shown]
  BY <1>1 DEF Unseen, Loop, Round
<1> HIDE DEF f
<1>5. \A i, j \in 1..Shown : i < j => Newest[j] < Newest[i]
  BY <1>1, <1>2
<1>6. \A i \in 0..Shown : Rises(Newest, seen, i, f[i])
  BY <1>1, <1>2, <1>3, <1>5, LoopRises
<1>7. Rises(Newest, seen, Shown, Unseen)
  BY <1>2, <1>4, <1>6
<1>8. ASSUME NEW a \in 1..Len(Unseen)
      PROVE  Unseen[a] \in Oldest..arrived /\ Unseen[a] \in 1..arrived /\ Unseen[a] \notin seen
  <2>1. PICK j \in 1..Shown : Unseen[a] = Newest[j] /\ Newest[j] \notin seen
    BY <1>7 DEF Rises
  <2>2. Newest[j] = arrived + 1 - j
    BY <1>1
  <2> QED BY <1>2, <2>1, <2>2 DEF Oldest
<1>9. ASSUME NEW id \in Found \ seen PROVE \E a \in 1..Len(Unseen) : Unseen[a] = id
  <2>1. PICK j \in 1..Shown : id = Newest[j]
    BY <1>1 DEF Found, ToSet
  <2> QED BY <1>7, <2>1 DEF Rises
<1> QED BY <1>7, <1>8, <1>9 DEF Rises

-----------------------------------------------------------------------------
(* The steps. *)

\* A message comes in at the front, with the next number.
LEMMA StoresView ==
    ASSUME WatchInv, RingTypeOK', Stores
    PROVE  ViewInv' /\ n' \in {n, n + 1}
<1>1. PICK text \in Texts : Append1(arrived + 1, text)
  BY DEF Stores
<1>2. /\ arrived \in Nat /\ arrived' = arrived + 1 /\ n <= arrived
      /\ \A i \in 1..n : View[i].id = arrived + 1 - i
      /\ n \in 0..Capacity /\ Capacity \in Nat \ {0}
      /\ Len(View) = n
  BY RingAssumption, ViewIs DEF WatchInv, ViewInv, Stores, RingTypeOK
<1>3. arrived + 1 \in Ids
  BY <1>2, WatchAssumption DEF Stores
<1>4. Buffer!Append1(arrived + 1, text)
  BY <1>1, <1>3, AppendLog DEF WatchInv
<1>5. n' = (IF n < Capacity THEN n + 1 ELSE n)
  BY <1>1 DEF Append1
<1>6. View' = [i \in 1..n' |-> IF i = 1 THEN [id |-> arrived + 1, text |-> text] ELSE View[i - 1]]
  <2>1. Buffer!Kept(Len(View) + 1) = n'
    BY <1>2, <1>5 DEF Buffer!Kept
  <2> QED BY <1>4, <2>1 DEF Buffer!Append1
<1>7. ASSUME NEW i \in 1..n' PROVE View'[i].id = arrived' + 1 - i
  <2>1. CASE i = 1
    BY <1>2, <1>6, <2>1
  <2>2. CASE i # 1
    <3>1. i - 1 \in 1..n
      BY <1>2, <1>5, <2>2
    <3>2. View'[i] = View[i - 1]
      BY <1>6, <2>2
    <3>3. View[i - 1].id = arrived + 1 - (i - 1)
      BY <1>2, <3>1
    <3> QED BY <1>2, <3>2, <3>3
  <2> QED BY <2>1, <2>2
<1> QED BY <1>2, <1>5, <1>7 DEF ViewInv

\* An edit changes no identifier.
LEMMA EditsView ==
    ASSUME WatchInv, RingTypeOK', Edits
    PROVE  ViewInv' /\ n' = n
<1>1. PICK id \in Ids, text \in Texts : Update(id, text)
  BY DEF Edits
<1>2. n' = n /\ arrived' = arrived
  BY <1>1 DEF Edits, Update
<1>3. Buffer!Edit(id, text)
  BY <1>1, UpdateLog DEF WatchInv
<1>4. PICK j \in 1..Len(View) : /\ View[j].id = id
                                /\ View' = [View EXCEPT ![j] = [id |-> id, text |-> text]]
  BY <1>3 DEF Buffer!Edit
<1>5. View \in Seq(Entry) /\ Len(View) = n
  BY ViewIs DEF WatchInv
<1>6. \A i \in 1..n : View'[i].id = View[i].id
  BY <1>4, <1>5
<1> QED BY <1>2, <1>6 DEF ViewInv, WatchInv

\* What was printed stays behind what can still be found.
LEMMA PrintedStays ==
    ASSUME PrintedInv, PrintedOnce, ViewInv, UNCHANGED <<printed, whole, seen>>,
           arrived' \in Nat, arrived <= arrived', Oldest \in Int, Oldest' \in Int, Oldest <= Oldest'
    PROVE  PrintedInv' /\ PrintedOnce'
<1>1. arrived \in Nat
  BY DEF ViewInv
<1>2. ASSUME NEW j \in whole + 1..Len(printed)
      PROVE  /\ printed[j] \in 1..arrived'
             /\ \A id \in Oldest'..arrived' : id \in seen \/ printed[j] < id
  <2>1. /\ printed[j] \in 1..arrived
        /\ \A id \in Oldest..arrived : id \in seen \/ printed[j] < id
    BY DEF PrintedInv
  <2>2. ASSUME NEW id \in Oldest'..arrived' PROVE id \in seen \/ printed[j] < id
    <3>1. CASE id <= arrived
      BY <1>1, <2>1, <3>1
    <3>2. CASE ~(id <= arrived)
      BY <1>1, <2>1, <3>2
    <3> QED BY <3>1, <3>2
  <2> QED BY <1>1, <2>1, <2>2
<1>3. PrintedInv'
  BY <1>2 DEF PrintedInv
<1> QED BY <1>3 DEF PrintedOnce

\* The oldest message in reach of a poll is one that arrived, or the next to come.
LEMMA OldestIs ==
    ASSUME RingTypeOK, ViewInv
    PROVE  Oldest \in 1..arrived + 1
BY RingAssumption, ShownIs DEF RingTypeOK, ViewInv, Oldest

\* The same after the step.
LEMMA OldestNext ==
    (RingTypeOK /\ ViewInv => Oldest \in Int /\ arrived \in Nat)'
<1>1. RingTypeOK /\ ViewInv => Oldest \in Int /\ arrived \in Nat
  BY OldestIs DEF ViewInv
<1> QED BY <1>1, PTL

\* A poll prints nothing twice: what it finds unseen is newer than all it had printed.
LEMMA PollsPrinted ==
    ASSUME WatchInv, Polls
    PROVE  PrintedInv' /\ PrintedOnce'
<1> DEFINE u == Unseen
           l == Len(printed)
<1>1. /\ u \in Seq(Nat)
      /\ \A a \in 1..Len(u) : u[a] \in Oldest..arrived /\ u[a] \in 1..arrived /\ u[a] \notin seen
      /\ \A a, b \in 1..Len(u) : a < b => u[a] < u[b]
  BY UnseenRises DEF WatchInv
<1>2. /\ printed' = printed \o u /\ seen' = Found
      /\ UNCHANGED <<ring, arrived, whole>>
  BY DEF Polls
<1>3. /\ printed \in Seq(Nat) /\ whole \in Nat /\ l \in Nat
      /\ \A j \in whole + 1..l :
            /\ printed[j] \in 1..arrived
            /\ \A id \in Oldest..arrived : id \in seen \/ printed[j] < id
  BY DEF WatchInv, PrintedInv
<1>4. Found = Oldest..arrived
  BY FoundIs DEF WatchInv
<1>5. arrived \in Nat /\ Oldest \in Nat
  BY OldestIs DEF WatchInv, ViewInv
<1>6. Oldest' = Oldest
  BY <1>2 DEF Oldest, Shown, ring
<1> HIDE DEF u
<1>7. printed' \in Seq(Nat) /\ Len(printed') = l + Len(u) /\ Len(u) \in Nat
  BY <1>1, <1>2, <1>3
<1> HIDE DEF l
<1>8. ASSUME NEW j \in whole + 1..Len(printed')
      PROVE  \/ j \in whole + 1..l /\ printed'[j] = printed[j]
             \/ j - l \in 1..Len(u) /\ printed'[j] = u[j - l]
  BY <1>1, <1>2, <1>3, <1>7 DEF l
<1>9. ASSUME NEW j \in whole + 1..Len(printed') PROVE printed'[j] \in 1..arrived
  BY <1>1, <1>3, <1>8
<1>10. ASSUME NEW i \in whole + 1..Len(printed'), NEW j \in whole + 1..Len(printed'), i < j
       PROVE  printed'[i] < printed'[j]
  <2>1. CASE j \in whole + 1..l /\ printed'[j] = printed[j]
    <3>1. i \in whole + 1..l /\ ~(i - l \in 1..Len(u))
      BY <1>3, <1>7, <1>10, <2>1
    <3>2. printed[i] < printed[j]
      BY <1>10, <2>1, <3>1 DEF WatchInv, PrintedOnce, l
    <3> QED BY <1>8, <2>1, <3>1, <3>2
  <2>2. CASE j - l \in 1..Len(u) /\ printed'[j] = u[j - l]
    <3>1. CASE i \in whole + 1..l /\ printed'[i] = printed[i]
      BY <1>1, <1>3, <2>2, <3>1
    <3>2. CASE i - l \in 1..Len(u) /\ printed'[i] = u[i - l]
      <4>1. i - l < j - l
        BY <1>3, <1>7, <1>10
      <4> QED BY <1>1, <2>2, <3>2, <4>1
    <3> QED BY <1>8, <3>1, <3>2
  <2> QED BY <1>8, <2>1, <2>2
<1>11. PrintedOnce'
  BY <1>2, <1>10 DEF PrintedOnce
<1>12. PrintedInv'
  BY <1>2, <1>3, <1>4, <1>6, <1>7, <1>9 DEF PrintedInv
<1> QED BY <1>11, <1>12

\* What a poll finds was seen already or is printed now.
LEMMA PollsSeen ==
    ASSUME WatchInv, Polls
    PROVE  SeenInv'
<1>1. /\ printed' = printed \o Unseen /\ seen' = Found
      /\ UNCHANGED <<arrived, missable>>
  BY DEF Polls
<1>2. Unseen \in Seq(Nat) /\ printed \in Seq(Nat)
  BY UnseenRises DEF WatchInv, PrintedInv
<1>3. Found = Oldest..arrived /\ Oldest \in Nat
  BY FoundIs, OldestIs DEF WatchInv, ViewInv
<1>4. ASSUME NEW id \in Found, id > missable
      PROVE  \E j \in 1..Len(printed') : printed'[j] = id
  <2>1. CASE id \in seen
    <3>1. PICK j \in 1..Len(printed) : printed[j] = id
      BY <1>4, <2>1 DEF WatchInv, SeenInv, SeenIsPrinted
    <3>2. j \in 1..Len(printed') /\ printed'[j] = id
      BY <1>1, <1>2, <3>1
    <3> QED BY <3>2
  <2>2. CASE id \notin seen
    <3>1. PICK a \in 1..Len(Unseen) : Unseen[a] = id
      BY <2>2, UnseenRises DEF WatchInv
    <3>2. Len(printed) + a \in 1..Len(printed') /\ printed'[Len(printed) + a] = id
      BY <1>1, <1>2, <3>1
    <3> QED BY <3>2
  <2> QED BY <2>1, <2>2
<1>5. Found \subseteq Nat
  BY <1>3
<1> QED BY <1>1, <1>4, <1>5 DEF WatchInv, SeenInv, SeenIsPrinted

\* Every other step finds nothing new, or only what was there when it began.
LEMMA OtherSeen ==
    ASSUME WatchInv, [Next]_vars, ~Polls
    PROVE  SeenInv'
<1>1. /\ arrived \in Nat /\ missable \in Nat /\ missable <= arrived /\ seen \subseteq Nat
      /\ \A id \in seen : id > missable => \E j \in 1..Len(printed) : printed[j] = id
  BY DEF WatchInv, ViewInv, SeenInv, SeenIsPrinted
<1>2. CASE Stores \/ Edits \/ WatchStops \/ UNCHANGED vars
  <2>1. UNCHANGED <<missable, seen, printed>> /\ arrived' \in {arrived, arrived + 1}
    BY <1>2 DEF Stores, Edits, WatchStops, vars, command
  <2> QED BY <1>1, <2>1 DEF SeenInv, SeenIsPrinted
<1>3. CASE Restarts
  <2>1. UNCHANGED <<arrived, seen, printed>> /\ missable' = arrived
    BY <1>3 DEF Restarts, command
  <2>2. \A id \in seen : id > arrived => id > missable
    BY <1>1
  <2> QED BY <1>1, <2>1, <2>2 DEF SeenInv, SeenIsPrinted
<1>4. CASE WatchStarts
  <2>1. seen' = Found /\ missable' = arrived /\ arrived' = arrived
    BY <1>4 DEF WatchStarts
  <2>2. Found = Oldest..arrived /\ Oldest \in Nat
    BY FoundIs, OldestIs DEF WatchInv, ViewInv
  <2>3. \A id \in Found : id \in Nat /\ ~(id > arrived)
    BY <1>1, <2>2
  <2> QED BY <1>1, <2>1, <2>3 DEF SeenInv, SeenIsPrinted
<1>5. CASE AnswerCut
  BY <1>1, <1>5 DEF AnswerCut, SeenInv, SeenIsPrinted
<1> QED BY <1>2, <1>3, <1>4, <1>5 DEF Next

\* Before watch starts, with an empty buffer, the invariant holds.
LEMMA InitWatchInv == Init => WatchInv
<1> SUFFICES ASSUME Init PROVE WatchInv
  OBVIOUS
<1>1. RingTypeOK
  BY InitTypeOK DEF Init
<1>2. n = 0 /\ arrived = 0 /\ whole = 0 /\ printed = <<>> /\ seen = {} /\ missable = 0
  BY DEF Init, NewRing
<1> QED BY <1>1, <1>2 DEF WatchInv, ViewInv, PrintedInv, PrintedOnce, SeenInv, SeenIsPrinted

\* Polls, arrivals, edits, restarts and cut answers preserve what was printed once.
LEMMA StepPrinted ==
    WatchInv /\ [Next]_vars => RingTypeOK' /\ ViewInv' /\ PrintedInv' /\ PrintedOnce'
<1> SUFFICES ASSUME WatchInv, [Next]_vars
             PROVE  RingTypeOK' /\ ViewInv' /\ PrintedInv' /\ PrintedOnce'
  OBVIOUS
<1>1. RingTypeOK'
  BY RingStep, StepTypeOK DEF WatchInv, ViewInv
<1>2. Oldest \in 1..arrived + 1 /\ arrived \in Nat
  BY OldestIs DEF WatchInv, ViewInv
<1>3. ViewInv' => Oldest' \in Int /\ arrived' \in Nat
  BY <1>1, OldestNext
<1>4. n \in Nat /\ Window \in Nat /\ n' \in Nat
  BY <1>1, RingAssumption, WatchAssumption DEF WatchInv, RingTypeOK
<1>5. CASE Stores
  <2>1. ViewInv' /\ n' \in {n, n + 1}
    BY <1>1, <1>5, StoresView
  <2>2. arrived' = arrived + 1 /\ UNCHANGED <<printed, whole, seen>>
    BY <1>5 DEF Stores, command
  <2>3. Oldest <= Oldest'
    <3>1. Shown \in Nat /\ Shown' \in Nat /\ Shown' <= Shown + 1
      BY <1>4, <2>1 DEF Shown
    <3>2. Oldest = arrived + 1 - Shown /\ Oldest' = arrived + 1 + 1 - Shown'
      BY <2>2 DEF Oldest
    <3>3. arrived \in Nat
      BY <1>2
    <3>4. \A a, s, t \in Nat : t <= s + 1 => a + 1 - s <= a + 1 + 1 - t
      OBVIOUS
    <3>5. arrived + 1 - Shown <= arrived + 1 + 1 - Shown'
      BY <3>1, <3>3, <3>4
    <3> QED BY <3>2, <3>5, Zenon
  <2>4. PrintedInv' /\ PrintedOnce'
    BY <1>2, <1>3, <2>1, <2>2, <2>3, PrintedStays DEF WatchInv
  <2> QED BY <1>1, <2>1, <2>4
<1>6. CASE Edits
  <2>1. ViewInv' /\ n' = n
    BY <1>1, <1>6, EditsView
  <2>2. arrived' = arrived /\ UNCHANGED <<printed, whole, seen>>
    BY <1>6 DEF Edits, command
  <2>3. Oldest <= Oldest'
    BY <1>2, <2>1, <2>2 DEF Oldest, Shown
  <2>4. PrintedInv' /\ PrintedOnce'
    BY <1>2, <1>3, <2>1, <2>2, <2>3, PrintedStays DEF WatchInv
  <2> QED BY <1>1, <2>1, <2>4
<1>7. CASE Restarts
  <2>1. n' = 0 /\ arrived' = arrived /\ UNCHANGED <<printed, whole, seen>>
    BY <1>7 DEF Restarts, Restart, command
  <2>2. ViewInv'
    BY <1>2, <2>1 DEF ViewInv
  <2>3. Oldest <= Oldest'
    BY <1>2, <1>4, <2>1, WatchAssumption DEF Oldest, Shown
  <2>4. PrintedInv' /\ PrintedOnce'
    BY <1>2, <1>3, <2>1, <2>2, <2>3, PrintedStays DEF WatchInv
  <2> QED BY <1>1, <2>2, <2>4
<1>8. ASSUME UNCHANGED ring, arrived' = arrived PROVE ViewInv' /\ Oldest' = Oldest
  BY <1>8 DEF WatchInv, ViewInv, View, Recent, ring, Oldest, Shown
<1>9. CASE WatchStarts
  <2>1. UNCHANGED <<ring, printed, arrived, whole>> /\ seen' = Found
    BY <1>9 DEF WatchStarts
  <2>2. ViewInv' /\ Oldest' = Oldest
    BY <1>8, <2>1
  <2>3. Found = Oldest..arrived
    BY FoundIs DEF WatchInv
  <2>4. PrintedInv' /\ PrintedOnce'
    BY <2>1, <2>2, <2>3 DEF WatchInv, PrintedInv, PrintedOnce
  <2> QED BY <1>1, <2>2, <2>4
<1>10. CASE Polls
  <2>1. ViewInv'
    BY <1>8, <1>10 DEF Polls
  <2> QED BY <1>1, <1>10, <2>1, PollsPrinted
<1>11. CASE AnswerCut
  <2>1. UNCHANGED <<ring, printed, arrived>> /\ whole' = Len(printed)
    BY <1>11 DEF AnswerCut
  <2>2. ViewInv'
    BY <1>8, <2>1
  <2>3. Len(printed) \in Nat
    BY DEF WatchInv, PrintedInv
  <2>4. PrintedInv' /\ PrintedOnce'
    BY <2>1, <2>3 DEF WatchInv, PrintedInv, PrintedOnce
  <2> QED BY <1>1, <2>2, <2>4
<1>12. CASE WatchStops \/ UNCHANGED vars
  <2>1. UNCHANGED <<ring, printed, arrived, whole, seen>>
    BY <1>12 DEF WatchStops, vars, ring
  <2>2. ViewInv' /\ Oldest' = Oldest
    BY <1>8, <2>1
  <2>3. PrintedInv' /\ PrintedOnce'
    BY <2>1, <2>2 DEF WatchInv, PrintedInv, PrintedOnce
  <2> QED BY <1>1, <2>2, <2>3
<1> QED BY <1>5, <1>6, <1>7, <1>9, <1>10, <1>11, <1>12 DEF Next

\* Every step preserves the whole invariant.
LEMMA StepWatchInv == WatchInv /\ [Next]_vars => WatchInv'
  BY StepPrinted, PollsSeen, OtherSeen DEF WatchInv

-----------------------------------------------------------------------------
(* The theorems. *)

\* The buffer, what watch remembers and what it has printed stay consistent, whatever
\* arrives, is edited or is lost by a restart between its polls.
THEOREM WatchInvariance == Spec => []WatchInv
  BY InitWatchInv, StepWatchInv, PTL DEF Spec

\* Between two answers that are cut, watch prints a message at most once and in the
\* order of arrival, though it remembers only its previous poll: what has left the
\* reach of a poll never comes back into it.
THEOREM NeverPrintedTwice == Spec => []PrintedOnce
  BY WatchInvariance, PTL DEF WatchInv

\* watch never passes over a message as seen that it has not printed, unless it was there
\* when watch, or if later the server, began: a message is missed only by not being polled
\* in time.
THEOREM NothingSkipped == Spec => []SeenIsPrinted
  BY WatchInvariance, PTL DEF WatchInv, SeenInv

\* The buffer under the command is the log of the most recent messages: Stores, Edits
\* and Restarts are steps of the ring, and all others leave it alone.
THEOREM WatchedBufferIsLog == Spec => ImplementsLog
<1>1. Init => NewRing
  BY DEF Init
<1>2. WatchInv /\ [Next]_vars => [RingNext]_ring
  BY RingStep DEF WatchInv, ViewInv
<1> QED BY <1>1, <1>2, WatchInvariance, RingImplementsLog, PTL DEF Spec, RingSpec
==============================================================================
