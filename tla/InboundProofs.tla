---------------------------- MODULE InboundProofs ----------------------------
(***************************************************************************)
(* Whatever the webhook is told of is in the buffer or was displaced from  *)
(* it by newer messages, and has been noted to be acknowledged, for any    *)
(* number of handlers, any buffer and any number of messages.              *)
(***************************************************************************)
EXTENDS Inbound, WellFoundedInduction, TLAPS

-----------------------------------------------------------------------------
(* The inductive invariant. *)

Kinds  == {"message", "edit", "revoke", "skipped"}
Steps  == {"rest", "store", "note", "announce"}
Things == [type : Kinds, id : IdsOrNone, fromMe : BOOLEAN]

\* The message is or was in this process's buffer.
Placed(id) == \E p \in 1..Len(stored) : stored[p] = id

\* A handler that brings a message with an identifier to the buffer.
Bringing(h) ==
    task[h].step = "store" /\ task[h].item.type = "message" /\ task[h].item.id # NoId

TaskInv ==
    /\ task \in [Handlers -> [item : Things, known : BOOLEAN, step : Steps]]
    /\ announced \in [item : Things, known : BOOLEAN]

\* A message with an identifier enters the buffer once, and no two handlers bring the same.
OnceInv ==
    /\ \A p \in 1..Len(stored) : stored[p] \in 0..arrived
    /\ \A p, q \in 1..Len(stored) : stored[p] = stored[q] /\ stored[p] # NoId => p = q
    /\ \A h \in Handlers : Bringing(h) =>
          /\ task[h].item.id \in 1..arrived
          /\ ~Placed(task[h].item.id)
          /\ \A g \in Handlers \ {h} : Bringing(g) => task[g].item.id # task[h].item.id

\* The buffer shows the end of that history, newest first.
LogInv ==
    /\ Len(log) = Buffer!Kept(Len(stored))
    /\ \A i \in 1..Len(log) : log[i].id = stored[Len(stored) + 1 - i]

\* Wherever the message of that identifier is in the buffer, it has its new text.
NewText(id) == \A i \in 1..Len(log) : log[i].id = id => log[i].text = "edited"

\* It is past trackUnread with a message that this notes.
MustBeNoted(t) ==
    /\ t.step = "announce" /\ t.item.type = "message"
    /\ ~t.item.fromMe /\ t.item.id # NoId

\* A handler past the buffer has done there what its event asks for; one that is past
\* trackUnread has noted its message; the message of an edit that was in the buffer when
\* the edit arrived has an identifier and will not enter it again.
DoneInv ==
    \A h \in Handlers :
        LET t == task[h] IN
        /\ t.step \in {"note", "announce"} /\ t.item.type = "message" => Placed(t.item.id)
        /\ MustBeNoted(t) => Noted(t.item.id)
        /\ t.step # "rest" /\ t.item.type = "edit" /\ t.known =>
              Placed(t.item.id) /\ t.item.id # NoId
        /\ t.step = "announce" /\ t.item.type = "edit" /\ t.known => NewText(t.item.id)

\* What the dispatcher was told of still holds.
ToldInv ==
    LET item == announced.item IN
    /\ item.type = "message" =>
          Placed(item.id) /\ (~item.fromMe /\ item.id # NoId => Noted(item.id))
    /\ item.type = "edit" /\ announced.known =>
          Placed(item.id) /\ item.id # NoId /\ NewText(item.id)

IInv == TypeOK /\ TaskInv /\ OnceInv /\ LogInv /\ DoneInv /\ ToldInv

-----------------------------------------------------------------------------
\* Every nonempty set of naturals has a least element.
LEMMA LeastNumber ==
    ASSUME NEW T \in SUBSET Nat, T # {}
    PROVE  \E x \in T : \A y \in T : x <= y
<1> DEFINE Less == OpToRel(<, Nat)
<1>1. \A x, y \in Nat : x < y => <<x, y>> \in Less
  BY DEF OpToRel
<1>2. IsWellFoundedOn(Less, Nat)
  BY NatLessThanWellFounded
<1> HIDE DEF Less
<1>3. PICK x \in T : \A y \in T : ~(<<y, x>> \in Less)
  BY <1>2, WFMin
<1>4. ASSUME NEW y \in T PROVE x <= y
  <2>1. x \in Nat /\ y \in Nat
    OBVIOUS
  <2>2. ~(y < x)
    BY <1>1, <1>3, <2>1
  <2> QED BY <2>1, <2>2
<1> QED BY <1>4

-----------------------------------------------------------------------------
(* What parseMessage yields, and how the task of a handler changes. *)

\* An item that parseMessage yields is well formed.
LEMMA ItemsAre ==
    \A item \in Items :
        item \in Things /\ item.type # "skipped"
<1> SUFFICES ASSUME NEW raw \in Raw, Parsed(raw) # Skipped
             PROVE  Parsed(raw) \in Things /\ Parsed(raw).type # "skipped"
  BY DEF Items
<1>1. raw.id \in IdsOrNone /\ raw.key \in IdsOrNone /\ raw.fromMe \in BOOLEAN
  BY DEF Raw
<1> DEFINE Yields(type, id) == Parsed(raw) = [type |-> type, id |-> id, fromMe |-> raw.fromMe]
<1>2. \/ Yields("edit", raw.key) \/ Yields("revoke", raw.key)
      \/ Yields("edit", raw.id) \/ Yields("message", raw.id)
  BY DEF Parsed, Becomes
<1> QED BY <1>1, <1>2 DEF Things, Kinds

\* A handler that goes on to its next step keeps what it handles, and the others theirs.
LEMMA ContinuesIs ==
    ASSUME TaskInv, NEW h \in Handlers, NEW s \in Steps, Continues(h, s)
    PROVE  /\ task' \in [Handlers -> [item : Things, known : BOOLEAN, step : Steps]]
           /\ task'[h].item = task[h].item /\ task'[h].known = task[h].known /\ task'[h].step = s
           /\ \A g \in Handlers \ {h} : task'[g] = task[g]
BY DEF TaskInv, Continues

\* A handler that ends leaves the others as they are.
LEMMA RestsIs ==
    ASSUME TaskInv, NEW h \in Handlers, task' = [task EXCEPT ![h] = Resting]
    PROVE  /\ task' \in [Handlers -> [item : Things, known : BOOLEAN, step : Steps]]
           /\ task'[h].step = "rest"
           /\ \A g \in Handlers \ {h} : task'[g] = task[g]
<1>1. Resting \in [item : Things, known : BOOLEAN, step : Steps] /\ Resting.step = "rest"
  BY DEF Resting, Skipped, Things, Kinds, Steps, IdsOrNone
<1> HIDE DEF Resting
<1> QED BY <1>1 DEF TaskInv

\* A sequence, by its elements.
LEMMA SeqIs ==
    ASSUME NEW S
    PROVE  /\ \A s \in Seq(S) : \A i \in 1..Len(s) : s[i] \in S
           /\ \A k \in Nat : \A s :
                 s = [i \in 1..k |-> s[i]] /\ (\A i \in 1..k : s[i] \in S)
                    => s \in Seq(S) /\ Len(s) = k
<1>1. \A s \in Seq(S) : \A i \in 1..Len(s) : s[i] \in S
  OBVIOUS
<1>2. ASSUME NEW k \in Nat, NEW s, s = [i \in 1..k |-> s[i]], \A i \in 1..k : s[i] \in S
      PROVE  s \in Seq(S) /\ Len(s) = k
  <2>1. s \in [1..k -> S]
    BY <1>2
  <2> QED BY <2>1
<1> QED BY <1>1, <1>2

\* No message with an identifier is in the buffer twice, and what is in it was put there.
LEMMA BufferIs ==
    ASSUME TypeOK, OnceInv, LogInv
    PROVE  /\ \A i, j \in 1..Len(log) : log[i].id = log[j].id /\ log[i].id # NoId => i = j
           /\ \A id : InBuffer(id) => Placed(id) /\ id # NoId
           /\ Len(log) \in Nat /\ Len(stored) \in Nat /\ Len(log) <= Len(stored)
<1>1. /\ Len(log) \in Nat /\ Len(stored) \in Nat /\ Len(log) <= Len(stored)
  BY InboundAssumption DEF TypeOK, LogInv, Buffer!Kept
<1>2. ASSUME NEW i \in 1..Len(log)
      PROVE  Len(stored) + 1 - i \in 1..Len(stored) /\ log[i].id = stored[Len(stored) + 1 - i]
  BY <1>1 DEF LogInv
<1>3. ASSUME NEW i \in 1..Len(log), NEW j \in 1..Len(log), log[i].id = log[j].id,
             log[i].id # NoId
      PROVE  i = j
  <2>1. Len(stored) + 1 - i = Len(stored) + 1 - j
    BY <1>2, <1>3 DEF OnceInv
  <2> QED BY <1>1, <2>1
<1>4. ASSUME NEW id, InBuffer(id) PROVE Placed(id) /\ id # NoId
  BY <1>2, <1>4 DEF InBuffer, Placed
<1> QED BY <1>1, <1>3, <1>4

-----------------------------------------------------------------------------
(* The steps. *)

\* An empty buffer and idle handlers satisfy the invariant.
LEMMA InitIInv == Init => IInv
<1> SUFFICES ASSUME Init PROVE IInv
  OBVIOUS
<1>1. /\ arrived = 0 /\ log = <<>> /\ unread = NoId /\ settled = {} /\ stored = <<>>
      /\ task = [h \in Handlers |-> Resting] /\ announced = Event(Resting)
  BY DEF Init, Buffer!Init
<1>2. Resting \in [item : Things, known : BOOLEAN, step : Steps] /\ Resting.step = "rest"
  BY DEF Resting, Skipped, Things, Kinds, Steps, IdsOrNone
<1>3. Event(Resting) \in [item : Things, known : BOOLEAN] /\ Event(Resting).item.type = "skipped"
  BY DEF Event, Resting, Skipped, Things, Kinds, IdsOrNone
<1> HIDE DEF Resting, Event
<1>4. \A h \in Handlers : task[h].step = "rest"
  BY <1>1, <1>2
<1>5. TypeOK
  BY <1>1, <1>4, InboundAssumption DEF TypeOK, IdsOrNone
<1>6. TaskInv
  BY <1>1, <1>2, <1>3 DEF TaskInv
<1>7. OnceInv /\ LogInv
  BY <1>1, <1>4, InboundAssumption DEF OnceInv, LogInv, Bringing, Buffer!Kept
<1>8. DoneInv
  BY <1>4 DEF DoneInv, MustBeNoted
<1>9. ToldInv
  BY <1>1, <1>3 DEF ToldInv
<1> QED BY <1>5, <1>6, <1>7, <1>8, <1>9 DEF IInv

\* A restart of the process, which empties the buffer and the unread map, preserves it.
LEMMA RestartIInv == IInv /\ Restart => IInv'
<1> SUFFICES ASSUME IInv, Restart PROVE IInv'
  OBVIOUS
<1>1. /\ arrived' = arrived /\ log' = <<>> /\ unread' = NoId /\ settled' = {} /\ stored' = <<>>
      /\ task' = [h \in Handlers |-> Resting] /\ announced' = Event(Resting)
  BY DEF Restart, Buffer!Restart
<1>2. Resting \in [item : Things, known : BOOLEAN, step : Steps] /\ Resting.step = "rest"
  BY DEF Resting, Skipped, Things, Kinds, Steps, IdsOrNone
<1>3. Event(Resting) \in [item : Things, known : BOOLEAN] /\ Event(Resting).item.type = "skipped"
  BY DEF Event, Resting, Skipped, Things, Kinds, IdsOrNone
<1> HIDE DEF Resting, Event
<1>4. \A h \in Handlers : task'[h].step = "rest"
  BY <1>1, <1>2
<1>5. TypeOK'
  BY <1>1, <1>4, InboundAssumption DEF IInv, TypeOK, IdsOrNone
<1>6. TaskInv'
  BY <1>1, <1>2, <1>3 DEF TaskInv
<1>7. OnceInv' /\ LogInv'
  BY <1>1, <1>4, InboundAssumption DEF OnceInv, LogInv, Bringing, Buffer!Kept
<1>8. DoneInv'
  BY <1>4 DEF DoneInv, MustBeNoted
<1>9. ToldInv'
  BY <1>1, <1>3 DEF ToldInv
<1> QED BY <1>5, <1>6, <1>7, <1>8, <1>9 DEF IInv

\* A message that arrives is a new one; of an edit it is noted whether its message is
\* in the buffer, hence whether it was put there.
LEMMA ArrivesIInv == ASSUME IInv, NEW h \in Handlers, Arrives(h) PROVE IInv'
<1>1. PICK item \in Items :
        /\ IF item.type = "message"
             THEN /\ arrived < MaxMessages /\ arrived' = arrived + 1
                  /\ item.id \in {arrived + 1, NoId}
             ELSE UNCHANGED arrived
        /\ task' = [task EXCEPT ![h] =
                       [item |-> item, known |-> InBuffer(item.id), step |-> "store"]]
  BY DEF Arrives
<1>2. UNCHANGED <<log, unread, settled, announced, stored>>
  BY DEF Arrives
<1>3. item \in Things /\ item.type # "skipped"
  BY ItemsAre
<1>4. arrived \in 0..MaxMessages /\ arrived' \in 0..MaxMessages /\ arrived <= arrived'
  BY <1>1, InboundAssumption DEF IInv, TypeOK
<1> DEFINE k == InBuffer(item.id)
<1>5. k \in BOOLEAN
  BY DEF InBuffer
<1> HIDE DEF k
<1>6. /\ task' \in [Handlers -> [item : Things, known : BOOLEAN, step : Steps]]
      /\ task'[h].item = item /\ task'[h].known = k /\ task'[h].step = "store"
      /\ \A g \in Handlers \ {h} : task'[g] = task[g]
  BY <1>1, <1>3, <1>5 DEF IInv, TaskInv, Steps, k
<1>7. TypeOK'
  <2>1. \A g \in Handlers :
          /\ task'[g].step \in {"rest", "store", "note", "announce"}
          /\ task'[g].step = "note" => /\ task'[g].item.type = "message"
                                      /\ ~task'[g].item.fromMe /\ task'[g].item.id # NoId
    BY <1>6 DEF IInv, TypeOK
  <2> QED BY <1>2, <1>4, <2>1 DEF IInv, TypeOK
<1>8. TaskInv' /\ LogInv' /\ ToldInv'
  BY <1>2, <1>6 DEF IInv, TaskInv, LogInv, ToldInv, Placed, NewText, Noted
<1>9. OnceInv'
  <2>1. \A p \in 1..Len(stored) : stored[p] \in 0..arrived /\ stored[p] \in 0..arrived'
    BY <1>4 DEF IInv, OnceInv
  <2>2. ASSUME NEW g \in Handlers, NEW f \in Handlers \ {g}, Bringing(g)', Bringing(f)'
        PROVE  task'[g].item.id # task'[f].item.id
    <3>1. \A e \in Handlers \ {h} : Bringing(e)' => Bringing(e) /\ task[e].item.id \in 1..arrived
      BY <1>6 DEF IInv, OnceInv, Bringing
    <3>2. Bringing(h)' => task'[h].item.id = arrived + 1
      BY <1>1, <1>6 DEF Bringing
    <3>3. g # h /\ f # h => task[g].item.id # task[f].item.id
      BY <2>2, <3>1 DEF IInv, OnceInv
    <3> QED BY <1>4, <1>6, <2>2, <3>1, <3>2, <3>3
  <2>3. ASSUME NEW g \in Handlers, Bringing(g)'
        PROVE  task'[g].item.id \in 1..arrived' /\ ~Placed(task'[g].item.id)
    <3>1. CASE g = h
      <4>1. task'[g].item.id = arrived + 1 /\ arrived' = arrived + 1
        BY <1>1, <1>6, <2>3, <3>1 DEF Bringing
      <4> QED BY <1>4, <2>1, <4>1 DEF Placed
    <3>2. CASE g # h
      <4>1. task'[g] = task[g] /\ Bringing(g)
        BY <1>6, <2>3, <3>2 DEF Bringing
      <4> QED BY <1>4, <4>1 DEF IInv, OnceInv
    <3> QED BY <3>1, <3>2
  <2> QED BY <1>2, <2>1, <2>2, <2>3 DEF IInv, OnceInv, Placed
<1>10. DoneInv'
  <2>1. k => Placed(item.id) /\ item.id # NoId
    BY BufferIs DEF IInv, k
  <2>2. \A id : /\ (Placed(id)' <=> Placed(id)) /\ (NewText(id)' <=> NewText(id))
                /\ (Noted(id)' <=> Noted(id))
    BY <1>2 DEF Placed, NewText, Noted
  <2> HIDE DEF k
  <2> QED BY <1>2, <1>6, <2>1, <2>2 DEF IInv, DoneInv, MustBeNoted
<1> QED BY <1>7, <1>8, <1>9, <1>10 DEF IInv

\* A message that enters the buffer with an identifier is new to it, so it displaces the
\* oldest and brings back no text that an edit had replaced.
LEMMA StoresMessage ==
    ASSUME IInv, NEW h \in Handlers, Stores(h), task[h].item.type = "message"
    PROVE  IInv'
<1>0. PICK new : new = task[h].item.id
  OBVIOUS
<1>1. /\ task[h].step = "store" /\ Buffer!Append1(new, "first") /\ stored' = Append(stored, new)
      /\ UNCHANGED <<arrived, unread, settled, announced>>
  BY <1>0 DEF Stores
<1>2. \/ new = NoId
      \/ /\ new \in 1..arrived /\ ~Placed(new)
         /\ \A g \in Handlers \ {h} : Bringing(g) => task[g].item.id # new
  BY <1>0, <1>1 DEF IInv, OnceInv, Bringing
<1>3. arrived \in 0..MaxMessages /\ MaxMessages \in Nat /\ Capacity \in Nat \ {0} /\ new \in IdsOrNone
  BY <1>2, InboundAssumption DEF IInv, TypeOK, Ids, IdsOrNone
<1> DEFINE s == IF ~task[h].item.fromMe /\ task[h].item.id # NoId THEN "note" ELSE "announce"
<1>4. Continues(h, s)
  BY DEF Stores
<1>5. /\ task' \in [Handlers -> [item : Things, known : BOOLEAN, step : Steps]]
      /\ task'[h].item = task[h].item /\ task'[h].known = task[h].known /\ task'[h].step = s
      /\ \A g \in Handlers \ {h} : task'[g] = task[g]
  <2>1. s \in Steps
    BY DEF Steps
  <2> HIDE DEF s
  <2> QED BY <1>4, <2>1, ContinuesIs DEF IInv
<1>6. /\ Len(log) \in Nat /\ Len(stored) \in Nat
      /\ Len(log) = Buffer!Kept(Len(stored)) /\ Len(log) <= Capacity
      /\ stored \in Seq(IdsOrNone) /\ log \in Seq([id : IdsOrNone, text : Texts])
      /\ Len(log) <= Len(stored)
  BY BufferIs DEF IInv, TypeOK, LogInv
<1>7. /\ stored' \in Seq(IdsOrNone) /\ Len(stored') = Len(stored) + 1
      /\ stored'[Len(stored) + 1] = new
      /\ \A p \in 1..Len(stored) : stored'[p] = stored[p]
  BY <1>1, <1>3, <1>6
<1> DEFINE m == [id |-> new, text |-> "first"]
           l == Buffer!Kept(Len(log) + 1)
<1>8. log' = [i \in 1..l |-> IF i = 1 THEN m ELSE log[i - 1]]
  BY <1>1 DEF Buffer!Append1
<1>9. l \in 1..Capacity /\ l <= Len(log) + 1 /\ l = Buffer!Kept(Len(stored) + 1)
  BY <1>3, <1>6 DEF Buffer!Kept
<1> HIDE DEF l
<1>10. /\ log' \in Seq([id : IdsOrNone, text : Texts]) /\ Len(log') = l
       /\ log'[1] = m /\ \A i \in 2..l : i - 1 \in 1..Len(log) /\ log'[i] = log[i - 1]
  <2>1. m \in [id : IdsOrNone, text : Texts]
    BY <1>3 DEF Texts
  <2> HIDE DEF m
  <2>2. \A i \in 2..l : i - 1 \in 1..Len(log)
    BY <1>3, <1>6, <1>9
  <2>3. \A i \in 1..l : i = 1 \/ i \in 2..l
    BY <1>3, <1>9
  <2>4. \A i \in 1..Len(log) : log[i] \in [id : IdsOrNone, text : Texts]
    BY <1>6, SeqIs
  <2>5. ASSUME NEW i \in 1..l PROVE log'[i] \in [id : IdsOrNone, text : Texts]
    BY <1>8, <2>1, <2>2, <2>3, <2>4
  <2>6. log' = [i \in 1..l |-> log'[i]] /\ l \in Nat
    BY <1>3, <1>8, <1>9
  <2>7. log' \in Seq([id : IdsOrNone, text : Texts]) /\ Len(log') = l
    <3> DEFINE M == [id : IdsOrNone, text : Texts]
    <3>1. \A i \in 1..l : log'[i] \in M
      BY <2>5
    <3> HIDE DEF M
    <3>2. log' \in Seq(M) /\ Len(log') = l
      BY <2>6, <3>1, SeqIs
    <3> QED BY <3>2 DEF M
  <2>8. log'[1] = m /\ \A i \in 2..l : log'[i] = log[i - 1]
    BY <1>3, <1>8, <1>9
  <2> QED BY <2>2, <2>7, <2>8
<1>11. Placed(new)' /\ \A id : Placed(id)' <=> Placed(id) \/ id = new
  <2>1. Len(stored) + 1 \in 1..Len(stored')
    BY <1>6, <1>7
  <2>2. ASSUME NEW id PROVE Placed(id)' <=> Placed(id) \/ id = new
    <3>1. ASSUME Placed(id)' PROVE Placed(id) \/ id = new
      <4>1. PICK p \in 1..Len(stored') : stored'[p] = id
        BY <3>1 DEF Placed
      <4>2. p \in 1..Len(stored) \/ p = Len(stored) + 1
        BY <1>6, <1>7
      <4> QED BY <1>7, <4>1, <4>2 DEF Placed
    <3>2. ASSUME Placed(id) PROVE Placed(id)'
      <4>1. PICK p \in 1..Len(stored) : stored[p] = id
        BY <3>2 DEF Placed
      <4>2. p \in 1..Len(stored') /\ stored'[p] = id
        BY <1>6, <1>7, <4>1
      <4> QED BY <4>2 DEF Placed
    <3>3. id = new => Placed(id)'
      BY <1>7, <2>1 DEF Placed
    <3> QED BY <3>1, <3>2, <3>3
  <2>3. Placed(new)'
    BY <1>7, <2>1 DEF Placed
  <2> QED BY <2>2, <2>3
<1>12. ASSUME NEW id, id # new, NewText(id) PROVE NewText(id)'
  <2>1. ASSUME NEW i \in 1..Len(log'), log'[i].id = id PROVE log'[i].text = "edited"
    <3>1. i = 1 \/ i \in 2..l
      BY <1>9, <1>10
    <3>2. i # 1
      BY <1>10, <1>12, <2>1
    <3> QED BY <1>10, <1>12, <2>1, <3>1, <3>2 DEF NewText
  <2> QED BY <2>1 DEF NewText
<1>13. TypeOK'
  <2>1. \A g \in Handlers :
          /\ task'[g].step \in {"rest", "store", "note", "announce"}
          /\ task'[g].step = "note" => /\ task'[g].item.type = "message"
                                      /\ ~task'[g].item.fromMe /\ task'[g].item.id # NoId
    BY <1>5 DEF IInv, TypeOK
  <2> QED BY <1>1, <1>7, <1>9, <1>10, <2>1, <1>3 DEF IInv, TypeOK
<1>14. TaskInv'
  BY <1>1, <1>5 DEF IInv, TaskInv
<1>15. OnceInv'
  <2>1. ASSUME NEW p \in 1..Len(stored')
        PROVE  \/ /\ p \in 1..Len(stored) /\ stored'[p] = stored[p]
                  /\ new = NoId \/ stored[p] # new
               \/ p = Len(stored) + 1 /\ stored'[p] = new
    BY <1>2, <1>6, <1>7 DEF Placed
  <2>2. \A p \in 1..Len(stored') : stored'[p] \in 0..arrived
    BY <1>2, <1>3, <2>1 DEF IInv, OnceInv, NoId
  <2>3. \A p, q \in 1..Len(stored') : stored'[p] = stored'[q] /\ stored'[p] # NoId => p = q
    BY <2>1 DEF IInv, OnceInv
  <2>4. ~Bringing(h)' /\ \A g \in Handlers : g # h => (Bringing(g)' <=> Bringing(g))
    BY <1>5 DEF Bringing
  <2>5. ASSUME NEW g \in Handlers, Bringing(g)'
        PROVE  \E x : /\ x = task'[g].item.id /\ x \in 1..arrived /\ ~Placed(x)'
                     /\ \A f \in Handlers \ {g} : Bringing(f)' => task'[f].item.id # x
    <3>1. g # h /\ Bringing(g) /\ task'[g] = task[g]
      BY <1>5, <2>4, <2>5
    <3>0. PICK x : x = task[g].item.id
      OBVIOUS
    <3>2. /\ x \in 1..arrived /\ ~Placed(x)
          /\ x # new /\ x # NoId
          /\ \A f \in Handlers \ {g} : Bringing(f) => task[f].item.id # x
      BY <1>2, <3>0, <3>1 DEF IInv, OnceInv, Bringing
    <3>3. \A f \in Handlers \ {g} : Bringing(f)' => Bringing(f) /\ task'[f] = task[f]
      BY <1>5, <2>4
    <3>4. ~Placed(x)'
      BY <1>11, <3>2
    <3> QED BY <3>0, <3>1, <3>2, <3>3, <3>4
  <2> QED BY <1>1, <2>2, <2>3, <2>5 DEF OnceInv
<1>16. LogInv'
  <2>1. ASSUME NEW i \in 1..Len(log') PROVE log'[i].id = stored'[Len(stored') + 1 - i]
    <3>1. CASE i = 1
      <4>1. Len(stored') + 1 - i = Len(stored) + 1
        BY <1>6, <1>7, <3>1
      <4> QED BY <1>7, <1>10, <3>1, <4>1
    <3>2. CASE i # 1
      <4>1. i \in 2..l
        BY <1>9, <1>10, <3>2
      <4>2. i - 1 \in 1..Len(log) /\ log'[i] = log[i - 1]
        BY <1>10, <4>1
      <4>3. log[i - 1].id = stored[Len(stored) + 1 - (i - 1)]
        BY <4>2 DEF IInv, LogInv
      <4>4. /\ Len(stored) + 1 - (i - 1) \in 1..Len(stored)
            /\ Len(stored') + 1 - i = Len(stored) + 1 - (i - 1)
        BY <1>6, <1>7, <1>9, <4>1, <4>2
      <4> QED BY <1>7, <4>2, <4>3, <4>4
    <3> QED BY <3>1, <3>2
  <2> QED BY <1>7, <1>9, <1>10, <2>1 DEF LogInv
<1>17. DoneInv'
  <2>1. ASSUME NEW g \in Handlers, g # h, NEW t, t = task[g]
        PROVE  /\ t.step \in {"note", "announce"} /\ t.item.type = "message" => Placed(t.item.id)'
               /\ MustBeNoted(t) => Noted(t.item.id)'
               /\ t.step # "rest" /\ t.item.type = "edit" /\ t.known =>
                     Placed(t.item.id)' /\ t.item.id # NoId
               /\ t.step = "announce" /\ t.item.type = "edit" /\ t.known => NewText(t.item.id)'
    <3>1. t.step = "announce" => t.step # "rest"
      OBVIOUS
    <3>2. /\ Placed(t.item.id) => Placed(t.item.id)'
          /\ Placed(t.item.id) /\ t.item.id # NoId /\ NewText(t.item.id) => NewText(t.item.id)'
          /\ Noted(t.item.id)' <=> Noted(t.item.id)
      BY <1>1, <1>2, <1>11, <1>12 DEF Noted
    <3> QED BY <1>1, <2>1, <3>1, <3>2 DEF IInv, DoneInv
  <2>2. /\ task'[h].item.type = "message" /\ task'[h].item.id = new
        /\ task'[h].step = "announce" => task'[h].item.fromMe \/ new = NoId
    <3>1. CASE task[h].item.fromMe \/ task[h].item.id = NoId
      BY <1>0, <1>5, <3>1
    <3>2. CASE ~task[h].item.fromMe /\ task[h].item.id # NoId
      BY <1>0, <1>5, <3>2
    <3> QED BY <3>1, <3>2
  <2> QED BY <1>5, <1>11, <2>1, <2>2 DEF DoneInv, MustBeNoted
<1>18. ToldInv'
  BY <1>1, <1>2, <1>11, <1>12 DEF IInv, ToldInv, Noted
<1> QED BY <1>13, <1>14, <1>15, <1>16, <1>17, <1>18 DEF IInv

\* An edit gives its text to the message wherever it is in the buffer, and a
\* revocation changes nothing there.
LEMMA StoresOther ==
    ASSUME IInv, NEW h \in Handlers, Stores(h), task[h].item.type # "message"
    PROVE  IInv'
<1>0. PICK id : id = task[h].item.id
  OBVIOUS
<1>1. /\ task[h].step = "store" /\ Continues(h, "announce")
      /\ UNCHANGED <<arrived, unread, settled, announced, stored>>
      /\ \/ task[h].item.type = "edit" /\ Buffer!Edit(id, "edited")
         \/ task[h].item.type = "revoke" /\ log' = log
         \/ ~InBuffer(id) /\ log' = log
  BY <1>0 DEF Stores
<1>2. /\ task' \in [Handlers -> [item : Things, known : BOOLEAN, step : Steps]]
      /\ task'[h].item = task[h].item /\ task'[h].known = task[h].known
      /\ task'[h].step = "announce"
      /\ \A g \in Handlers \ {h} : task'[g] = task[g]
  <2>1. "announce" \in Steps
    BY DEF Steps
  <2> QED BY <1>1, <2>1, ContinuesIs DEF IInv
<1>3. log \in Seq([id : IdsOrNone, text : Texts])
  BY DEF IInv, TypeOK
<1>4. /\ log' \in Seq([id : IdsOrNone, text : Texts]) /\ Len(log') = Len(log)
      /\ \A i \in 1..Len(log) :
            /\ log'[i].id = log[i].id
            /\ log[i].text = "edited" => log'[i].text = "edited"
      /\ task[h].item.type = "edit" /\ id # NoId => NewText(id)'
  <2>1. CASE log' = log /\ (task[h].item.type = "revoke" \/ ~InBuffer(id))
    BY <1>3, <2>1 DEF NewText, InBuffer
  <2>2. CASE Buffer!Edit(id, "edited")
    <3>0. id # NoId
      BY <2>2 DEF Buffer!Edit
    <3>1. PICK i \in 1..Len(log) :
             log[i].id = id /\ log' = [log EXCEPT ![i] = [id |-> id, text |-> "edited"]]
      BY <2>2 DEF Buffer!Edit
    <3> DEFINE m == [id |-> id, text |-> "edited"]
    <3>2. m \in [id : IdsOrNone, text : Texts] /\ m.id = id /\ m.text = "edited"
      <4>1. log[i] \in [id : IdsOrNone, text : Texts]
        BY <1>3, SeqIs
      <4>2. id \in IdsOrNone
        BY <3>1, <4>1
      <4> QED BY <4>2 DEF Texts
    <3> HIDE DEF m
    <3>3. log' \in Seq([id : IdsOrNone, text : Texts]) /\ Len(log') = Len(log)
      BY <1>3, <3>1, <3>2 DEF m
    <3>4. \A j \in 1..Len(log) : log'[j] = IF j = i THEN m ELSE log[j]
      BY <1>3, <3>1 DEF m
    <3>5. \A j \in 1..Len(log) : log[j].id = id => j = i
      BY <3>0, <3>1, BufferIs DEF IInv
    <3> QED BY <3>1, <3>2, <3>3, <3>4, <3>5 DEF NewText
  <2> QED BY <1>1, <2>1, <2>2
<1>5. \A x : /\ (Placed(x)' <=> Placed(x)) /\ (NewText(x) => NewText(x)')
             /\ (Noted(x)' <=> Noted(x))
  BY <1>1, <1>4 DEF Placed, NewText, Noted
<1>6. TypeOK'
  <2>1. \A g \in Handlers :
          /\ task'[g].step \in {"rest", "store", "note", "announce"}
          /\ task'[g].step = "note" => /\ task'[g].item.type = "message"
                                      /\ ~task'[g].item.fromMe /\ task'[g].item.id # NoId
    BY <1>2 DEF IInv, TypeOK
  <2> QED BY <1>1, <1>4, <2>1 DEF IInv, TypeOK
<1>7. TaskInv'
  BY <1>1, <1>2 DEF IInv, TaskInv
<1>8. OnceInv'
  <2>1. \A g \in Handlers : Bringing(g)' => Bringing(g) /\ task'[g] = task[g]
    BY <1>2 DEF Bringing
  <2> QED BY <1>1, <1>5, <2>1 DEF IInv, OnceInv
<1>9. LogInv'
  BY <1>1, <1>4 DEF IInv, LogInv
<1>10. DoneInv'
  <2>1. ASSUME NEW g \in Handlers, g # h, NEW t, t = task[g]
        PROVE  /\ t.step \in {"note", "announce"} /\ t.item.type = "message" => Placed(t.item.id)'
               /\ MustBeNoted(t) => Noted(t.item.id)'
               /\ t.step # "rest" /\ t.item.type = "edit" /\ t.known =>
                     Placed(t.item.id)' /\ t.item.id # NoId
               /\ t.step = "announce" /\ t.item.type = "edit" /\ t.known => NewText(t.item.id)'
    BY <1>1, <1>5, <2>1 DEF IInv, DoneInv
  <2>2. /\ task'[h].item.type # "message" /\ task'[h].item.id = id
        /\ task'[h].item.type = "edit" /\ task'[h].known =>
              Placed(id)' /\ id # NoId /\ NewText(id)'
    BY <1>0, <1>1, <1>2, <1>4, <1>5 DEF IInv, DoneInv
  <2> QED BY <1>2, <2>1, <2>2 DEF DoneInv, MustBeNoted
<1>11. ToldInv'
  BY <1>1, <1>5 DEF IInv, ToldInv
<1> QED BY <1>6, <1>7, <1>8, <1>9, <1>10, <1>11 DEF IInv

\* The step on the buffer (Append, Update) preserves it.
LEMMA StoresIInv == ASSUME IInv, NEW h \in Handlers, Stores(h) PROVE IInv'
BY StoresMessage, StoresOther

\* The step of trackUnread preserves it.
LEMMA NotesIInv == ASSUME IInv, NEW h \in Handlers, Notes(h) PROVE IInv'
<1>1. /\ task[h].step = "note" /\ unread' = task[h].item.id /\ Continues(h, "announce")
      /\ settled' = settled \union ({unread} \ {NoId})
      /\ UNCHANGED <<arrived, log, announced, stored>>
  BY DEF Notes
<1>2. /\ task' \in [Handlers -> [item : Things, known : BOOLEAN, step : Steps]]
      /\ task'[h].item = task[h].item /\ task'[h].known = task[h].known
      /\ task'[h].step = "announce"
      /\ \A g \in Handlers \ {h} : task'[g] = task[g]
  <2>1. "announce" \in Steps
    BY DEF Steps
  <2> QED BY <1>1, <2>1, ContinuesIs DEF IInv
<1>3. /\ task[h].item.type = "message" /\ Placed(task[h].item.id)
      /\ task[h].item.id # NoId
  BY <1>1 DEF IInv, TypeOK, DoneInv
<1>4. unread' \in IdsOrNone /\ settled' \subseteq Ids
  <2>1. PICK p \in 1..Len(stored) : stored[p] = task[h].item.id
    BY <1>3 DEF Placed
  <2>2. unread' \in IdsOrNone
    BY <1>1, <2>1 DEF IInv, TypeOK
  <2> QED BY <1>1, <2>2 DEF IInv, TypeOK, IdsOrNone
<1>5. \A x : /\ (Placed(x)' <=> Placed(x)) /\ (NewText(x)' <=> NewText(x))
             /\ x # NoId /\ (Noted(x) \/ x = task[h].item.id) => Noted(x)'
  BY <1>1 DEF Placed, NewText, Noted
<1>6. TypeOK'
  <2>1. \A g \in Handlers :
          /\ task'[g].step \in {"rest", "store", "note", "announce"}
          /\ task'[g].step = "note" => /\ task'[g].item.type = "message"
                                      /\ ~task'[g].item.fromMe /\ task'[g].item.id # NoId
    BY <1>2 DEF IInv, TypeOK
  <2> QED BY <1>1, <1>4, <2>1 DEF IInv, TypeOK
<1>7. OnceInv'
  <2>1. \A g \in Handlers : Bringing(g)' => Bringing(g) /\ task'[g] = task[g]
    BY <1>2 DEF Bringing
  <2> QED BY <1>1, <1>5, <2>1 DEF IInv, OnceInv
<1>8. TaskInv' /\ LogInv' /\ ToldInv'
  BY <1>1, <1>2, <1>4, <1>5 DEF IInv, TaskInv, LogInv, ToldInv
<1>9. DoneInv'
  <2>1. ASSUME NEW g \in Handlers, g # h, NEW t, t = task[g]
        PROVE  /\ t.step \in {"note", "announce"} /\ t.item.type = "message" => Placed(t.item.id)'
               /\ MustBeNoted(t) => Noted(t.item.id)'
               /\ t.step # "rest" /\ t.item.type = "edit" /\ t.known =>
                     Placed(t.item.id)' /\ t.item.id # NoId
               /\ t.step = "announce" /\ t.item.type = "edit" /\ t.known => NewText(t.item.id)'
    BY <1>5, <2>1 DEF IInv, DoneInv, MustBeNoted
  <2>2. PICK id : id = task[h].item.id
    OBVIOUS
  <2>3. task'[h].item.type = "message" /\ task'[h].item.id = id /\ Placed(id)'
    BY <1>2, <1>3, <1>5, <2>2
  <2> QED BY <1>2, <1>5, <2>1, <2>3 DEF DoneInv, MustBeNoted
<1> QED BY <1>6, <1>7, <1>8, <1>9 DEF IInv

\* The step of the webhook's Enqueue preserves it.
LEMMA AnnouncesIInv == ASSUME IInv, NEW h \in Handlers, Announces(h) PROVE IInv'
<1>1. /\ task[h].step = "announce" /\ task' = [task EXCEPT ![h] = Resting]
      /\ announced' = announced \/ announced' = Event(task[h])
      /\ UNCHANGED <<arrived, log, unread, settled, stored>>
  BY DEF Announces
<1>2. /\ task' \in [Handlers -> [item : Things, known : BOOLEAN, step : Steps]]
      /\ task'[h].step = "rest"
      /\ \A g \in Handlers \ {h} : task'[g] = task[g]
  BY <1>1, RestsIs DEF IInv
<1>3. \A x : /\ (Placed(x)' <=> Placed(x)) /\ (NewText(x)' <=> NewText(x))
             /\ (Noted(x)' <=> Noted(x))
  BY <1>1 DEF Placed, NewText, Noted
<1>4. TypeOK'
  <2>1. \A g \in Handlers :
          /\ task'[g].step \in {"rest", "store", "note", "announce"}
          /\ task'[g].step = "note" => /\ task'[g].item.type = "message"
                                      /\ ~task'[g].item.fromMe /\ task'[g].item.id # NoId
    BY <1>2 DEF IInv, TypeOK
  <2> QED BY <1>1, <2>1 DEF IInv, TypeOK
<1>5. OnceInv'
  <2>1. \A g \in Handlers : Bringing(g)' => Bringing(g) /\ task'[g] = task[g]
    BY <1>2 DEF Bringing
  <2> QED BY <1>1, <1>3, <2>1 DEF IInv, OnceInv
<1>6. LogInv'
  BY <1>1 DEF IInv, LogInv
<1>7. TaskInv'
  BY <1>1, <1>2 DEF IInv, TaskInv, Event
<1>8. DoneInv'
  <2>1. ASSUME NEW g \in Handlers, g # h, NEW t, t = task[g]
        PROVE  /\ t.step \in {"note", "announce"} /\ t.item.type = "message" => Placed(t.item.id)'
               /\ MustBeNoted(t) => Noted(t.item.id)'
               /\ t.step # "rest" /\ t.item.type = "edit" /\ t.known =>
                     Placed(t.item.id)' /\ t.item.id # NoId
               /\ t.step = "announce" /\ t.item.type = "edit" /\ t.known => NewText(t.item.id)'
    BY <1>1, <1>3, <2>1 DEF IInv, DoneInv, MustBeNoted
  <2> QED BY <1>2, <2>1 DEF DoneInv, MustBeNoted
<1>9. ToldInv'
  <2>1. CASE announced' = announced
    BY <1>1, <1>3, <2>1 DEF IInv, ToldInv
  <2>2. CASE announced' = Event(task[h])
    <3>1. announced'.item = task[h].item /\ announced'.known = task[h].known
      BY <2>2 DEF Event
    <3> QED BY <1>1, <1>3, <3>1 DEF IInv, DoneInv, ToldInv, MustBeNoted
  <2> QED BY <1>1, <2>1, <2>2
<1> QED BY <1>4, <1>5, <1>6, <1>7, <1>8, <1>9 DEF IInv

\* The locked section of markChatRead, which settles what was unread, preserves it.
LEMMA AcknowledgesIInv == IInv /\ Acknowledges => IInv'
<1> SUFFICES ASSUME IInv, Acknowledges PROVE IInv'
  OBVIOUS
<1>1. /\ unread' = NoId /\ settled' = settled \union {unread} /\ unread # NoId
      /\ UNCHANGED <<arrived, log, task, announced, stored>>
  BY DEF Acknowledges
<1>2. \A x : /\ (Placed(x)' <=> Placed(x)) /\ (NewText(x)' <=> NewText(x))
             /\ Noted(x) => Noted(x)'
  BY <1>1 DEF Placed, NewText, Noted
<1>3. TypeOK'
  BY <1>1 DEF IInv, TypeOK, IdsOrNone
<1>4. TaskInv' /\ OnceInv' /\ LogInv'
  BY <1>1 DEF IInv, TaskInv, OnceInv, LogInv, Bringing, Placed
<1>5. DoneInv' /\ ToldInv'
  BY <1>1, <1>2 DEF IInv, DoneInv, ToldInv
<1> QED BY <1>3, <1>4, <1>5 DEF IInv

\* Every step of the handlers and of the worker, and a restart, preserves it.
LEMMA StepIInv == IInv /\ [Next]_vars => IInv'
<1> SUFFICES ASSUME IInv, [Next]_vars PROVE IInv'
  OBVIOUS
<1>1. ASSUME NEW h \in Handlers, Step(h) PROVE IInv'
  BY <1>1, ArrivesIInv, StoresIInv, NotesIInv, AnnouncesIInv DEF Step
<1>2. CASE Restart
  BY <1>2, RestartIInv
<1>3. CASE UNCHANGED vars
  BY <1>3 DEF vars, IInv, TypeOK, TaskInv, OnceInv, LogInv, DoneInv, ToldInv,
              Bringing, Placed, NewText, Noted
<1> QED BY <1>1, <1>2, <1>3, AcknowledgesIInv DEF Next

-----------------------------------------------------------------------------
(* The theorems. *)

\* What onMessage has stored, noted and announced stays consistent, whatever its handlers
\* interleave (onMessage, trackUnread, Append, Update).
THEOREM Invariance == Spec => []IInv
  BY InitIInv, StepIInv, PTL DEF Spec

\* Types, a buffer within its capacity, and only messages of others that have an identifier
\* noted as unread (onMessage).
THEOREM TypeCorrect == Spec => []TypeOK
  BY Invariance, PTL DEF IInv

\* Place finds a message that was put into the buffer.
LEMMA PlaceIs ==
    ASSUME TypeOK, NEW id, Placed(id)
    PROVE  id \in ToSet(stored) /\ Place(id) \in 1..Len(stored) /\ stored[Place(id)] = id
<1> DEFINE I == {i \in 1..Len(stored) : stored[i] = id}
<1>1. PICK p \in 1..Len(stored) : stored[p] = id
  BY DEF Placed
<1>2. stored \in Seq(IdsOrNone)
  BY DEF TypeOK
<1>3. id \in ToSet(stored)
  BY <1>1, <1>2 DEF ToSet
<1>4. I \in SUBSET Nat /\ I # {}
  BY <1>1, <1>2
<1>5. Place(id) = CHOOSE x \in I : \A y \in I : x <= y
  BY <1>4 DEF Place, SelectInSeq, Min
<1> HIDE DEF I
<1>6. \E x \in I : \A y \in I : x <= y
  BY <1>4, LeastNumber
<1>7. Place(id) \in I
  BY <1>5, <1>6
<1> QED BY <1>3, <1>7 DEF I

\* What the webhook is told of is there when its receiver asks or replies: onMessage
\* stores and notes a message before it announces it, whatever arrives in between only
\* displaces it by newer messages, and it stays unread until a reply acknowledges it or
\* another message of the sender takes its place.
THEOREM AnnouncedIsThere == Spec => []WebhookBacked
<1>1. IInv => WebhookBacked
  <2> SUFFICES ASSUME IInv PROVE WebhookBacked
    OBVIOUS
  <2> DEFINE item == announced.item
  <2>1. ASSUME item.type = "message", item.id # NoId
        PROVE  InBuffer(item.id) \/ Newer(item.id) >= Capacity
    <3>1. Placed(item.id)
      BY <2>1 DEF IInv, ToldInv
    <3>2. Place(item.id) \in 1..Len(stored) /\ stored[Place(item.id)] = item.id
      BY <3>1, PlaceIs DEF IInv
    <3> DEFINE i == Len(stored) + 1 - Place(item.id)
    <3>3. Len(log) \in Nat /\ Len(stored) \in Nat /\ Capacity \in Nat
      BY BufferIs, InboundAssumption DEF IInv
    <3>4. CASE Newer(item.id) < Capacity
      <4>1. i \in 1..Len(log) /\ Len(stored) + 1 - i = Place(item.id)
        BY <3>2, <3>3, <3>4 DEF IInv, LogInv, Newer, Buffer!Kept
      <4> HIDE DEF i
      <4>2. log[i].id = item.id
        BY <3>2, <4>1 DEF IInv, LogInv
      <4> QED BY <2>1, <4>1, <4>2 DEF InBuffer
    <3>5. CASE ~(Newer(item.id) < Capacity)
      BY <3>2, <3>3, <3>5 DEF Newer
    <3> QED BY <3>4, <3>5
  <2>2. item.type = "message" /\ item.id # NoId =>
           item.id \in ToSet(stored) /\ (~item.fromMe => Noted(item.id))
    BY PlaceIs DEF IInv, ToldInv
  <2>3. item.type = "edit" /\ announced.known =>
           \A i \in 1..Len(log) : log[i].id = item.id => log[i].text = "edited"
    BY DEF IInv, ToldInv, NewText
  <2> QED BY <2>1, <2>2, <2>3 DEF WebhookBacked
<1> QED BY <1>1, Invariance, PTL
==============================================================================
