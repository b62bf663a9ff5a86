---------------------------- MODULE ManagerProofs ----------------------------
(***************************************************************************)
(* Proofs about the manager for every number of calls, of each kind, and     *)
(* any of them failing or cut short by a crash: one session at work, a      *)
(* shutdown that leaves no worker, and three stores that agree at rest.     *)
(***************************************************************************)
EXTENDS Manager, TLAPS

Deleting  == {"stopping", "waiting", "unlisting", "unmapping"}
Updating  == {"writing", "setting"}
UnderWay(j) == pairing[j] \in {"paired", "recorded"}

\* Each call goes through its own control points, knows the object it looked up, and its
\* object has a worker from the moment it is in the map; a Delete has closed done before
\* it waits.
CallInv ==
    /\ \A c \in Creates :
          /\ pc[c] \in {"new", "mapping", "starting"} \union Results
          /\ pc[c] \in {"new", "mapping"} => worker[c] = "unborn"
          /\ pc[c] = "starting" => worker[c] = "new"
    /\ \A d \in Deletes :
          /\ pc[d] \in {"new"} \union Deleting \union Results
          /\ pc[d] = "new" => target[d] = None
          /\ pc[d] \in Deleting => target[d] # None
          /\ pc[d] \in Deleting \ {"stopping"} => target[d] \in done
    /\ \A u \in Updates :
          /\ pc[u] \in {"new"} \union Updating \union Results
          /\ pc[u] \in Updating => target[u] # None

\* What is not in memory yet, or no longer.
MemoryInv ==
    /\ \A o \in Objects :
          /\ worker[o] = "unborn" => jid[o] = None /\ o \notin done
          /\ worker[o] = "new" => o \in Creates /\ pc[o] = "starting"
    /\ \A j \in Devices :
          /\ owner[j] # None => worker[owner[j]] # "unborn" /\ pairing[j] \notin {"new", "gone"}
          /\ UnderWay(j) => owner[j] # None
          /\ pairing[j] = "new" =>
                j \notin devices /\ (row # None => row.jid # j) /\ \A o \in Objects : jid[o] # j
    /\ current # None => worker[current] # "unborn"
    /\ \A c \in DOMAIN target : target[c] # None => worker[target[c]] # "unborn"
    /\ mode = "down" =>
          /\ current = None /\ ~overlap
          /\ \A c \in Calls : Idle(c)
          /\ \A o \in Objects : worker[o] = "unborn"

\* No two Deletes have looked up the same session.
DistinctTargets ==
    \A d, e \in Deletes : target[d] = target[e] /\ target[d] # None => d = e

\* Then nothing but the Delete under way takes its session out of the map, and a session
\* that nobody has stopped is in it.
WorkInv ==
    DistinctTargets =>
        /\ \A d \in Deletes : pc[d] \in Deleting => target[d] = current
        /\ \A o \in Objects : worker[o] \in {"new", "running"} /\ o \notin done => o = current

\* The process is up and calls have been made one after the other so far.
Serial == mode # "down" /\ ~overlap

\* One thing at a time, and on the session in the map.
SerialInv ==
    Serial =>
        /\ \A b, c \in Calls : ~Idle(b) /\ ~Idle(c) => b = c
        /\ \A j \in Devices : UnderWay(j) =>
              /\ owner[j] = current /\ (pairing[j] = "recorded" => jid[current] = j)
              /\ \A i \in Devices : UnderWay(i) => i = j
              /\ \A c \in Calls : Idle(c)
        /\ mode # "serving" => Quiet /\ target[Closing] = current
        /\ \A d \in Deletes :
              /\ pc[d] \in Deleting => target[d] = current
              /\ pc[d] \in {"unlisting", "unmapping"} => worker[current] # "running"
        /\ \A u \in Updates : pc[u] \in Updating => target[u] = current
        /\ \A o \in Objects : worker[o] \in {"new", "running"} => o = current
        /\ mode = "closed" => \A o \in Objects : worker[o] # "running"

\* The row agrees with the session in the map, but for what the call under way, or the
\* pairing, is about to write.
RowInv ==
    Serial =>
        /\ \A c \in Creates : pc[c] = "mapping" =>
              current = None /\ row = [jid |-> None, url |-> c]
        /\ \A d \in Deletes : pc[d] = "unmapping" => row = None
        /\ current = None =>
              row = None \/ \E c \in Creates : pc[c] = "mapping"
        /\ current # None /\ (\A d \in Deletes : pc[d] # "unmapping") =>
              /\ row # None
              /\ \/ row.jid = jid[current]
                 \/ \E j \in Devices : jid[current] = j /\ pairing[j] \in {"recorded", "unsaved"}
              /\ row.url = url[current] \/ \E u \in Updates : pc[u] = "setting"
              /\ \A u \in Updates : pc[u] = "setting" => row.url = u
        /\ mode = "serving" /\ current # None
             /\ (\A d \in Deletes : pc[d] \notin Deleting \ {"stopping"} /\ pc[d] # "failed") =>
              current \notin done /\ worker[current] \in {"new", "running"}

\* The device store has at most the device of the session in the map, the one it is being
\* paired as, and those whose session was paired again.
DeviceInv ==
    /\ mode = "down" /\ ~strays =>
          devices \subseteq replaced \union (IF row = None THEN {} ELSE {row.jid})
    /\ Serial /\ ~strays =>
          /\ current = None => devices \subseteq replaced
          /\ current # None => \A j \in devices :
                j \in replaced \/ j = jid[current] \/ pairing[j] = "paired"
          /\ \A d \in Deletes : pc[d] \in {"unlisting", "unmapping"} => devices \subseteq replaced

IInv ==
    /\ TypeOK /\ CallInv /\ MemoryInv
    /\ WorkInv /\ SerialInv /\ RowInv /\ DeviceInv

-----------------------------------------------------------------------------
(* The invariant is inductive. *)

\* Writing a field of the row leaves the other one.
LEMMA RowFields ==
    ASSUME TypeOK, row # None
    PROVE  /\ \A u \in Updates : LET new == [row EXCEPT !.url = u] IN
                 new \in Rows /\ new.url = u /\ new.jid = row.jid
           /\ \A j \in Devices : LET new == [row EXCEPT !.jid = j] IN
                 new \in Rows /\ new.jid = j /\ new.url = row.url
<1>1. PICK j \in Devices \union {None}, w \in Creates \union Updates \union {None} :
          row = [jid |-> j, url |-> w]
  BY DEF TypeOK, Rows
<1> QED BY <1>1 DEF Rows

\* It holds at the start: there is nothing in memory, and nothing stored.
LEMMA InitInv == Init => IInv
<1> SUFFICES ASSUME Init PROVE IInv
  OBVIOUS
<1> USE ManagerAssumption DEF Init, Nowhere, Calls, Objects, Results, Closing
<1>1. TypeOK /\ CallInv
  BY DEF TypeOK, Rows, CallInv, Deleting, Updating
<1>2. MemoryInv /\ WorkInv
  BY DEF MemoryInv, UnderWay, Idle, WorkInv, DistinctTargets, Deleting
<1>3. SerialInv /\ RowInv /\ DeviceInv
  BY DEF SerialInv, RowInv, DeviceInv, Serial
<1> QED BY <1>1, <1>2, <1>3 DEF IInv

\* Every write stays in its type; a Delete and an Update under way have an object.
LEMMA StepTypeOK ==
    ASSUME IInv, Next PROVE TypeOK'
<1> USE ManagerAssumption, RowFields
    DEF IInv, TypeOK, CallInv, Deleting, Updating, Calls, Objects, Results, Closing, deviceVars,
        objectVars, pairingVars, Rows
<1>1. ASSUME NEW c \in Creates, CreateRow(c) PROVE TypeOK'
  BY <1>1 DEF CreateRow, Begins, Runs, Fails, Goes, Idle, Quiet
<1>2. ASSUME NEW c \in Creates, CreateMap(c) PROVE TypeOK'
  BY <1>2 DEF CreateMap, Goes
<1>3. ASSUME NEW c \in Creates, CreateStarts(c) PROVE TypeOK'
  BY <1>3 DEF CreateStarts, Goes
<1>4. ASSUME NEW d \in Deletes, DeleteLooksUp(d) PROVE TypeOK'
  BY <1>4 DEF DeleteLooksUp, Begins, Goes, Idle, Quiet
<1>5. ASSUME NEW d \in Deletes, DeleteSignals(d) PROVE TypeOK'
  BY <1>5 DEF DeleteSignals, Goes
<1>6. ASSUME NEW d \in Deletes, DeleteWaited(d) PROVE TypeOK'
  BY <1>6 DEF DeleteWaited, DeleteDevice, Runs, Goes
<1>7. ASSUME NEW d \in Deletes, DeleteRow(d) PROVE TypeOK'
  BY <1>7 DEF DeleteRow, Runs, Fails, Goes
<1>8. ASSUME NEW d \in Deletes, DeleteUnmaps(d) PROVE TypeOK'
  BY <1>8 DEF DeleteUnmaps, Goes
<1>9. ASSUME NEW u \in Updates, UpdateLooksUp(u) PROVE TypeOK'
  BY <1>9 DEF UpdateLooksUp, Begins, Goes, Idle, Quiet
<1>10. ASSUME NEW u \in Updates, UpdateWrites(u) PROVE TypeOK'
  BY <1>10 DEF UpdateWrites, Runs, Fails, Goes
<1>11. ASSUME NEW u \in Updates, UpdateSets(u) PROVE TypeOK'
  BY <1>11 DEF UpdateSets, Goes
<1>12. ASSUME NEW o \in Objects, WorkerExits(o) PROVE TypeOK'
  BY <1>12 DEF WorkerExits
<1>13. ASSUME NEW o \in Objects, NEW j \in Devices, Pairs(j, o) PROVE TypeOK'
  BY <1>13 DEF Pairs, Runs, Idle, Quiet
<1>14. ASSUME NEW j \in Devices, Records(j) PROVE TypeOK'
  BY <1>14 DEF Records
<1>15. ASSUME NEW j \in Devices, Saves(j) PROVE TypeOK'
  BY <1>15 DEF Saves
<1>16. ASSUME NEW j \in Devices, Unlinks(j) PROVE TypeOK'
  BY <1>16 DEF Unlinks, Runs
<1>17. CASE Start
  <2>1. /\ mode = "down" /\ \A j \in Devices : pairing[j] # "paired" /\ owner[j] = None
    BY <1>17 DEF Start, MemoryInv, UnderWay
  <2>2. /\ pairing' \in [Devices -> {"new", "paired", "recorded", "saved", "unsaved", "gone"}]
        /\ owner' \in [Devices -> Objects \union {None}]
        /\ \A j \in Devices : pairing'[j] # "paired"
    BY <1>17, <2>1 DEF Start
  <2>3. ASSUME row # None
        PROVE  row.jid \in Devices \union {None} /\ row.url \in Creates \union Updates \union {None}
    <3>1. row \in Rows
      BY <2>3
    <3> QED BY <3>1
  <2>4. /\ jid' \in [Objects -> Devices \union {None}]
        /\ url' \in [Objects -> Creates \union Updates \union {None}]
        /\ worker' \in [Objects -> {"unborn", "new", "running", "exited"}]
        /\ current' \in Objects \union {None} /\ mode' = "serving"
    BY <1>17, <2>3 DEF Start
  <2> QED BY <1>17, <2>2, <2>4 DEF Start
<1>18. CASE Crash
  BY <1>18 DEF Crash, Nowhere
<1>19. CASE CloseBegins
  BY <1>19 DEF CloseBegins, Idle, Quiet
<1>20. CASE CloseEnds
  BY <1>20 DEF CloseEnds
<1> QED BY <1>1, <1>2, <1>3, <1>4, <1>5, <1>6, <1>7, <1>8, <1>9, <1>10, <1>11, <1>12, <1>13, <1>14,
    <1>15, <1>16, <1>17, <1>18, <1>19, <1>20
    DEF Next, Create, Delete, Update

\* A call moves from one of its control points to the next and keeps what it looked up;
\* a crash sends every call that has begun to "lost".
LEMMA StepCallInv ==
    ASSUME IInv, Next PROVE CallInv'
<1> USE ManagerAssumption
    DEF IInv, TypeOK, CallInv, Deleting, Updating, Calls, Objects, Results, Closing, deviceVars,
        objectVars, pairingVars
<1>1. ASSUME NEW c \in Creates, CreateRow(c) PROVE CallInv'
  BY <1>1 DEF CreateRow, Begins, Runs, Fails, Goes, Idle, Quiet
<1>2. ASSUME NEW c \in Creates, CreateMap(c) PROVE CallInv'
  BY <1>2 DEF CreateMap, Goes
<1>3. ASSUME NEW c \in Creates, CreateStarts(c) PROVE CallInv'
  BY <1>3 DEF CreateStarts, Goes
<1>4. ASSUME NEW d \in Deletes, DeleteLooksUp(d) PROVE CallInv'
  BY <1>4 DEF DeleteLooksUp, Begins, Goes, Idle, Quiet
<1>5. ASSUME NEW d \in Deletes, DeleteSignals(d) PROVE CallInv'
  BY <1>5 DEF DeleteSignals, Goes
<1>6. ASSUME NEW d \in Deletes, DeleteWaited(d) PROVE CallInv'
  BY <1>6 DEF DeleteWaited, DeleteDevice, Runs, Goes
<1>7. ASSUME NEW d \in Deletes, DeleteRow(d) PROVE CallInv'
  BY <1>7 DEF DeleteRow, Runs, Fails, Goes
<1>8. ASSUME NEW d \in Deletes, DeleteUnmaps(d) PROVE CallInv'
  BY <1>8 DEF DeleteUnmaps, Goes
<1>9. ASSUME NEW u \in Updates, UpdateLooksUp(u) PROVE CallInv'
  BY <1>9 DEF UpdateLooksUp, Begins, Goes, Idle, Quiet
<1>10. ASSUME NEW u \in Updates, UpdateWrites(u) PROVE CallInv'
  BY <1>10 DEF UpdateWrites, Runs, Fails, Goes
<1>11. ASSUME NEW u \in Updates, UpdateSets(u) PROVE CallInv'
  BY <1>11 DEF UpdateSets, Goes
<1>12. ASSUME NEW o \in Objects, WorkerExits(o) PROVE CallInv'
  BY <1>12 DEF WorkerExits
<1>13. ASSUME NEW o \in Objects, NEW j \in Devices, Pairs(j, o) PROVE CallInv'
  BY <1>13 DEF Pairs, Runs, Idle, Quiet
<1>14. ASSUME NEW j \in Devices, Records(j) PROVE CallInv'
  BY <1>14 DEF Records
<1>15. ASSUME NEW j \in Devices, Saves(j) PROVE CallInv'
  BY <1>15 DEF Saves
<1>16. ASSUME NEW j \in Devices, Unlinks(j) PROVE CallInv'
  BY <1>16 DEF Unlinks, Runs
<1>17. CASE Start
  BY <1>17 DEF Start
<1>18. CASE Crash
  BY <1>18 DEF Crash, Nowhere
<1>19. CASE CloseBegins
  BY <1>19 DEF CloseBegins, Idle, Quiet
<1>20. CASE CloseEnds
  BY <1>20 DEF CloseEnds
<1> QED BY <1>1, <1>2, <1>3, <1>4, <1>5, <1>6, <1>7, <1>8, <1>9, <1>10, <1>11, <1>12, <1>13, <1>14,
    <1>15, <1>16, <1>17, <1>18, <1>19, <1>20
    DEF Next, Create, Delete, Update

\* An object comes to memory with its worker, and a crash takes all of them at once.
LEMMA StepMemoryInv ==
    ASSUME IInv, Next PROVE MemoryInv'
<1> USE ManagerAssumption
    DEF IInv, TypeOK, CallInv, Deleting, Updating, Calls, Objects, Results, Closing, deviceVars,
        objectVars, pairingVars, MemoryInv, UnderWay, Idle, Begins
<1>1. ASSUME NEW c \in Creates, CreateRow(c) PROVE MemoryInv'
  BY <1>1 DEF CreateRow, Runs, Fails, Goes, Quiet
<1>2. ASSUME NEW c \in Creates, CreateMap(c) PROVE MemoryInv'
  BY <1>2 DEF CreateMap, Goes
<1>3. ASSUME NEW c \in Creates, CreateStarts(c) PROVE MemoryInv'
  BY <1>3 DEF CreateStarts, Goes
<1>4. ASSUME NEW d \in Deletes, DeleteLooksUp(d) PROVE MemoryInv'
  BY <1>4 DEF DeleteLooksUp, Goes, Quiet
<1>5. ASSUME NEW d \in Deletes, DeleteSignals(d) PROVE MemoryInv'
  BY <1>5 DEF DeleteSignals, Goes
<1>6. ASSUME NEW d \in Deletes, DeleteWaited(d) PROVE MemoryInv'
  BY <1>6 DEF DeleteWaited, DeleteDevice, Runs, Goes
<1>7. ASSUME NEW d \in Deletes, DeleteRow(d) PROVE MemoryInv'
  BY <1>7 DEF DeleteRow, Runs, Fails, Goes
<1>8. ASSUME NEW d \in Deletes, DeleteUnmaps(d) PROVE MemoryInv'
  BY <1>8 DEF DeleteUnmaps, Goes
<1>9. ASSUME NEW u \in Updates, UpdateLooksUp(u) PROVE MemoryInv'
  BY <1>9 DEF UpdateLooksUp, Goes, Quiet
<1>10. ASSUME NEW u \in Updates, UpdateWrites(u) PROVE MemoryInv'
  <2>1. row' # None => row # None /\ row'.jid = row.jid
    <3>1. CASE row' = row
      BY <3>1
    <3>2. CASE row # None /\ row' = [row EXCEPT !.url = u]
      BY <3>2, RowFields
    <3> QED BY <1>10, <3>1, <3>2 DEF UpdateWrites, Fails
  <2>2. /\ pc[u] = "writing" /\ \E to \in {"not_found", "setting", "failed"} : pc' = [pc EXCEPT ![u] = to]
        /\ UNCHANGED <<devices, mode, current, jid, worker, done, pairing, owner, target, overlap>>
    BY <1>10 DEF UpdateWrites, Fails, Goes
  <2> QED BY <2>1, <2>2
<1>11. ASSUME NEW u \in Updates, UpdateSets(u) PROVE MemoryInv'
  BY <1>11 DEF UpdateSets, Goes
<1>12. ASSUME NEW o \in Objects, WorkerExits(o) PROVE MemoryInv'
  BY <1>12 DEF WorkerExits
<1>13. ASSUME NEW o \in Objects, NEW j \in Devices, Pairs(j, o) PROVE MemoryInv'
  BY <1>13 DEF Pairs, Runs, Quiet
<1>14. ASSUME NEW j \in Devices, Records(j) PROVE MemoryInv'
  BY <1>14 DEF Records
<1>15. ASSUME NEW j \in Devices, Saves(j) PROVE MemoryInv'
  <2>1. row' # None => row # None /\ row'.jid \in {row.jid, j}
    <3>1. CASE row' = row
      BY <3>1
    <3>2. CASE row # None /\ row' = [row EXCEPT !.jid = j]
      BY <3>2, RowFields
    <3> QED BY <1>15, <3>1, <3>2 DEF Saves
  <2>2. /\ pairing[j] = "recorded"
        /\ \E to \in {"saved", "unsaved"} : pairing' = [pairing EXCEPT ![j] = to]
        /\ UNCHANGED <<devices, mode, current, jid, worker, done, owner, pc, target, overlap>>
    BY <1>15 DEF Saves
  <2>3. \A i \in Devices : pairing'[i] = "new" => pairing[i] = "new" /\ i # j
    BY <2>2
  <2> QED BY <2>1, <2>2, <2>3
<1>16. ASSUME NEW j \in Devices, Unlinks(j) PROVE MemoryInv'
  BY <1>16 DEF Unlinks, Runs
<1>17. CASE Start
  BY <1>17 DEF Start
<1>18. CASE Crash
  BY <1>18 DEF Crash, Nowhere
<1>19. CASE CloseBegins
  BY <1>19 DEF CloseBegins, Quiet
<1>20. CASE CloseEnds
  BY <1>20 DEF CloseEnds
<1> QED BY <1>1, <1>2, <1>3, <1>4, <1>5, <1>6, <1>7, <1>8, <1>9, <1>10, <1>11, <1>12, <1>13, <1>14,
    <1>15, <1>16, <1>17, <1>18, <1>19, <1>20
    DEF Next, Create, Delete, Update

\* What takes the session out of the map is the one Delete that looked it up, and by then
\* it has closed its done; a Create enters the map only when it is empty.
LEMMA StepWorkInv ==
    ASSUME IInv, Next PROVE WorkInv'
<1> USE ManagerAssumption
    DEF IInv, TypeOK, CallInv, Deleting, Updating, Calls, Objects, Results, Closing, deviceVars,
        objectVars, pairingVars, MemoryInv, WorkInv, DistinctTargets
<1>1. ASSUME NEW c \in Creates, CreateRow(c) PROVE WorkInv'
  BY <1>1 DEF CreateRow, Begins, Runs, Fails, Goes, Idle, Quiet
<1>2. ASSUME NEW c \in Creates, CreateMap(c) PROVE WorkInv'
  BY <1>2 DEF CreateMap, Goes
<1>3. ASSUME NEW c \in Creates, CreateStarts(c) PROVE WorkInv'
  BY <1>3 DEF CreateStarts, Goes
<1>4. ASSUME NEW d \in Deletes, DeleteLooksUp(d) PROVE WorkInv'
  BY <1>4 DEF DeleteLooksUp, Begins, Goes, Idle, Quiet
<1>5. ASSUME NEW d \in Deletes, DeleteSignals(d) PROVE WorkInv'
  BY <1>5 DEF DeleteSignals, Goes
<1>6. ASSUME NEW d \in Deletes, DeleteWaited(d) PROVE WorkInv'
  BY <1>6 DEF DeleteWaited, DeleteDevice, Runs, Goes
<1>7. ASSUME NEW d \in Deletes, DeleteRow(d) PROVE WorkInv'
  BY <1>7 DEF DeleteRow, Runs, Fails, Goes
<1>8. ASSUME NEW d \in Deletes, DeleteUnmaps(d) PROVE WorkInv'
  BY <1>8 DEF DeleteUnmaps, Goes
<1>9. ASSUME NEW u \in Updates, UpdateLooksUp(u) PROVE WorkInv'
  BY <1>9 DEF UpdateLooksUp, Begins, Goes, Idle, Quiet
<1>10. ASSUME NEW u \in Updates, UpdateWrites(u) PROVE WorkInv'
  BY <1>10 DEF UpdateWrites, Runs, Fails, Goes
<1>11. ASSUME NEW u \in Updates, UpdateSets(u) PROVE WorkInv'
  BY <1>11 DEF UpdateSets, Goes
<1>12. ASSUME NEW o \in Objects, WorkerExits(o) PROVE WorkInv'
  BY <1>12 DEF WorkerExits
<1>13. ASSUME NEW o \in Objects, NEW j \in Devices, Pairs(j, o) PROVE WorkInv'
  BY <1>13 DEF Pairs, Runs, Idle, Quiet
<1>14. ASSUME NEW j \in Devices, Records(j) PROVE WorkInv'
  BY <1>14 DEF Records
<1>15. ASSUME NEW j \in Devices, Saves(j) PROVE WorkInv'
  BY <1>15 DEF Saves
<1>16. ASSUME NEW j \in Devices, Unlinks(j) PROVE WorkInv'
  BY <1>16 DEF Unlinks, Runs
<1>17. CASE Start
  BY <1>17 DEF Start
<1>18. CASE Crash
  BY <1>18 DEF Crash, Nowhere
<1>19. CASE CloseBegins
  BY <1>19 DEF CloseBegins, Idle, Quiet
<1>20. CASE CloseEnds
  BY <1>20 DEF CloseEnds
<1> QED BY <1>1, <1>2, <1>3, <1>4, <1>5, <1>6, <1>7, <1>8, <1>9, <1>10, <1>11, <1>12, <1>13, <1>14,
    <1>15, <1>16, <1>17, <1>18, <1>19, <1>20
    DEF Next, Create, Delete, Update

\* A call that begins while another is under way sets overlap, so that nothing is left to
\* show; one that begins alone looks up the session in the map.
LEMMA StepSerialInv ==
    ASSUME IInv, Next PROVE SerialInv'
<1> USE ManagerAssumption
    DEF IInv, TypeOK, CallInv, Deleting, Updating, Calls, Objects, Results, Closing, deviceVars,
        objectVars, pairingVars, MemoryInv, SerialInv, Serial, UnderWay, Idle, Quiet
<1>1. ASSUME NEW c \in Creates, CreateRow(c) PROVE SerialInv'
  <2>1. CASE pc'[c] = "exists"
    BY <1>1, <2>1 DEF CreateRow, Begins, Runs, Fails, Goes
  <2>2. CASE pc'[c] = "mapping"
    <3>1. /\ pc[c] = "new" /\ pc' = [pc EXCEPT ![c] = "mapping"]
          /\ row = None /\ row' = [jid |-> None, url |-> c]
          /\ UNCHANGED <<mode, current, objectVars, target>>
      BY <1>1, <2>2 DEF CreateRow, Begins, Fails, Goes
    <3>2. Serial' => Serial /\ Quiet /\ mode = "serving"
      BY <1>1 DEF CreateRow, Begins
    <3> QED BY <3>1, <3>2
  <2>3. CASE pc'[c] = "failed"
    BY <1>1, <2>3 DEF CreateRow, Begins, Runs, Fails, Goes
  <2> QED BY <1>1, <2>1, <2>2, <2>3 DEF CreateRow, Fails, Goes
<1>2. ASSUME NEW c \in Creates, CreateMap(c) PROVE SerialInv'
  BY <1>2 DEF CreateMap, Goes
<1>3. ASSUME NEW c \in Creates, CreateStarts(c) PROVE SerialInv'
  BY <1>3 DEF CreateStarts, Goes
<1>4. ASSUME NEW d \in Deletes, DeleteLooksUp(d) PROVE SerialInv'
  <2>1. /\ pc' = [pc EXCEPT ![d] = IF current = None THEN "not_found" ELSE "stopping"]
        /\ target' = [target EXCEPT ![d] = current]
        /\ UNCHANGED <<mode, current, worker, pairing>>
    BY <1>4 DEF DeleteLooksUp, Goes
  <2>2. Serial' => Serial /\ Quiet /\ mode = "serving"
    BY <1>4 DEF DeleteLooksUp, Begins
  <2> QED BY <2>1, <2>2
<1>5. ASSUME NEW d \in Deletes, DeleteSignals(d) PROVE SerialInv'
  BY <1>5 DEF DeleteSignals, Goes
<1>6. ASSUME NEW d \in Deletes, DeleteWaited(d) PROVE SerialInv'
  BY <1>6 DEF DeleteWaited, DeleteDevice, Runs, Goes
<1>7. ASSUME NEW d \in Deletes, DeleteRow(d) PROVE SerialInv'
  BY <1>7 DEF DeleteRow, Runs, Fails, Goes
<1>8. ASSUME NEW d \in Deletes, DeleteUnmaps(d) PROVE SerialInv'
  BY <1>8 DEF DeleteUnmaps, Goes
<1>9. ASSUME NEW u \in Updates, UpdateLooksUp(u) PROVE SerialInv'
  <2>1. /\ pc' = [pc EXCEPT ![u] = IF current = None THEN "not_found" ELSE "writing"]
        /\ target' = [target EXCEPT ![u] = current]
        /\ UNCHANGED <<mode, current, worker, pairing>>
    BY <1>9 DEF UpdateLooksUp, Goes
  <2>2. Serial' => Serial /\ Quiet /\ mode = "serving"
    BY <1>9 DEF UpdateLooksUp, Begins
  <2> QED BY <2>1, <2>2
<1>10. ASSUME NEW u \in Updates, UpdateWrites(u) PROVE SerialInv'
  BY <1>10 DEF UpdateWrites, Runs, Fails, Goes
<1>11. ASSUME NEW u \in Updates, UpdateSets(u) PROVE SerialInv'
  BY <1>11 DEF UpdateSets, Goes
<1>12. ASSUME NEW o \in Objects, WorkerExits(o) PROVE SerialInv'
  BY <1>12 DEF WorkerExits
<1>13. ASSUME NEW o \in Objects, NEW j \in Devices, Pairs(j, o) PROVE SerialInv'
  <2>1. /\ pairing[j] = "new" /\ pairing' = [pairing EXCEPT ![j] = "paired"]
        /\ owner' = [owner EXCEPT ![j] = o]
        /\ overlap' = (overlap \/ ~Quiet \/ mode # "serving" \/ o # current)
        /\ UNCHANGED <<mode, current, jid, worker, pc, target>>
    BY <1>13 DEF Pairs
  <2>2. Serial' => Serial /\ Quiet /\ mode = "serving" /\ o = current
    BY <2>1
  <2>3. /\ \A i \in Devices \ {j} : pairing'[i] = pairing[i] /\ owner'[i] = owner[i]
        /\ pairing'[j] = "paired" /\ owner'[j] = o
    BY <2>1
  <2>4. Serial' => \A i \in Devices : UnderWay(i)' => i = j
    BY <2>2, <2>3
  <2> QED BY <2>1, <2>2, <2>3, <2>4
<1>14. ASSUME NEW j \in Devices, Records(j) PROVE SerialInv'
  BY <1>14 DEF Records
<1>15. ASSUME NEW j \in Devices, Saves(j) PROVE SerialInv'
  BY <1>15 DEF Saves
<1>16. ASSUME NEW j \in Devices, Unlinks(j) PROVE SerialInv'
  BY <1>16 DEF Unlinks, Runs
<1>17. CASE Start
  BY <1>17 DEF Start
<1>18. CASE Crash
  BY <1>18 DEF Crash, Nowhere
<1>19. CASE CloseBegins
  BY <1>19 DEF CloseBegins
<1>20. CASE CloseEnds
  BY <1>20 DEF CloseEnds
<1> QED BY <1>1, <1>2, <1>3, <1>4, <1>5, <1>6, <1>7, <1>8, <1>9, <1>10, <1>11, <1>12, <1>13, <1>14,
    <1>15, <1>16, <1>17, <1>18, <1>19, <1>20
    DEF Next, Create, Delete, Update

\* Each write of the row and the write of the map or the field that follows it are steps of
\* the same call, and no other call comes between.
LEMMA StepRowInv ==
    ASSUME IInv, Next PROVE RowInv'
<1> USE ManagerAssumption
    DEF IInv, TypeOK, CallInv, Deleting, Updating, Calls, Objects, Results, Closing, deviceVars,
        objectVars, pairingVars, MemoryInv, SerialInv, Serial, UnderWay, Idle, Quiet, RowInv
<1>1. ASSUME NEW c \in Creates, CreateRow(c) PROVE RowInv'
  <2>1. CASE pc'[c] = "exists"
    BY <1>1, <2>1 DEF CreateRow, Begins, Runs, Fails, Goes
  <2>2. CASE pc'[c] = "mapping"
    <3>1. /\ pc[c] = "new" /\ pc' = [pc EXCEPT ![c] = "mapping"]
          /\ row = None /\ row' = [jid |-> None, url |-> c]
          /\ UNCHANGED <<mode, current, objectVars, target>>
      BY <1>1, <2>2 DEF CreateRow, Begins, Fails, Goes
    <3>2. Serial' => Serial /\ Quiet /\ mode = "serving"
      BY <1>1 DEF CreateRow, Begins
    <3> QED BY <3>1, <3>2
  <2>3. CASE pc'[c] = "failed"
    BY <1>1, <2>3 DEF CreateRow, Begins, Runs, Fails, Goes
  <2>4. pc'[c] \in {"exists", "mapping", "failed"}
    BY <1>1 DEF CreateRow, Fails, Goes
  <2> QED BY <2>1, <2>2, <2>3, <2>4
<1>2. ASSUME NEW c \in Creates, CreateMap(c) PROVE RowInv'
  <2>1. CASE current # None
    BY <1>2, <2>1 DEF CreateMap, Goes
  <2>2. CASE current = None
    <3>1. /\ pc[c] = "mapping" /\ pc' = [pc EXCEPT ![c] = "starting"]
          /\ current' = c /\ url' = [url EXCEPT ![c] = c] /\ worker' = [worker EXCEPT ![c] = "new"]
          /\ UNCHANGED <<row, mode, jid, done, pairing, target, overlap>>
      BY <1>2, <2>2 DEF CreateMap, Goes
    <3>2. Serial' => /\ Serial /\ row = [jid |-> None, url |-> c]
                     /\ jid[c] = None /\ c \notin done
                     /\ \A b \in Calls : b # c => Idle(b)
      BY <3>1
    <3>3. Serial' => \A b \in Calls : pc'[b] \in Results \union {"new"} \/ b = c
      BY <3>1, <3>2
    <3>4. c \in Objects /\ url'[c] = c /\ worker'[c] = "new"
      BY <3>1
    <3>5. c # None /\ pc'[c] = "starting"
      BY <3>1
    <3>6. Serial' => row'.jid = None /\ row'.url = c /\ row' # None
      BY <3>1, <3>2 DEF Rows
    <3> QED BY <3>1, <3>2, <3>3, <3>4, <3>5, <3>6
  <2> QED BY <2>1, <2>2
<1>3. ASSUME NEW c \in Creates, CreateStarts(c) PROVE RowInv'
  BY <1>3 DEF CreateStarts, Goes
<1>4. ASSUME NEW d \in Deletes, DeleteLooksUp(d) PROVE RowInv'
  BY <1>4 DEF DeleteLooksUp, Begins, Goes
<1>5. ASSUME NEW d \in Deletes, DeleteSignals(d) PROVE RowInv'
  BY <1>5 DEF DeleteSignals, Goes
<1>6. ASSUME NEW d \in Deletes, DeleteWaited(d) PROVE RowInv'
  BY <1>6 DEF DeleteWaited, DeleteDevice, Runs, Goes
<1>7. ASSUME NEW d \in Deletes, DeleteRow(d) PROVE RowInv'
  BY <1>7 DEF DeleteRow, Runs, Fails, Goes
<1>8. ASSUME NEW d \in Deletes, DeleteUnmaps(d) PROVE RowInv'
  BY <1>8 DEF DeleteUnmaps, Goes
<1>9. ASSUME NEW u \in Updates, UpdateLooksUp(u) PROVE RowInv'
  BY <1>9 DEF UpdateLooksUp, Begins, Goes
<1>10. ASSUME NEW u \in Updates, UpdateWrites(u) PROVE RowInv'
  <2>1. CASE pc'[u] = "not_found"
    BY <1>10, <2>1 DEF UpdateWrites, Runs, Fails, Goes
  <2>2. CASE pc'[u] = "setting"
    <3>1. /\ pc[u] = "writing" /\ pc' = [pc EXCEPT ![u] = "setting"]
          /\ row # None /\ row' = [row EXCEPT !.url = u]
          /\ UNCHANGED <<mode, current, jid, url, worker, done, pairing, target, overlap>>
      BY <1>10, <2>2 DEF UpdateWrites, Fails, Goes
    <3>2. Serial' => Serial /\ \A b \in Calls : b # u => Idle(b)
      BY <3>1
    <3>3. row'.jid = row.jid /\ row'.url = u
      BY <3>1, RowFields
    <3>4. row' # None
      BY <3>1, RowFields
    <3> QED BY <3>1, <3>2, <3>3, <3>4
  <2>3. CASE pc'[u] = "failed"
    BY <1>10, <2>3 DEF UpdateWrites, Runs, Fails, Goes
  <2> QED BY <1>10, <2>1, <2>2, <2>3 DEF UpdateWrites, Fails, Goes
<1>11. ASSUME NEW u \in Updates, UpdateSets(u) PROVE RowInv'
  <2>1. /\ pc[u] = "setting" /\ pc' = [pc EXCEPT ![u] = "returned"]
        /\ url' = [url EXCEPT ![target[u]] = u]
        /\ UNCHANGED <<row, mode, current, jid, worker, done, pairing, target, overlap>>
    BY <1>11 DEF UpdateSets, Goes
  <2>2. Serial' => /\ Serial /\ target[u] = current /\ current # None
                   /\ \A b \in Calls : b # u => Idle(b)
    BY <2>1
  <2> QED BY <2>1, <2>2
<1>12. ASSUME NEW o \in Objects, WorkerExits(o) PROVE RowInv'
  BY <1>12 DEF WorkerExits
<1>13. ASSUME NEW o \in Objects, NEW j \in Devices, Pairs(j, o) PROVE RowInv'
  BY <1>13 DEF Pairs, Runs
<1>14. ASSUME NEW j \in Devices, Records(j) PROVE RowInv'
  BY <1>14 DEF Records
<1>15. ASSUME NEW j \in Devices, Saves(j) PROVE RowInv'
  <2>1. /\ pairing[j] = "recorded"
        /\ UNCHANGED <<mode, current, jid, url, worker, done, owner, pc, target, overlap>>
    BY <1>15 DEF Saves
  <2>2. Serial' => /\ Serial /\ owner[j] = current /\ jid[current] = j /\ current # None
                   /\ \A c \in Calls : Idle(c)
    BY <2>1
  <2>3. CASE row' = row /\ pairing' = [pairing EXCEPT ![j] = "unsaved"]
    BY <2>1, <2>2, <2>3
  <2>4. CASE row # None /\ row' = [row EXCEPT !.jid = j]
    <3>1. row'.url = row.url /\ row'.jid = j
      BY <2>4, RowFields
    <3>2. row' # None
      BY <2>4, RowFields
    <3> QED BY <2>1, <2>2, <3>1, <3>2
  <2> QED BY <1>15, <2>3, <2>4 DEF Saves
<1>16. ASSUME NEW j \in Devices, Unlinks(j) PROVE RowInv'
  BY <1>16 DEF Unlinks, Runs
<1>17. CASE Start
  BY <1>17 DEF Start
<1>18. CASE Crash
  BY <1>18 DEF Crash, Nowhere
<1>19. CASE CloseBegins
  BY <1>19 DEF CloseBegins
<1>20. CASE CloseEnds
  BY <1>20 DEF CloseEnds
<1> QED BY <1>1, <1>2, <1>3, <1>4, <1>5, <1>6, <1>7, <1>8, <1>9, <1>10, <1>11, <1>12, <1>13, <1>14,
    <1>15, <1>16, <1>17, <1>18, <1>19, <1>20
    DEF Next, Create, Delete, Update

\* A device comes and goes while its object is in the map, and a Delete takes it along; what
\* a crash or a failed deletion leaves sets strays.
LEMMA StepDeviceInv ==
    ASSUME IInv, Next PROVE DeviceInv'
<1> USE ManagerAssumption
    DEF IInv, TypeOK, CallInv, Deleting, Updating, Calls, Objects, Results, Closing, deviceVars,
        objectVars, pairingVars, MemoryInv, SerialInv, Serial, UnderWay, Idle, Quiet, RowInv, DeviceInv
<1>1. ASSUME NEW c \in Creates, CreateRow(c) PROVE DeviceInv'
  BY <1>1 DEF CreateRow, Begins, Runs, Fails, Goes
<1>2. ASSUME NEW c \in Creates, CreateMap(c) PROVE DeviceInv'
  BY <1>2 DEF CreateMap, Goes
<1>3. ASSUME NEW c \in Creates, CreateStarts(c) PROVE DeviceInv'
  BY <1>3 DEF CreateStarts, Goes
<1>4. ASSUME NEW d \in Deletes, DeleteLooksUp(d) PROVE DeviceInv'
  BY <1>4 DEF DeleteLooksUp, Begins, Goes
<1>5. ASSUME NEW d \in Deletes, DeleteSignals(d) PROVE DeviceInv'
  BY <1>5 DEF DeleteSignals, Goes
<1>6. ASSUME NEW d \in Deletes, DeleteWaited(d) PROVE DeviceInv'
  <2>1. /\ pc[d] = "waiting" /\ pc' = [pc EXCEPT ![d] = "unlisting"]
        /\ DeleteDevice(jid[target[d]])
        /\ UNCHANGED <<row, mode, current, objectVars, target, overlap, replaced>>
    BY <1>6 DEF DeleteWaited, DeleteDevice, Goes
  <2>2. mode # "down"
    BY <2>1
  <2>3. Serial => /\ target[d] = current /\ current # None
                  /\ \A c \in Calls : c # d => Idle(c)
                  /\ \A j \in Devices : ~UnderWay(j)
    BY <2>1
  <2>4. (Serial /\ ~strays)' => /\ Serial /\ ~strays /\ devices' = devices \ {jid[current]}
    BY <2>1, <2>3 DEF DeleteDevice
  <2>5. (Serial /\ ~strays)' => devices' \subseteq replaced
    <3> SUFFICES ASSUME (Serial /\ ~strays)', NEW j \in devices' PROVE j \in replaced
      OBVIOUS
    <3>0. devices' = devices \ {jid[current]} /\ devices \subseteq Devices
      BY <2>4
    <3>1. j \in devices /\ j # jid[current] /\ j \in Devices
      BY <3>0
    <3>2. ~UnderWay(j)
      BY <2>3, <2>4, <3>1
    <3> QED BY <2>3, <2>4, <3>1, <3>2
  <2> QED BY <2>1, <2>2, <2>3, <2>5
<1>7. ASSUME NEW d \in Deletes, DeleteRow(d) PROVE DeviceInv'
  BY <1>7 DEF DeleteRow, Runs, Fails, Goes
<1>8. ASSUME NEW d \in Deletes, DeleteUnmaps(d) PROVE DeviceInv'
  BY <1>8 DEF DeleteUnmaps, Goes
<1>9. ASSUME NEW u \in Updates, UpdateLooksUp(u) PROVE DeviceInv'
  BY <1>9 DEF UpdateLooksUp, Begins, Goes
<1>10. ASSUME NEW u \in Updates, UpdateWrites(u) PROVE DeviceInv'
  BY <1>10 DEF UpdateWrites, Runs, Fails, Goes
<1>11. ASSUME NEW u \in Updates, UpdateSets(u) PROVE DeviceInv'
  BY <1>11 DEF UpdateSets, Goes
<1>12. ASSUME NEW o \in Objects, WorkerExits(o) PROVE DeviceInv'
  BY <1>12 DEF WorkerExits
<1>13. ASSUME NEW o \in Objects, NEW j \in Devices, Pairs(j, o) PROVE DeviceInv'
  <2>1. CASE mode # "down"
    <3>1. Serial' => Serial /\ Quiet /\ mode = "serving" /\ o = current /\ current' = current
      BY <1>13, <2>1 DEF Pairs
    <3>2. /\ pairing[j] = "new" /\ pairing' = [pairing EXCEPT ![j] = "paired"]
          /\ devices' = devices \union {j} /\ UNCHANGED <<row, strays, replaced, mode, jid, pc>>
      BY <1>13 DEF Pairs
    <3> QED BY <2>1, <3>1, <3>2
  <2>2. CASE mode = "down"
    BY <1>13, <2>2 DEF Pairs, Runs
  <2> QED BY <2>1, <2>2
<1>14. ASSUME NEW j \in Devices, Records(j) PROVE DeviceInv'
  BY <1>14 DEF Records
<1>15. ASSUME NEW j \in Devices, Saves(j) PROVE DeviceInv'
  BY <1>15 DEF Saves
<1>16. ASSUME NEW j \in Devices, Unlinks(j) PROVE DeviceInv'
  BY <1>16 DEF Unlinks, Runs
<1>17. CASE Start
  BY <1>17 DEF Start
<1>18. CASE Crash
  BY <1>18 DEF Crash, Nowhere
<1>19. CASE CloseBegins
  BY <1>19 DEF CloseBegins
<1>20. CASE CloseEnds
  BY <1>20 DEF CloseEnds
<1> QED BY <1>1, <1>2, <1>3, <1>4, <1>5, <1>6, <1>7, <1>8, <1>9, <1>10, <1>11, <1>12, <1>13, <1>14,
    <1>15, <1>16, <1>17, <1>18, <1>19, <1>20
    DEF Next, Create, Delete, Update

\* Every step of a call, of the process and of a pairing preserves the invariant.
LEMMA StepInv == IInv /\ [Next]_vars => IInv'
<1> SUFFICES ASSUME IInv, [Next]_vars PROVE IInv'
  OBVIOUS
<1>1. CASE Next
  BY <1>1, StepTypeOK, StepCallInv, StepMemoryInv, StepWorkInv, StepSerialInv, StepRowInv,
     StepDeviceInv DEF IInv
<1>2. CASE UNCHANGED vars
  BY <1>2 DEF vars, IInv, TypeOK, CallInv, MemoryInv, WorkInv, DistinctTargets, SerialInv,
      Serial, RowInv, DeviceInv, UnderWay, Idle, Quiet
<1> QED BY <1>1, <1>2

\* The control of the calls, the session objects and the three stores stay consistent
\* (Manager's methods, the registry and markConnected).
THEOREM Invariance == Spec => []IInv
<1> QED BY InitInv, StepInv, PTL DEF Spec

-----------------------------------------------------------------------------
(* What the runs check, for every number of calls. *)

\* Every variable stays in its range.
THEOREM TypeCorrect == Spec => []TypeOK
<1>1. IInv => TypeOK
  BY DEF IInv
<1> QED BY <1>1, Invariance, PTL

\* One id never has two sessions at work, however many calls interleave, unless two
\* Deletes looked up the same session (Manager.Create, Delete, stop and runWorker).
THEOREM NeverTwoAtWork == Spec => []OneAtWork
<1>1. IInv => OneAtWork
  BY DEF IInv, WorkInv, DistinctTargets, OneAtWork, Live
<1> QED BY <1>1, Invariance, PTL

\* Manager.Close, begun while no call was under way, leaves no worker behind.
THEOREM CloseLeavesNoWorker == Spec => []ClosedIsDown
<1>1. IInv => ClosedIsDown
  BY DEF IInv, SerialInv, Serial, ClosedIsDown
<1> QED BY <1>1, Invariance, PTL

\* Calls made one after the other, across crashes and failures, leave the registry, the
\* session map and the device store in agreement.
LEMMA AgreeInv == IInv => AgreeAtRest
<1> SUFFICES ASSUME IInv,
                    mode = "serving", Quiet, ~overlap,
                    \A d \in Deletes : pc[d] # "failed",
                    \A j \in Devices : current # None /\ j = jid[current] => pairing[j] # "unsaved"
             PROVE  /\ IF current = None THEN row = None
                       ELSE row = [jid |-> jid[current], url |-> url[current]] /\ Live(current)
                    /\ strays \/ devices \subseteq replaced \union (IF row = None THEN {} ELSE {row.jid})
  BY DEF AgreeAtRest
<1> USE ManagerAssumption DEF Calls, Objects
<1>1. /\ \A c \in Calls : pc[c] \notin {"mapping", "starting", "setting"} \union Deleting
      /\ \A j \in Devices : pairing[j] \notin {"paired", "recorded"}
  BY DEF Quiet, Idle, Results, Deleting
<1>2. CASE current = None
  <2>1. row = None
    BY <1>1, <1>2 DEF IInv, RowInv, Serial
  <2>2. strays \/ devices \subseteq replaced
    BY <1>2 DEF IInv, DeviceInv, Serial
  <2> QED BY <1>2, <2>1, <2>2
<1>3. CASE current # None
  <2>1. current \in Objects
    BY <1>3 DEF IInv, TypeOK
  <2>2. row # None /\ row.jid = jid[current] /\ row.url = url[current]
    BY <1>1, <1>3 DEF IInv, RowInv, Serial, Deleting
  <2>3. row = [jid |-> jid[current], url |-> url[current]]
    BY <2>2 DEF IInv, TypeOK, Rows
  <2>4. Live(current)
    BY <1>1, <1>3, <2>1 DEF IInv, MemoryInv, RowInv, Serial, Live, Deleting
  <2>5. strays \/ devices \subseteq replaced \union {jid[current]}
    BY <1>1, <1>3 DEF IInv, DeviceInv, Serial, TypeOK
  <2> QED BY <1>3, <2>2, <2>3, <2>4, <2>5
<1> QED BY <1>2, <1>3

\* When nothing is under way the row, the map and the device store say the same, if the
\* calls did not overlap and no device was left behind; crashes may have fallen anywhere
\* (Create, Delete, UpdateWebhook, Start and markConnected).
THEOREM AgreementAtRest == Spec => []AgreeAtRest
<1> QED BY AgreeInv, Invariance, PTL
============================================================================
