------------------------------ MODULE Manager -------------------------------
(***************************************************************************)
(* manager.go, internal/registry and the device store for one session id:   *)
(* Create, Delete and UpdateWebhook by any number of goroutines, Start,       *)
(* Close, and a crash at any point.  Ids do not interact (map and table are   *)
(* keyed by id), so one is modelled.  Calls are named by numbers, those of a  *)
(* kind in the order they are made.  A session object is named after the      *)
(* Create that made it, or Boot when Start did; a webhook URL after the call  *)
(* that brought it.  Every pairing makes a device, numbered in their order,    *)
(* whose number stands for its JID; pairing is reduced to what it stores       *)
(* (module Pairing has the rest).                                              *)
(***************************************************************************)
EXTENDS Naturals, FiniteSets

CONSTANTS
    Creates, Deletes, Updates,   \* calls
    Devices,                     \* the devices pairings make
    Boot,                        \* the session object Start makes
    None                         \* no row, object, JID or URL

Calls   == Creates \union Deletes \union Updates
Objects == Creates \union {Boot}

\* registry rows; a webhook URL is the call's that brought it.
Rows == [jid : Devices \union {None}, url : Creates \union Updates \union {None}]

ASSUME ManagerAssumption ==
    /\ Calls \subseteq Nat \ {0} /\ Devices \subseteq Nat
    /\ None \notin Calls \union {Boot} \union Devices \union Rows /\ Boot \notin Calls
    /\ Creates \intersect (Deletes \union Updates) = {} /\ Deletes \intersect Updates = {}

VARIABLES
    row,       \* the registry's row [jid, url], or None
    devices,   \* the device store: JIDs that are logged in
    mode,      \* the process: "down", "serving", "closing", "closed"
    current,   \* the session in m.sessions, or None
    jid, url,  \* per object: its fields
    worker,    \* per object: "unborn", "new", "running", "exited"
    done,      \* objects whose done channel is closed
    pairing,   \* per device: "new", "paired", "recorded", "saved", "unsaved", "gone" from memory
    owner,     \* per device: the object whose client has it, or None
    pc,        \* per call: control point or result
    target,    \* per Delete and Update: the object it looked up; Close's too
    overlap,   \* auxiliary: a call began before another had ended
    strays,    \* auxiliary: a device may have been left without its row
    replaced   \* auxiliary: devices in the store when a later pairing took their session

vars == <<row, devices, mode, current, jid, url, worker, done, pairing, owner, pc, target,
          overlap, strays, replaced>>

deviceVars == <<devices, strays, replaced>>

pairingVars == <<pairing, owner>>

objectVars == <<jid, url, worker, done, pairingVars>>

Closing == 0   \* Close's place in target

Results == {"returned", "exists", "not_found", "failed", "lost"}

Idle(c) == pc[c] \in {"new"} \union Results

Quiet == /\ \A c \in Calls : Idle(c)
         /\ \A j \in Devices : pairing[j] \notin {"paired", "recorded"}

Nowhere == [c \in Deletes \union Updates \union {Closing} |-> None]

Init ==
    /\ row = None /\ devices = {} /\ strays = FALSE /\ replaced = {} /\ mode = "down" /\ current = None
    /\ jid = [o \in Objects |-> None] /\ url = [o \in Objects |-> None]
    /\ worker = [o \in Objects |-> "unborn"]
    /\ done = {}
    /\ pairing = [j \in Devices |-> "new"] /\ owner = [j \in Devices |-> None]
    /\ pc = [c \in Calls |-> "new"]
    /\ target = Nowhere
    /\ overlap = FALSE

Goes(c, to) == pc' = [pc EXCEPT ![c] = to]

Kinds == {Creates, Deletes, Updates}

\* A call is made while the process serves; Close does not wait for it.
Begins(c) ==
    /\ pc[c] = "new"
    /\ \A kind \in Kinds : c \in kind => \A b \in kind : b < c => pc[b] # "new"
    /\ mode \in {"serving", "closing", "closed"}
    /\ overlap' = (overlap \/ ~Quiet \/ mode # "serving")

\* A statement of the registry runs, or fails: always once the store is closed.
Runs  == mode # "closed"
Fails(c) == Goes(c, "failed") /\ UNCHANGED row

-----------------------------------------------------------------------------
(* Create: insert the row, enter the map under mu, start the worker. *)

\* reg.Create: the primary key refuses a second row.
CreateRow(c) ==
    /\ Begins(c)
    /\ \/ Runs /\ row # None /\ Goes(c, "exists") /\ UNCHANGED row
       \/ Runs /\ row = None /\ row' = [jid |-> None, url |-> c] /\ Goes(c, "mapping")
       \/ Fails(c)
    /\ UNCHANGED <<deviceVars, mode, current, objectVars, target>>

\* A session in the map wins, and the row inserted above stays.
CreateMap(c) ==
    /\ pc[c] = "mapping"
    /\ \/ current # None /\ Goes(c, "exists") /\ UNCHANGED <<current, url, worker>>
       \/ /\ current = None
          /\ current' = c
          /\ url' = [url EXCEPT ![c] = c]
          /\ worker' = [worker EXCEPT ![c] = "new"]
          /\ Goes(c, "starting")
    /\ UNCHANGED <<row, deviceVars, mode, jid, done, pairingVars, target, overlap>>

CreateStarts(c) ==
    /\ pc[c] = "starting"
    /\ worker' = [worker EXCEPT ![c] = "running"]
    /\ Goes(c, "returned")
    /\ UNCHANGED <<row, deviceVars, mode, current, jid, url, done, pairingVars, target, overlap>>

-----------------------------------------------------------------------------
(* Delete: look up, stop, delete the device, delete the row, leave the map. *)

\* Mutant: a session that is not there is not noticed.
DeleteLooksUpBlindly(d) ==
    /\ Begins(d)
    /\ target' = [target EXCEPT ![d] = current]
    /\ Goes(d, "stopping")
    /\ UNCHANGED <<row, deviceVars, mode, current, objectVars>>

\* Mutant: the session is not stopped.
DeleteLooksUpOnly(d) ==
    /\ Begins(d)
    /\ target' = [target EXCEPT ![d] = current]
    /\ Goes(d, IF current = None THEN "not_found" ELSE "unlisting")
    /\ UNCHANGED <<row, deviceVars, mode, current, objectVars>>

DeleteLooksUp(d) ==
    /\ Begins(d)
    /\ target' = [target EXCEPT ![d] = current]
    /\ Goes(d, IF current = None THEN "not_found" ELSE "stopping")
    /\ UNCHANGED <<row, deviceVars, mode, current, objectVars>>

\* Mutant: stop does not close done when the worker has not started yet.
DeleteSignalsRunning(d) ==
    /\ pc[d] = "stopping"
    /\ done' = IF worker[target[d]] = "new" THEN done ELSE done \union {target[d]}
    /\ Goes(d, "waiting")
    /\ UNCHANGED <<row, deviceVars, mode, current, jid, url, worker, pairingVars, target, overlap>>

\* stop, its first part: close(done).
DeleteSignals(d) ==
    /\ pc[d] = "stopping"
    /\ done' = done \union {target[d]}
    /\ Goes(d, "waiting")
    /\ UNCHANGED <<row, deviceVars, mode, current, jid, url, worker, pairingVars, target, overlap>>

\* Nothing to do, done, or failed: then the device stays.
DeleteDevice(j) ==
    \/ j \notin devices /\ UNCHANGED deviceVars
    \/ j \in devices /\ Runs /\ devices' = devices \ {j} /\ UNCHANGED <<strays, replaced>>
    \/ j \in devices /\ strays' = TRUE /\ UNCHANGED <<devices, replaced>>

\* Mutant: the device is kept.
DeleteKeepsDevice(d) ==
    /\ pc[d] = "waiting"
    /\ worker[target[d]] # "running"
    /\ Goes(d, "unlisting")
    /\ UNCHANGED <<row, deviceVars, mode, current, objectVars, target, overlap>>

\* stop, its second part (WaitGroup.Wait returns at once before the Add of start), and
\* the deletion of the device whose JID the session has; that it fails is only logged.
DeleteWaited(d) ==
    /\ pc[d] = "waiting"
    /\ worker[target[d]] # "running"
    /\ Goes(d, "unlisting")
    /\ DeleteDevice(jid[target[d]])
    /\ UNCHANGED <<row, mode, current, objectVars, target, overlap>>

\* reg.Delete; no such row is not an error.
DeleteRow(d) ==
    /\ pc[d] = "unlisting"
    /\ \/ Runs /\ row' = None /\ Goes(d, "unmapping")
       \/ Fails(d)
    /\ UNCHANGED <<deviceVars, mode, current, objectVars, target, overlap>>

\* delete(m.sessions, id): whatever session is there now.
DeleteUnmaps(d) ==
    /\ pc[d] = "unmapping"
    /\ current' = None
    /\ Goes(d, "returned")
    /\ UNCHANGED <<row, deviceVars, mode, objectVars, target, overlap>>

-----------------------------------------------------------------------------
(* UpdateWebhook: look up, write the row, then the session's field. *)

UpdateLooksUp(u) ==
    /\ Begins(u)
    /\ target' = [target EXCEPT ![u] = current]
    /\ Goes(u, IF current = None THEN "not_found" ELSE "writing")
    /\ UNCHANGED <<row, deviceVars, mode, current, objectVars>>

UpdateWrites(u) ==
    /\ pc[u] = "writing"
    /\ \/ Runs /\ row = None /\ Goes(u, "not_found") /\ UNCHANGED row
       \/ Runs /\ row # None /\ row' = [row EXCEPT !.url = u] /\ Goes(u, "setting")
       \/ Fails(u)
    /\ UNCHANGED <<deviceVars, mode, current, objectVars, target, overlap>>

UpdateSets(u) ==
    /\ pc[u] = "setting"
    /\ url' = [url EXCEPT ![target[u]] = u]
    /\ Goes(u, "returned")
    /\ UNCHANGED <<row, deviceVars, mode, current, jid, worker, done, pairingVars, target, overlap>>

-----------------------------------------------------------------------------
(* The session objects. *)

\* runWorker leaves once done is closed.
WorkerExits(o) ==
    /\ worker[o] = "running" /\ o \in done
    /\ worker' = [worker EXCEPT ![o] = "exited"]
    /\ UNCHANGED <<row, deviceVars, mode, current, jid, url, done, pairingVars, pc, target, overlap>>

\* Somebody logs an object in, for the first time or again once it is disconnected or
\* logged out, also one deleted after the handler of the login had found it: the library
\* stores the new device, beside the one the object may have.
Pairs(j, o) ==
    /\ pairing[j] = "new" /\ \A i \in Devices : i < j => pairing[i] # "new"
    /\ worker[o] # "unborn" /\ Runs
    /\ devices' = devices \union {j}
    /\ pairing' = [pairing EXCEPT ![j] = "paired"] /\ owner' = [owner EXCEPT ![j] = o]
    /\ overlap' = (overlap \/ ~Quiet \/ mode # "serving" \/ o # current)
    /\ UNCHANGED <<row, strays, replaced, mode, current, jid, url, worker, done, pc, target>>

\* Mutant: a session that has a JID keeps it.
RecordsOnce(j) ==
    /\ pairing[j] = "paired"
    /\ jid' = [jid EXCEPT ![owner[j]] = IF @ = None THEN j ELSE @]
    /\ pairing' = [pairing EXCEPT ![j] = "recorded"]
    /\ UNCHANGED <<row, deviceVars, mode, current, url, worker, done, owner, pc, target, overlap>>

\* markConnected, its second locked section.
Records(j) ==
    /\ pairing[j] = "paired"
    /\ jid' = [jid EXCEPT ![owner[j]] = j]
    /\ pairing' = [pairing EXCEPT ![j] = "recorded"]
    /\ replaced' = replaced \union ({jid[owner[j]]} \intersect devices)
    /\ UNCHANGED <<row, devices, strays, mode, current, url, worker, done, owner, pc, target,
                   overlap>>

\* A logout, or the phone unlinks the device, perhaps one its session has forgotten: the
\* library deletes it.
Unlinks(j) ==
    /\ owner[j] # None /\ Runs
    /\ pairing[j] # "paired" /\ j \in devices
    /\ devices' = devices \ {j}
    /\ UNCHANGED <<row, strays, replaced, mode, current, objectVars, pc, target, overlap>>

\* UpdateJID by session id: fails without a row, and after Close cancelled its context.
Saves(j) ==
    /\ pairing[j] = "recorded"
    /\ \/ /\ mode = "serving" /\ row # None
          /\ row' = [row EXCEPT !.jid = j]
          /\ pairing' = [pairing EXCEPT ![j] = "saved"]
       \/ pairing' = [pairing EXCEPT ![j] = "unsaved"] /\ UNCHANGED row
    /\ UNCHANGED <<deviceVars, mode, current, jid, url, worker, done, owner, pc, target, overlap>>

-----------------------------------------------------------------------------
(* The process. *)

\* Start: a session object for the row, with its worker and, if the store has its device,
\* a client; nothing else runs yet.
Start ==
    /\ mode = "down"
    /\ mode' = "serving"
    /\ \/ row = None /\ UNCHANGED <<current, jid, url, worker, pairingVars>>
       \/ /\ row # None
          /\ current' = Boot
          /\ jid' = [jid EXCEPT ![Boot] = row.jid]
          /\ url' = [url EXCEPT ![Boot] = row.url]
          /\ worker' = [worker EXCEPT ![Boot] = "running"]
          /\ pairing' = [j \in Devices |-> IF j \in devices /\ j = row.jid THEN "saved" ELSE pairing[j]]
          /\ owner' = [j \in Devices |-> IF j \in devices /\ j = row.jid THEN Boot ELSE None]
    /\ UNCHANGED <<row, deviceVars, done, pc, target, overlap>>

\* Memory is gone, and every call and goroutine with it.  The device of a pairing whose
\* JID is not in the registry is lost.
Crash ==
    /\ mode # "down"
    /\ mode' = "down"
    /\ current' = None
    /\ jid' = [o \in Objects |-> None] /\ url' = [o \in Objects |-> None]
    /\ worker' = [o \in Objects |-> "unborn"]
    /\ done' = {}
    /\ pairing' = [j \in Devices |-> IF pairing[j] = "new" THEN "new" ELSE "gone"]
    /\ owner' = [j \in Devices |-> None]
    /\ pc' = [c \in Calls |-> IF pc[c] = "new" THEN "new" ELSE "lost"]
    /\ target' = Nowhere
    /\ overlap' = FALSE
    /\ strays' = (strays \/ overlap
                   \/ \E j \in Devices : pairing[j] \in {"paired", "recorded", "unsaved"})
    /\ UNCHANGED <<row, devices, replaced>>

\* Close: cancel and snapshot the sessions; stop each; close the store.
CloseBegins ==
    /\ mode = "serving"
    /\ mode' = "closing"
    /\ target' = [target EXCEPT ![Closing] = current]
    /\ done' = IF current = None THEN done ELSE done \union {current}
    /\ overlap' = (overlap \/ ~Quiet)
    /\ UNCHANGED <<row, deviceVars, current, jid, url, worker, pairingVars, pc>>

\* Mutant: the sessions are told to stop but not waited for.
CloseEndsEarly ==
    /\ mode = "closing"
    /\ mode' = "closed"
    /\ UNCHANGED <<row, deviceVars, current, objectVars, pc, target, overlap>>

CloseEnds ==
    /\ mode = "closing"
    /\ target[Closing] # None => worker[target[Closing]] # "running"
    /\ mode' = "closed"
    /\ UNCHANGED <<row, deviceVars, current, objectVars, pc, target, overlap>>

Create(c) == CreateRow(c) \/ CreateMap(c) \/ CreateStarts(c)

Delete(d) ==
    \/ DeleteLooksUp(d) \/ DeleteSignals(d) \/ DeleteWaited(d)
    \/ DeleteRow(d) \/ DeleteUnmaps(d)

Update(u) == UpdateLooksUp(u) \/ UpdateWrites(u) \/ UpdateSets(u)

Next ==
    \/ \E c \in Creates : Create(c)
    \/ \E d \in Deletes : Delete(d)
    \/ \E u \in Updates : Update(u)
    \/ \E o \in Objects : WorkerExits(o)
    \/ \E j \in Devices : (\E o \in Objects : Pairs(j, o)) \/ Records(j) \/ Saves(j) \/ Unlinks(j)
    \/ Start \/ Crash \/ CloseBegins \/ CloseEnds

\* A call that has begun goes on and a worker told to stop does; nobody has to make
\* a call, and the process may stay down.
Fairness ==
    /\ \A c \in Creates : WF_vars(CreateMap(c) \/ CreateStarts(c))
    /\ \A d \in Deletes : WF_vars(DeleteSignals(d) \/ DeleteWaited(d) \/ DeleteRow(d) \/ DeleteUnmaps(d))
    /\ \A o \in Objects : WF_vars(WorkerExits(o))

Spec == Init /\ [][Next]_vars

FairSpec == Spec /\ Fairness

-----------------------------------------------------------------------------
(* Properties. *)

\* Every variable stays in its range.
TypeOK ==
    /\ row \in Rows \union {None}
    /\ devices \subseteq Devices /\ replaced \subseteq Devices
    /\ mode \in {"down", "serving", "closing", "closed"}
    /\ current \in Objects \union {None}
    /\ jid \in [Objects -> Devices \union {None}]
    /\ url \in [Objects -> Creates \union Updates \union {None}]
    /\ worker \in [Objects -> {"unborn", "new", "running", "exited"}]
    /\ done \subseteq Objects
    /\ pairing \in [Devices -> {"new", "paired", "recorded", "saved", "unsaved", "gone"}]
    /\ owner \in [Devices -> Objects \union {None}]
    /\ \A j \in Devices : pairing[j] = "paired" => owner[j] # None
    /\ pc \in [Calls -> Results \union {"new", "mapping", "starting", "stopping", "waiting",
                                        "unlisting", "unmapping", "writing",
                                        "setting"}]
    /\ target \in [Deletes \union Updates \union {Closing} -> Objects \union {None}]
    /\ overlap \in BOOLEAN /\ strays \in BOOLEAN

Live(o) == worker[o] = "running" /\ o \notin done

\* Calls and pairings made one after the other since the process started, whatever
\* calls an earlier crash cut short, leave the registry, the session map and the device
\* store saying the same, as long as no deletion of a row and no write of a JID failed:
\* a row exactly when there is a session, with its JID and its webhook, and the
\* session's worker at work; and no device that no row names but those whose session was
\* paired again, which Delete knows nothing of, unless one was left earlier, by
\* overlapping calls, a crash before a JID was saved, or a deletion of a device that
\* failed.
AgreeAtRest ==
    mode = "serving" /\ Quiet /\ ~overlap
      /\ (\A d \in Deletes : pc[d] # "failed")
      /\ (\A j \in Devices : current # None /\ j = jid[current] => pairing[j] # "unsaved")
    => /\ IF current = None THEN row = None
          ELSE row = [jid |-> jid[current], url |-> url[current]] /\ Live(current)
       /\ strays \/ devices \subseteq replaced \union (IF row = None THEN {} ELSE {row.jid})

\* However calls interleave, one id never has two sessions at work, unless two Deletes
\* looked up the same session: the later one may then remove a session created since
\* without stopping it.
OneAtWork ==
    (\A d, e \in Deletes : target[d] = target[e] /\ target[d] # None => d = e)
    => \A o, p \in Objects : Live(o) /\ Live(p) => o = p

\* Close leaves no worker behind, unless calls were under way when it began.
ClosedIsDown == mode = "closed" /\ ~overlap => \A o \in Objects : worker[o] # "running"

\* "Delete tears a session down completely": the worker of the session it looked up
\* ends, even when Delete overtakes the Create that is still starting it.
DeletedWorkerEnds ==
    \A d \in Deletes :
        pc[d] = "returned" ~> \/ \E o \in Objects : o = target[d] /\ worker[o] = "exited"
                              \/ mode = "down"

\* errors.go: "ErrSessionExists means a session with the requested id already exists":
\* a Create made while nothing else is going on is refused only if there is one.
ExistsMeansSession ==
    [][\A c \in Creates : Quiet /\ pc'[c] = "exists" /\ pc[c] = "new" => current # None]_vars
=============================================================================
