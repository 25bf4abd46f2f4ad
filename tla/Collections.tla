---------------------------- MODULE Collections ----------------------------
(***************************************************************************)
(* The collections of src/bin/server.rs: requests run as concurrent tasks, *)
(* a RwLock guards the map from names to open engines, and one more guards *)
(* each engine.  A collection is opened on first use, in its directory.    *)
(*                                                                         *)
(* tokio's RwLock admits tasks strictly in the order they asked, readers   *)
(* next to each other together.  A lock is therefore the sequence of those *)
(* that hold it or wait for it.                                            *)
(*                                                                         *)
(* Of an engine's contents one number is kept, the writes it knows of: a   *)
(* write is a read of it and a store of it plus one, as a write to an      *)
(* engine reads and changes several of its fields.  The disk has the same. *)
(***************************************************************************)
EXTENDS Naturals, Sequences, FiniteSets, SequencesExt

CONSTANTS
    Task,           \* the requests that can run at a time
    Name,           \* collection names
    DefaultName,    \* "default"
    MaxWrites,      \* bound: writes to a collection
    MaxRestarts,    \* bound: restarts of the server
    MaxOpens        \* bound: engines opened by one run of the server

ASSUME CollectionsAssumption ==
    /\ DefaultName \in Name
    /\ MaxWrites \in Nat /\ MaxRestarts \in Nat /\ MaxOpens \in Nat \ {0}

VARIABLES
    registry,   \* CollectionManager::engines: a name's open engine, or 0
    mapLock,    \* its RwLock
    engines,    \* the engines this run opened: name, lock, known writes
    onDisk,     \* the collections whose directory holds a log
    written,    \* the writes in a collection's directory
    pc,         \* where each request's task is
    req,        \* what it was asked
    handle,     \* the engine it was given
    local,      \* the number it has read
    listed,     \* the names it has collected
    \* Observability only: read by properties, and restarts by its bound.
    acked,      \* the writes of each collection that were answered
    since,      \* what had been answered, and what there was, when it came
    restarts

managerVars == <<registry, mapLock, engines, onDisk, written>>
taskVars    == <<pc, req, handle, local, listed>>
obsVars     == <<acked, since, restarts>>
vars        == <<managerVars, taskVars, obsVars>>

Kind == {"write", "read", "list"}

Request == [kind : Kind, name : Name]

NoRequest == [kind |-> "read", name |-> DefaultName]

Entry == [task : Task, mode : {"read", "write"}]

Step == {"idle", "lookup", "miss", "create", "opened", "have", "wait", "update",
         "keys", "scan", "replied"}

TypeOK ==
    /\ registry \in [Name -> 0..Len(engines)]
    /\ mapLock \in Seq(Entry)
    /\ engines \in Seq([name : Name, lock : Seq(Entry), knows : 0..MaxWrites])
    /\ Len(engines) <= MaxOpens
    /\ onDisk \subseteq Name
    /\ written \in [Name -> 0..MaxWrites]
    /\ pc \in [Task -> Step]
    /\ req \in [Task -> Request]
    /\ handle \in [Task -> 0..Len(engines)]
    /\ local \in [Task -> 0..MaxWrites]
    /\ listed \in [Task -> SUBSET Name]
    /\ acked \in [Name -> 0..MaxWrites]
    /\ since \in [Task -> [acked : 0..MaxWrites, names : SUBSET Name]]
    /\ restarts \in 0..MaxRestarts

-----------------------------------------------------------------------------
(* The locks. *)

Ask(lock, t, mode) == Append(lock, [task |-> t, mode |-> mode])

(* A task is in a queue once; Drop takes it out, if it is there.           *)
Drop(lock, t) ==
    IF \E i \in DOMAIN lock : lock[i].task = t
    THEN RemoveAt(lock, CHOOSE i \in DOMAIN lock : lock[i].task = t)
    ELSE lock

(* What t asked for last it has: nobody it must wait for asked earlier.    *)
Holds(lock, t) ==
    \E i \in DOMAIN lock :
        /\ lock[i].task = t
        /\ \A j \in i + 1..Len(lock) : lock[j].task # t
        /\ i = 1 \/ \A j \in 1..i : lock[j].mode = "read"

Open(name) == [name |-> name, lock |-> <<>>, knows |-> written[name]]

(* main(): the default collection is opened and registered before the      *)
(* server listens.                                                         *)
(* Mutant: main() does not register it. *)
NothingRegistered == [n \in Name |-> 0]

RegisteredAtStart == [n \in Name |-> IF n = DefaultName THEN 1 ELSE 0]

Nobody == [t \in Task |-> "idle"]

Nothing == [acked |-> 0, names |-> {}]

Init ==
    /\ registry = RegisteredAtStart
    /\ mapLock = <<>>
    /\ engines = <<[name |-> DefaultName, lock |-> <<>>, knows |-> 0]>>
    /\ onDisk = {DefaultName}
    /\ written = [n \in Name |-> 0]
    /\ pc = Nobody
    /\ req = [t \in Task |-> NoRequest]
    /\ handle = [t \in Task |-> 0]
    /\ local = [t \in Task |-> 0]
    /\ listed = [t \in Task |-> {}]
    /\ acked = [n \in Name |-> 0]
    /\ since = [t \in Task |-> Nothing]
    /\ restarts = 0

Goto(t, step) == pc' = [pc EXCEPT ![t] = step]

(* The task ends and leaves nothing behind.                                *)
End(t) ==
    /\ Goto(t, "idle")
    /\ req' = [req EXCEPT ![t] = NoRequest]
    /\ handle' = [handle EXCEPT ![t] = 0]
    /\ local' = [local EXCEPT ![t] = 0]
    /\ listed' = [listed EXCEPT ![t] = {}]
    /\ since' = [since EXCEPT ![t] = Nothing]
    /\ UNCHANGED <<acked, restarts>>

-----------------------------------------------------------------------------
(* A request that passed the middleware.  /v1/* goes to the default        *)
(* engine, which the router holds itself; /v1/collections/* goes through   *)
(* the map, for the name "default" too.                                    *)
Arrive(t, r, step, h) ==
    /\ pc[t] = "idle"
    /\ req' = [req EXCEPT ![t] = r]
    /\ handle' = [handle EXCEPT ![t] = h]
    /\ since' = [since EXCEPT ![t] =
                    IF r.kind = "list"
                    THEN [acked |-> 0, names |-> onDisk]
                    ELSE [acked |-> acked[r.name], names |-> {}]]
    /\ Goto(t, step)
    /\ UNCHANGED <<registry, engines, onDisk, written, local, listed, acked, restarts>>

ArriveDefault(t) ==
    \E kind \in {"write", "read"} :
        /\ Arrive(t, [kind |-> kind, name |-> DefaultName], "have", 1)
        /\ UNCHANGED mapLock

ArriveNamed(t) ==
    \E kind \in {"write", "read"}, n \in Name :
        /\ Arrive(t, [kind |-> kind, name |-> n], "lookup", 0)
        /\ mapLock' = Ask(mapLock, t, "read")

ArriveList(t) ==
    /\ Arrive(t, [kind |-> "list", name |-> DefaultName], "keys", 0)
    /\ mapLock' = Ask(mapLock, t, "read")

(* get_or_create: look the name up under the read lock, which ends with    *)
(* its block; on a miss ask for the write lock.                            *)
(* Mutant: the read guard lives on while the write lock is awaited. *)
KeepGuard(t) == UNCHANGED mapLock

EndLookup(t) == mapLock' = Drop(mapLock, t)

Lookup(t) ==
    LET e == registry[req[t].name]
    IN  /\ pc[t] = "lookup"
        /\ Holds(mapLock, t)
        /\ IF e # 0 THEN mapLock' = Drop(mapLock, t) ELSE EndLookup(t)
        /\ handle' = [handle EXCEPT ![t] = e]
        /\ Goto(t, IF e # 0 THEN "have" ELSE "miss")
        /\ UNCHANGED <<registry, engines, onDisk, written, req, local, listed, obsVars>>

AskToCreate(t) ==
    /\ pc[t] = "miss"
    /\ mapLock' = Ask(mapLock, t, "write")
    /\ Goto(t, "create")
    /\ UNCHANGED <<registry, engines, onDisk, written, req, handle, local, listed, obsVars>>

(* Another request may have opened the collection in the meantime.         *)
(* Mutant: the map is not looked at again. *)
NoRecheck(name) == 0

Recheck(name) == registry[name]

FoundMeanwhile(t) ==
    /\ pc[t] = "create"
    /\ Holds(mapLock, t)
    /\ Recheck(req[t].name) # 0
    /\ handle' = [handle EXCEPT ![t] = registry[req[t].name]]
    /\ mapLock' = Drop(mapLock, t)
    /\ Goto(t, "have")
    /\ UNCHANGED <<registry, engines, onDisk, written, req, local, listed, obsVars>>

(* Engine::open creates the directory and the log in it ...                *)
MakeDirectory(t) ==
    /\ pc[t] = "create"
    /\ Holds(mapLock, t)
    /\ Recheck(req[t].name) = 0
    /\ Len(engines) < MaxOpens
    /\ onDisk' = onDisk \cup {req[t].name}
    /\ Goto(t, "opened")
    /\ UNCHANGED <<registry, mapLock, engines, written, req, handle, local, listed, obsVars>>

(* ... or fails, before or after that, and the request with it.            *)
OpenFails(t) ==
    /\ \/ pc[t] = "create" /\ Recheck(req[t].name) = 0
       \/ pc[t] = "opened"
    /\ Holds(mapLock, t)
    /\ mapLock' = Drop(mapLock, t)
    /\ End(t)
    /\ UNCHANGED <<registry, engines, onDisk, written>>

Register(t) ==
    LET name == req[t].name
        e    == Len(engines) + 1
    IN  /\ pc[t] = "opened"
        /\ engines' = Append(engines, Open(name))
        /\ registry' = [registry EXCEPT ![name] = e]
        /\ handle' = [handle EXCEPT ![t] = e]
        /\ mapLock' = Drop(mapLock, t)
        /\ Goto(t, "have")
        /\ UNCHANGED <<onDisk, written, req, local, listed, obsVars>>

-----------------------------------------------------------------------------
(* The handler proper: a request the handler itself rejects ends before it *)
(* asks for the engine's lock, but after its collection was opened.        *)
LockMode(kind) == IF kind = "write" THEN "write" ELSE "read"

Reject(t) ==
    /\ pc[t] = "have"
    /\ End(t)
    /\ UNCHANGED managerVars

AskEngine(t) ==
    /\ pc[t] = "have"
    /\ engines' = [engines EXCEPT ![handle[t]].lock = Ask(@, t, LockMode(req[t].kind))]
    /\ Goto(t, "wait")
    /\ UNCHANGED <<registry, mapLock, onDisk, written, req, handle, local, listed, obsVars>>

(* get, search, search_filtered, stats: answered under the read lock.      *)
Read(t) ==
    LET e == handle[t]
    IN  /\ pc[t] = "wait" /\ req[t].kind = "read"
        /\ Holds(engines[e].lock, t)
        /\ local' = [local EXCEPT ![t] = engines[e].knows]
        /\ engines' = [engines EXCEPT ![e].lock = Drop(@, t)]
        /\ Goto(t, "replied")
        /\ UNCHANGED <<registry, mapLock, onDisk, written, req, handle, listed, obsVars>>

(* put, put_batch, delete, and build_index and compact, which store what   *)
(* they read.                                                              *)
BeginWrite(t) ==
    LET e == handle[t]
    IN  /\ pc[t] = "wait" /\ req[t].kind = "write"
        /\ Holds(engines[e].lock, t)
        /\ engines[e].knows < MaxWrites
        /\ local' = [local EXCEPT ![t] = engines[e].knows]
        /\ Goto(t, "update")
        /\ UNCHANGED <<managerVars, req, handle, listed, obsVars>>

(* A write may fail without an effect (beyond the bound every write does), *)
(* or with one: a put whose flush failed is there all the same.            *)
WriteFails(t) ==
    /\ pc[t] = "wait" /\ req[t].kind = "write"
    /\ Holds(engines[handle[t]].lock, t)
    /\ engines' = [engines EXCEPT ![handle[t]].lock = Drop(@, t)]
    /\ End(t)
    /\ UNCHANGED <<registry, mapLock, onDisk, written>>

Store(t) ==
    /\ pc[t] = "update"
    /\ engines' = [engines EXCEPT ![handle[t]].knows = local[t] + 1,
                                  ![handle[t]].lock = Drop(@, t)]
    /\ written' = [written EXCEPT ![req[t].name] = local[t] + 1]
    /\ UNCHANGED <<registry, mapLock, onDisk>>

WriteFailsLate(t) == Store(t) /\ End(t)

EndWrite(t) ==
    /\ Store(t)
    /\ acked' = [acked EXCEPT ![req[t].name] = @ + 1]
    /\ Goto(t, "replied")
    /\ UNCHANGED <<req, handle, local, listed, since, restarts>>

-----------------------------------------------------------------------------
(* list(): the names in the map, then, the lock released, the directories  *)
(* that hold a log.  (They are looked at one by one; all that can change   *)
(* meanwhile is that more of them appear.)                                 *)
Keys(t) ==
    /\ pc[t] = "keys"
    /\ Holds(mapLock, t)
    /\ listed' = [listed EXCEPT ![t] = {n \in Name : registry[n] # 0}]
    /\ mapLock' = Drop(mapLock, t)
    /\ Goto(t, "scan")
    /\ UNCHANGED <<registry, engines, onDisk, written, req, handle, local, obsVars>>

(* Mutant: the directories are not looked at. *)
NoDirectories == {}

Directories == onDisk

Scan(t) ==
    /\ pc[t] = "scan"
    /\ listed' = [listed EXCEPT ![t] = @ \cup Directories]
    /\ Goto(t, "replied")
    /\ UNCHANGED <<managerVars, req, handle, local, obsVars>>

Reply(t) ==
    /\ pc[t] = "replied"
    /\ End(t)
    /\ UNCHANGED managerVars

-----------------------------------------------------------------------------
(* The client goes away: the handler is dropped where it awaits a lock,    *)
(* and with it its place in the queue or the lock it was just given.       *)
Disconnect(t) ==
    /\ pc[t] \in {"lookup", "create", "keys", "wait"}
    /\ mapLock' = Drop(mapLock, t)
    /\ engines' = [e \in DOMAIN engines |-> [engines[e] EXCEPT !.lock = Drop(@, t)]]
    /\ End(t)
    /\ UNCHANGED <<registry, onDisk, written>>

(* The server dies and is started again.  A write it was in the middle of  *)
(* may have reached the disk.                                              *)
Restart ==
    /\ restarts < MaxRestarts
    /\ restarts' = restarts + 1
    /\ \E done \in SUBSET {t \in Task : pc[t] = "update"} :
          written' = [n \in Name |->
              IF \E t \in done : req[t].name = n THEN written[n] + 1 ELSE written[n]]
    /\ registry' = RegisteredAtStart
    /\ mapLock' = <<>>
    /\ engines' = <<[name |-> DefaultName, lock |-> <<>>, knows |-> written'[DefaultName]]>>
    /\ pc' = Nobody
    /\ req' = [t \in Task |-> NoRequest]
    /\ handle' = [t \in Task |-> 0]
    /\ local' = [t \in Task |-> 0]
    /\ listed' = [t \in Task |-> {}]
    /\ since' = [t \in Task |-> Nothing]
    /\ UNCHANGED <<onDisk, acked>>

Arrival(t) == ArriveDefault(t) \/ ArriveNamed(t) \/ ArriveList(t)

TaskStep(t) ==
    \/ Lookup(t) \/ AskToCreate(t) \/ FoundMeanwhile(t) \/ MakeDirectory(t)
    \/ OpenFails(t) \/ Register(t)
    \/ Reject(t) \/ AskEngine(t) \/ Read(t)
    \/ BeginWrite(t) \/ WriteFails(t) \/ WriteFailsLate(t) \/ EndWrite(t)
    \/ Keys(t) \/ Scan(t) \/ Reply(t)

Next ==
    \/ \E t \in Task : Arrival(t) \/ TaskStep(t) \/ Disconnect(t)
    \/ Restart

Spec == Init /\ [][Next]_vars

(* A task that can go on is polled again, whatever else runs: the runtime  *)
(* schedules every task that was woken.  Nothing makes a client come, go   *)
(* away, or the server die.                                                *)
FairSpec == Spec /\ \A t \in Task : WF_vars(TaskStep(t))

-----------------------------------------------------------------------------
(* Safety. *)

(* However many requests miss the same collection at once, a directory     *)
(* never has two open engines, which would not know of each other's writes *)
(* and flush over each other's tables.  (The first conjunct is the type    *)
(* invariant.)                                                             *)
OneEnginePerDirectory ==
    /\ TypeOK
    /\ \A i, j \in DOMAIN engines : engines[i].name = engines[j].name => i = j

(* A read answers with every write to its collection that was answered     *)
(* before it came, by either route, and with none that is not on the disk. *)
ReadsAreCurrent ==
    \A t \in Task : pc[t] = "replied" /\ req[t].kind = "read" =>
        since[t].acked <= local[t] /\ local[t] <= written[req[t].name]

(* No write that was answered is overwritten by another that did not know  *)
(* of it, restarts included.                                               *)
WritesAddUp == \A n \in Name : acked[n] <= written[n]

(* A listing holds every collection there was when it was asked for, those *)
(* of earlier runs that nobody has touched since included.                 *)
ListIsComplete ==
    \A t \in Task : pc[t] = "replied" /\ req[t].kind = "list" =>
        since[t].names \subseteq listed[t]

(* Liveness: every request ends, though others keep coming, hold the locks *)
(* it needs, fail, or are dropped while they hold or await them.           *)
EveryRequestEnds == \A t \in Task : pc[t] # "idle" ~> pc[t] = "idle"

-----------------------------------------------------------------------------
(* The inductive invariant behind the safety properties. *)

(* No task is in a queue twice, not even for two modes.                    *)
Once(lock) == \A i, j \in DOMAIN lock : lock[i].task = lock[j].task => i = j

(* The task has the lock for itself.                                       *)
Owns(lock, t) == 1 \in DOMAIN lock /\ lock[1] = [task |-> t, mode |-> "write"]

(* Who is in the map's queue is in get_or_create or list, and asked for    *)
(* what it needs there.                                                    *)
MapLockInv ==
    /\ Once(mapLock)
    /\ \A i \in DOMAIN mapLock :
          LET t == mapLock[i].task
          IN  /\ pc[t] \in {"lookup", "create", "opened", "keys"}
              /\ pc[t] \in {"create", "opened"} => mapLock[i].mode = "write"

(* While a task opens an engine it has the map to itself, so that what it  *)
(* found there, nothing, stays true.                                       *)
OpeningInv ==
    \A t \in Task : pc[t] = "opened" =>
        Owns(mapLock, t) /\ registry[req[t].name] = 0 /\ Len(engines) < MaxOpens

(* Every engine is registered, under its own name.                         *)
RegistryInv ==
    /\ 1 \in DOMAIN engines /\ engines[1].name = DefaultName
    /\ \A e \in DOMAIN engines : registry[engines[e].name] = e
    /\ \A n \in Name : registry[n] # 0 => engines[registry[n]].name = n

(* Who is in an engine's queue is in a handler that was given this engine. *)
EngineLockInv ==
    \A e \in DOMAIN engines :
        /\ Once(engines[e].lock)
        /\ \A i \in DOMAIN engines[e].lock :
              LET t == engines[e].lock[i].task
              IN  /\ pc[t] \in {"wait", "update"}
                  /\ handle[t] = e
                  /\ engines[e].lock[i].mode = LockMode(req[t].kind)

(* A handler has the engine of the collection it was asked for, and while  *)
(* it writes it has it to itself, so that what it read stays true.         *)
HandleInv ==
    \A t \in Task :
        /\ pc[t] \in {"have", "wait", "update"} =>
              handle[t] # 0 /\ engines[handle[t]].name = req[t].name
        /\ pc[t] = "update" =>
              /\ req[t].kind = "write"
              /\ Owns(engines[handle[t]].lock, t)
              /\ local[t] = engines[handle[t]].knows /\ local[t] < MaxWrites
        /\ pc[t] \in {"keys", "scan"} => req[t].kind = "list"

(* An open engine knows every write in its directory; nothing a request    *)
(* was promised when it came is taken back.                                *)
CountInv ==
    /\ \A e \in DOMAIN engines : engines[e].knows = written[engines[e].name]
    /\ WritesAddUp
    /\ \A t \in Task :
          since[t].acked <= acked[req[t].name] /\ since[t].names \subseteq onDisk

CollectionsInv ==
    /\ TypeOK
    /\ MapLockInv /\ OpeningInv /\ RegistryInv
    /\ EngineLockInv /\ HandleInv
    /\ CountInv /\ ReadsAreCurrent /\ ListIsComplete
=============================================================================
