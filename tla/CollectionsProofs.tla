-------------------------- MODULE CollectionsProofs --------------------------
(***************************************************************************)
(* Proofs about Collections: the safety properties of concurrent requests, *)
(* for any number of tasks, collections, writes and restarts.              *)
(*                                                                         *)
(* The properties follow from CollectionsInv, which adds to them what the  *)
(* two levels of locks protect: while a task opens an engine the map does  *)
(* not change, and while it writes to an engine that engine does not.      *)
(***************************************************************************)
EXTENDS Collections, SequenceTheorems, TLAPS

-----------------------------------------------------------------------------
(* Queues. *)

(* Asking for a lock keeps everyone's place.                               *)
LEMMA AskKeeps ==
    ASSUME NEW lock \in Seq(Entry), NEW t \in Task, NEW mode \in {"read", "write"},
           Once(lock), \A i \in DOMAIN lock : lock[i].task # t
    PROVE  /\ Ask(lock, t, mode) \in Seq(Entry)
           /\ Once(Ask(lock, t, mode))
           /\ \A i \in DOMAIN Ask(lock, t, mode) :
                 \/ i \in DOMAIN lock /\ Ask(lock, t, mode)[i] = lock[i]
                 \/ Ask(lock, t, mode)[i] = [task |-> t, mode |-> mode]
           /\ \A u : Owns(lock, u) => Owns(Ask(lock, t, mode), u)
<1> DEFINE new == [task |-> t, mode |-> mode]
<1>1. new \in Entry /\ new.task = t
  BY DEF Entry
<1>2. /\ Ask(lock, t, mode) \in Seq(Entry)
      /\ Len(Ask(lock, t, mode)) = Len(lock) + 1
      /\ \A i \in 1..Len(lock) : Ask(lock, t, mode)[i] = lock[i]
      /\ Ask(lock, t, mode)[Len(lock) + 1] = new
  BY <1>1, AppendProperties DEF Ask
<1>3. Len(lock) \in Nat /\ DOMAIN lock = 1..Len(lock)
      /\ DOMAIN Ask(lock, t, mode) = 1..Len(lock) + 1
  BY <1>2, LenProperties
<1> HIDE DEF new
<1>4. \A i \in DOMAIN Ask(lock, t, mode) :
         \/ i \in DOMAIN lock /\ Ask(lock, t, mode)[i] = lock[i]
         \/ i = Len(lock) + 1 /\ Ask(lock, t, mode)[i] = new
  BY <1>2, <1>3
<1>5. Once(Ask(lock, t, mode))
  BY <1>1, <1>4 DEF Once
<1>6. \A u : Owns(lock, u) => Owns(Ask(lock, t, mode), u)
  BY <1>2, <1>3 DEF Owns
<1> QED BY <1>2, <1>4, <1>5, <1>6 DEF new

(* Leaving a queue takes nobody else's place.                              *)
LEMMA DropKeeps ==
    ASSUME NEW lock \in Seq(Entry), NEW t \in Task, Once(lock)
    PROVE  /\ Drop(lock, t) \in Seq(Entry)
           /\ Once(Drop(lock, t))
           /\ \A i \in DOMAIN Drop(lock, t) : \E j \in DOMAIN lock :
                 Drop(lock, t)[i] = lock[j] /\ lock[j].task # t
           /\ \A u : u # t /\ Owns(lock, u) => Owns(Drop(lock, t), u)
<1>1. Len(lock) \in Nat /\ DOMAIN lock = 1..Len(lock)
  BY LenProperties
<1>2. CASE \A i \in DOMAIN lock : lock[i].task # t
  <2>1. Drop(lock, t) = lock
    BY <1>2 DEF Drop
  <2> QED BY <1>2, <2>1
<1>3. CASE \E i \in DOMAIN lock : lock[i].task = t
  <2> DEFINE at == CHOOSE i \in DOMAIN lock : lock[i].task = t
             before == SubSeq(lock, 1, at - 1)
             after == SubSeq(lock, at + 1, Len(lock))
             rest == Drop(lock, t)
             From(i) == IF i < at THEN i ELSE i + 1
  <2>1. at \in 1..Len(lock) /\ lock[at].task = t
    BY <1>1, <1>3
  <2>2. rest = before \o after
    BY <1>3 DEF Drop, RemoveAt
  <2> HIDE DEF at, rest
  <2>3. \A i \in 1..Len(lock) : lock[i] \in Entry
    BY ElementOfSeq
  <2>4. /\ before \in Seq(Entry) /\ Len(before) = at - 1
        /\ \A i \in 1..at - 1 : before[i] = lock[i]
    <3>1. \A i \in 1..at - 1 : lock[i] \in Entry
      BY <1>1, <2>1, <2>3
    <3>2. 1 \in Int /\ at - 1 \in Int
      BY <2>1
    <3>3. /\ before \in Seq(Entry)
          /\ Len(before) = IF 1 <= at - 1 THEN at - 1 - 1 + 1 ELSE 0
          /\ \A i \in 1..at - 1 - 1 + 1 : before[i] = lock[1 + i - 1]
      BY <3>1, <3>2, SubSeqProperties
    <3> QED BY <2>1, <3>3
  <2>5. /\ after \in Seq(Entry) /\ Len(after) = Len(lock) - at
        /\ \A i \in 1..Len(lock) - at : after[i] = lock[at + i]
    <3> DEFINE m == at + 1
               n == Len(lock)
    <3>1. m \in Int /\ n \in Int /\ m = at + 1 /\ \A i \in m..n : lock[i] \in Entry
      BY <1>1, <2>1, <2>3
    <3>2. after = SubSeq(lock, m, n)
      BY DEF after
    <3> HIDE DEF m, after
    <3>3. /\ after \in Seq(Entry)
          /\ Len(after) = IF m <= n THEN n - m + 1 ELSE 0
          /\ \A i \in 1..n - m + 1 : after[i] = lock[m + i - 1]
      <4> HIDE DEF n
      <4> QED BY <3>1, <3>2, SubSeqProperties
    <3>4. Len(after) = n - at
      <4>1. CASE m <= n
        BY <1>1, <2>1, <3>1, <3>3, <4>1
      <4>2. CASE ~(m <= n)
        <5>1. n - at = 0
          <6>1. at \in Nat /\ n \in Nat /\ at <= n
            BY <1>1, <2>1
          <6>2. m = at + 1
            BY <3>1
          <6> HIDE DEF n
          <6> QED BY <4>2, <6>1, <6>2
        <5>2. Len(after) = 0
          BY <3>3, <4>2
        <5> QED BY <5>1, <5>2
      <4> QED BY <4>1, <4>2
    <3>5. ASSUME NEW i \in 1..n - at PROVE after[i] = lock[at + i]
      <4>1. i \in 1..n - m + 1 /\ m + i - 1 = at + i
        BY <1>1, <2>1, <3>1
      <4> QED BY <3>3, <4>1
    <3> QED BY <3>3, <3>4, <3>5
  <2> HIDE DEF before, after
  <2>6. /\ rest \in Seq(Entry) /\ Len(rest) = Len(lock) - 1
        /\ \A i \in 1..Len(lock) - 1 : rest[i] = lock[From(i)]
    <3>1. /\ rest \in Seq(Entry) /\ Len(rest) = Len(before) + Len(after)
          /\ \A i \in 1..Len(before) + Len(after) :
                rest[i] = IF i <= Len(before) THEN before[i] ELSE after[i - Len(before)]
      <4> HIDE DEF From
      <4>1. before \in Seq(Entry) /\ after \in Seq(Entry)
        BY <2>4, <2>5
      <4> QED BY <2>2, <4>1, ConcatProperties
    <3>2. Len(rest) = Len(lock) - 1
      BY <1>1, <2>1, <2>4, <2>5, <3>1
    <3>3. ASSUME NEW i \in 1..Len(lock) - 1 PROVE rest[i] = lock[From(i)]
      <4>1. rest[i] = IF i <= at - 1 THEN before[i] ELSE after[i - (at - 1)]
        BY <1>1, <2>1, <2>4, <2>5, <3>1
      <4>2. CASE i < at
        <5>1. i \in 1..at - 1 /\ i <= at - 1
          BY <2>1, <4>2
        <5> QED BY <2>4, <4>1, <4>2, <5>1
      <4>3. CASE ~(i < at)
        <5>1. ~(i <= at - 1) /\ i - (at - 1) \in 1..Len(lock) - at
              /\ at + (i - (at - 1)) = i + 1
          BY <1>1, <2>1, <4>3
        <5> QED BY <2>5, <4>1, <4>3, <5>1
      <4> QED BY <4>2, <4>3
    <3> QED BY <3>1, <3>2, <3>3
  <2>7. DOMAIN rest = 1..Len(lock) - 1
    BY <2>6, LenProperties
  <2>8. \A i \in DOMAIN rest :
           /\ From(i) \in DOMAIN lock /\ rest[i] = lock[From(i)]
           /\ lock[From(i)].task # t
    <3> SUFFICES ASSUME NEW i \in DOMAIN rest
                 PROVE  /\ From(i) \in DOMAIN lock /\ rest[i] = lock[From(i)]
                        /\ lock[From(i)].task # t
      OBVIOUS
    <3>1. From(i) \in 1..Len(lock) /\ From(i) # at
      BY <1>1, <2>1, <2>7
    <3> QED BY <1>1, <2>1, <2>6, <2>7, <3>1 DEF Once
  <2>9. Once(rest)
    <3>1. \A i, j \in DOMAIN rest : From(i) = From(j) => i = j
      BY <1>1, <2>1, <2>7
    <3> QED BY <2>8, <3>1 DEF Once
  <2>10. \A u : u # t /\ Owns(lock, u) => Owns(rest, u)
    <3> SUFFICES ASSUME NEW u, u # t, Owns(lock, u) PROVE Owns(rest, u)
      OBVIOUS
    <3>1. 1 \in DOMAIN lock /\ lock[1].task = u /\ lock[1] = [task |-> u, mode |-> "write"]
      BY DEF Owns
    <3>2. at # 1 /\ From(1) = 1 /\ 1 \in DOMAIN rest
      BY <1>1, <2>1, <2>7, <3>1
    <3> QED BY <2>8, <3>1, <3>2 DEF Owns
  <2> QED BY <2>6, <2>8, <2>9, <2>10 DEF rest
<1> QED BY <1>2, <1>3

(* Who was let in to write has the lock for itself.                        *)
LEMMA WriterOwns ==
    ASSUME NEW lock \in Seq(Entry), NEW t \in Task, Holds(lock, t),
           \A i \in DOMAIN lock : lock[i].task = t => lock[i].mode = "write"
    PROVE  Owns(lock, t)
<1>1. PICK i \in DOMAIN lock :
         lock[i].task = t /\ (i = 1 \/ \A j \in 1..i : lock[j].mode = "read")
  BY DEF Holds
<1>2. i \in 1..i
  BY <1>1, LenProperties
<1>3. i = 1
  BY <1>1, <1>2
<1>4. lock[1] \in Entry
  BY <1>1, <1>3, ElementOfSeq, LenProperties
<1> QED BY <1>1, <1>3, <1>4 DEF Owns, Entry

-----------------------------------------------------------------------------
(* What a step of one request's task leaves alone. *)

OpenEngine == [name : Name, lock : Seq(Entry), knows : 0..MaxWrites]

RequestStep(t) == Arrival(t) \/ TaskStep(t) \/ Disconnect(t)

(* The last steps of a write, and those that end a request early.          *)
StoreStep(t) == WriteFailsLate(t) \/ EndWrite(t)

(* Types of the state, with sequences told by their elements.              *)
LEMMA Shapes ==
    ASSUME TypeOK
    PROVE  /\ Len(engines) \in Nat /\ DOMAIN engines = 1..Len(engines)
           /\ \A e \in DOMAIN engines :
                 /\ engines[e] \in OpenEngine
                 /\ engines[e].name \in Name /\ engines[e].lock \in Seq(Entry)
                 /\ engines[e].knows \in 0..MaxWrites
           /\ \A t \in Task : /\ req[t] \in Request /\ req[t].name \in Name
                              /\ req[t].kind \in Kind
                              /\ handle[t] # 0 => handle[t] \in DOMAIN engines
                              /\ since[t] \in [acked : 0..MaxWrites, names : SUBSET Name]
<1> USE DEF TypeOK
<1>1. engines \in Seq(OpenEngine)
  BY DEF OpenEngine
<1>2. Len(engines) \in Nat /\ DOMAIN engines = 1..Len(engines)
  BY <1>1, LenProperties
<1>3. \A e \in DOMAIN engines : engines[e] \in OpenEngine
  BY <1>1, <1>2, ElementOfSeq
<1>4. \A e \in DOMAIN engines :
         /\ engines[e].name \in Name /\ engines[e].lock \in Seq(Entry)
         /\ engines[e].knows \in 0..MaxWrites
  BY <1>3 DEF OpenEngine
<1>5. \A t \in Task : req[t] \in Request /\ req[t].name \in Name /\ req[t].kind \in Kind
  BY DEF Request
<1>6. \A t \in Task : handle[t] # 0 => handle[t] \in DOMAIN engines
  BY <1>2
<1>7. \A t \in Task : since[t] \in [acked : 0..MaxWrites, names : SUBSET Name]
  OBVIOUS
<1> QED BY <1>2, <1>3, <1>4, <1>5, <1>6, <1>7

(* It changes nothing of any other request.                                *)
LEMMA OthersStay ==
    ASSUME TypeOK, NEW t \in Task, RequestStep(t), NEW u \in Task, u # t
    PROVE  /\ pc'[u] = pc[u] /\ req'[u] = req[u] /\ handle'[u] = handle[u]
           /\ local'[u] = local[u] /\ listed'[u] = listed[u] /\ since'[u] = since[u]
<1> USE DEF TypeOK, Goto, End, obsVars
<1>1. CASE Arrival(t)
  BY <1>1 DEF Arrival, ArriveDefault, ArriveNamed, ArriveList, Arrive
<1>2. CASE Lookup(t) \/ AskToCreate(t) \/ FoundMeanwhile(t) \/ MakeDirectory(t)
  BY <1>2 DEF Lookup, AskToCreate, FoundMeanwhile, MakeDirectory
<1>3. CASE OpenFails(t) \/ Register(t) \/ Reject(t) \/ AskEngine(t)
  BY <1>3 DEF OpenFails, Register, Reject, AskEngine
<1>4. CASE Read(t) \/ BeginWrite(t) \/ WriteFails(t)
  BY <1>4 DEF Read, BeginWrite, WriteFails
<1>5. CASE WriteFailsLate(t) \/ EndWrite(t)
  BY <1>5 DEF WriteFailsLate, EndWrite, Store
<1>6. CASE Keys(t) \/ Scan(t) \/ Reply(t) \/ Disconnect(t)
  BY <1>6 DEF Keys, Scan, Reply, Disconnect
<1> QED BY <1>1, <1>2, <1>3, <1>4, <1>5, <1>6 DEF RequestStep, TaskStep

(* It joins the map's queue, leaves it, or does neither; one that is in it *)
(* and stays goes on to open an engine.                                    *)
LEMMA MapLockMoves ==
    ASSUME TypeOK, NEW t \in Task, RequestStep(t)
    PROVE  \/ /\ pc[t] \in {"idle", "miss"}
              /\ \E mode \in {"read", "write"} :
                    /\ mapLock' = Ask(mapLock, t, mode)
                    /\ pc'[t] \in {"lookup", "create", "keys"}
                    /\ pc'[t] = "create" => mode = "write"
           \/ mapLock' = Drop(mapLock, t) /\ pc'[t] # "opened"
           \/ /\ mapLock' = mapLock /\ pc'[t] # "opened"
              /\ pc[t] \notin {"lookup", "create", "opened", "keys"}
           \/ mapLock' = mapLock /\ MakeDirectory(t) /\ pc'[t] = "opened"
<1> USE DEF TypeOK, Goto, End, obsVars
<1>1. CASE Arrival(t)
  <2>1. CASE ArriveDefault(t)
    BY <2>1 DEF ArriveDefault, Arrive
  <2>2. CASE ArriveNamed(t)
    BY <2>2 DEF ArriveNamed, Arrive
  <2>3. CASE ArriveList(t)
    BY <2>3 DEF ArriveList, Arrive
  <2> QED BY <1>1, <2>1, <2>2, <2>3 DEF Arrival
<1>2. CASE Lookup(t)
  BY <1>2 DEF Lookup, EndLookup
<1>3. CASE AskToCreate(t)
  BY <1>3 DEF AskToCreate
<1>4. CASE FoundMeanwhile(t)
  BY <1>4 DEF FoundMeanwhile
<1>5. CASE MakeDirectory(t)
  BY <1>5 DEF MakeDirectory
<1>6. CASE OpenFails(t) \/ Register(t)
  BY <1>6 DEF OpenFails, Register
<1>7. CASE Reject(t) \/ AskEngine(t)
  BY <1>7 DEF Reject, AskEngine, managerVars
<1>8. CASE Read(t) \/ BeginWrite(t) \/ WriteFails(t)
  BY <1>8 DEF Read, BeginWrite, WriteFails, managerVars
<1>9. CASE WriteFailsLate(t) \/ EndWrite(t)
  BY <1>9 DEF WriteFailsLate, EndWrite, Store
<1>10. CASE Keys(t) \/ Disconnect(t)
  BY <1>10 DEF Keys, Disconnect
<1>11. CASE Scan(t) \/ Reply(t)
  BY <1>11 DEF Scan, Reply, managerVars
<1> QED BY <1>1, <1>2, <1>3, <1>4, <1>5, <1>6, <1>7, <1>8, <1>9, <1>10, <1>11
        DEF RequestStep, TaskStep

(* An engine changed in one place is still an engine.                      *)
LEMMA EngineChanged ==
    ASSUME TypeOK, NEW e \in DOMAIN engines, NEW x \in OpenEngine
    PROVE  LET after == [engines EXCEPT ![e] = x]
           IN  /\ after \in Seq(OpenEngine) /\ Len(after) = Len(engines)
               /\ \A f \in DOMAIN engines : after[f] = IF f = e THEN x ELSE engines[f]
<1>1. engines \in Seq(OpenEngine)
  BY DEF TypeOK, OpenEngine
<1> QED BY <1>1, Shapes, ExceptSeq

(* How a step moves a task in the engines' queues, and what it stores.     *)
EnginesMoved(t) ==
    /\ engines' \in Seq(OpenEngine)
    /\ Len(engines') = Len(engines)
    /\ \A e \in DOMAIN engines :
          /\ engines'[e].name = engines[e].name
          /\ \/ engines'[e].lock = engines[e].lock
             \/ engines'[e].lock = Drop(engines[e].lock, t)
             \/ /\ AskEngine(t) /\ e = handle[t]
                /\ engines'[e].lock = Ask(engines[e].lock, t, LockMode(req[t].kind))
          /\ \/ engines'[e].knows = engines[e].knows /\ ~(StoreStep(t) /\ e = handle[t])
             \/ StoreStep(t) /\ e = handle[t] /\ engines'[e].knows = local[t] + 1
          /\ pc[t] \in {"wait", "update"} /\ e = handle[t] =>
                \/ engines'[e].lock = Drop(engines[e].lock, t) /\ pc'[t] # "update"
                \/ BeginWrite(t) /\ engines' = engines

(* Leaving an engine's queue.                                              *)
LEMMA EngineLeft ==
    ASSUME CollectionsInv, NEW t \in Task, NEW e \in DOMAIN engines,
           NEW k \in 0..MaxWrites,
           engines' = [engines EXCEPT ![e] =
                          [name |-> engines[e].name, lock |-> Drop(engines[e].lock, t), knows |-> k]]
    PROVE  /\ engines' \in Seq(OpenEngine) /\ Len(engines') = Len(engines)
           /\ \A f \in DOMAIN engines : f # e => engines'[f] = engines[f]
           /\ engines'[e].name = engines[e].name /\ engines'[e].knows = k
           /\ engines'[e].lock = Drop(engines[e].lock, t)
<1> DEFINE x == [name |-> engines[e].name, lock |-> Drop(engines[e].lock, t), knows |-> k]
<1>1. TypeOK /\ Once(engines[e].lock)
  BY DEF CollectionsInv, EngineLockInv
<1>2. Drop(engines[e].lock, t) \in Seq(Entry)
  BY <1>1, Shapes, DropKeeps
<1>3. x \in OpenEngine
  BY <1>1, <1>2, Shapes DEF OpenEngine
<1>4. x.name = engines[e].name /\ x.lock = Drop(engines[e].lock, t) /\ x.knows = k
  OBVIOUS
<1> HIDE DEF x
<1> QED BY <1>1, <1>3, <1>4, EngineChanged DEF x

LEMMA EnginesStep ==
    ASSUME CollectionsInv, NEW t \in Task, RequestStep(t), ~Register(t)
    PROVE  EnginesMoved(t)
<1> DEFINE h == handle[t]
<1>1. TypeOK /\ EngineLockInv /\ HandleInv
  BY DEF CollectionsInv
<1>2. engines \in Seq(OpenEngine)
  BY <1>1 DEF TypeOK, OpenEngine
<1>3. /\ Len(engines) \in Nat /\ DOMAIN engines = 1..Len(engines)
      /\ \A e \in DOMAIN engines :
            /\ engines[e] \in OpenEngine /\ engines[e].name \in Name
            /\ engines[e].lock \in Seq(Entry) /\ engines[e].knows \in 0..MaxWrites
      /\ h # 0 => h \in DOMAIN engines
      /\ req[t].kind \in Kind
  BY <1>1, Shapes
<1>4. pc[t] \in {"have", "wait", "update"} => h \in DOMAIN engines
  BY <1>1, <1>3 DEF HandleInv
<1>5. MaxWrites \in Nat /\ local[t] \in 0..MaxWrites
  BY <1>1, CollectionsAssumption DEF TypeOK
<1>6. ASSUME engines' = engines, ~StoreStep(t), pc[t] \notin {"wait", "update"} \/ BeginWrite(t)
      PROVE  EnginesMoved(t)
  BY <1>2, <1>6 DEF EnginesMoved
<1>7. ASSUME NEW k \in 0..MaxWrites, h \in DOMAIN engines,
             engines' = [engines EXCEPT ![h] =
                [name |-> engines[h].name, lock |-> Drop(engines[h].lock, t), knows |-> k]],
             \/ k = engines[h].knows /\ ~StoreStep(t)
             \/ StoreStep(t) /\ k = local[t] + 1,
             pc'[t] # "update"
      PROVE  EnginesMoved(t)
  <2>1. /\ engines' \in Seq(OpenEngine) /\ Len(engines') = Len(engines)
        /\ \A f \in DOMAIN engines : f # h => engines'[f] = engines[f]
        /\ engines'[h].name = engines[h].name /\ engines'[h].knows = k
        /\ engines'[h].lock = Drop(engines[h].lock, t)
    BY <1>7, EngineLeft
  <2> HIDE DEF h
  <2>2. h = handle[t]
    BY DEF h
  <2> QED BY <1>7, <2>1, <2>2 DEF EnginesMoved
<1>8. CASE Arrival(t) \/ Lookup(t) \/ AskToCreate(t) \/ FoundMeanwhile(t) \/ MakeDirectory(t)
           \/ Reject(t) \/ Keys(t) \/ Scan(t) \/ Reply(t) \/ OpenFails(t)
  <2>1. engines' = engines /\ pc[t] \notin {"wait", "update"}
    BY <1>8 DEF Arrival, ArriveDefault, ArriveNamed, ArriveList, Arrive, Lookup, AskToCreate,
                FoundMeanwhile, MakeDirectory, Reject, Keys, Scan, Reply, OpenFails, managerVars
  <2>2. ~StoreStep(t)
    BY <2>1 DEF StoreStep, WriteFailsLate, EndWrite, Store
  <2> QED BY <1>6, <2>1, <2>2
<1>9. CASE BeginWrite(t)
  <2>1. engines' = engines /\ ~StoreStep(t)
    BY <1>9 DEF BeginWrite, managerVars, StoreStep, WriteFailsLate, EndWrite, Store
  <2> QED BY <1>6, <1>9, <2>1
<1>10. CASE AskEngine(t)
  <2> DEFINE x == [name |-> engines[h].name,
                   lock |-> Ask(engines[h].lock, t, LockMode(req[t].kind)),
                   knows |-> engines[h].knows]
  <2>1. pc[t] = "have" /\ h \in DOMAIN engines
    BY <1>4, <1>10 DEF AskEngine
  <2>2. Once(engines[h].lock) /\ \A i \in DOMAIN engines[h].lock : engines[h].lock[i].task # t
    BY <1>1, <2>1 DEF EngineLockInv
  <2>3. Ask(engines[h].lock, t, LockMode(req[t].kind)) \in Seq(Entry)
    BY <1>3, <2>1, <2>2, AskKeeps DEF LockMode
  <2>4. x \in OpenEngine
    BY <1>3, <2>1, <2>3 DEF OpenEngine
  <2>5. engines' = [engines EXCEPT ![h] = x]
    <3>1. engines' = [engines EXCEPT ![h].lock = Ask(@, t, LockMode(req[t].kind))]
      BY <1>10 DEF AskEngine
    <3>2. engines[h] \in OpenEngine
      BY <1>3, <2>1
    <3>3. x = [engines[h] EXCEPT !.lock = Ask(engines[h].lock, t, LockMode(req[t].kind))]
      BY <3>2 DEF OpenEngine
    <3> HIDE DEF x
    <3> QED BY <3>1, <3>3
  <2>6. /\ x.name = engines[h].name /\ x.knows = engines[h].knows
        /\ x.lock = Ask(engines[h].lock, t, LockMode(req[t].kind))
    OBVIOUS
  <2>7. ~StoreStep(t)
    BY <2>1 DEF StoreStep, WriteFailsLate, EndWrite, Store
  <2> HIDE DEF x
  <2>8. /\ engines' \in Seq(OpenEngine) /\ Len(engines') = Len(engines)
        /\ \A f \in DOMAIN engines : engines'[f] = IF f = h THEN x ELSE engines[f]
    BY <1>1, <2>1, <2>4, <2>5, EngineChanged
  <2> QED BY <1>10, <2>1, <2>6, <2>7, <2>8 DEF EnginesMoved
<1>11. CASE Read(t) \/ WriteFails(t)
  <2>1. pc[t] = "wait" /\ h \in DOMAIN engines
    BY <1>4, <1>11 DEF Read, WriteFails
  <2>2. engines' = [engines EXCEPT ![h] = [name |-> engines[h].name,
                       lock |-> Drop(engines[h].lock, t), knows |-> engines[h].knows]]
    BY <1>3, <1>11, <2>1 DEF Read, WriteFails, OpenEngine
  <2>3. ~StoreStep(t) /\ pc'[t] # "update"
    BY <1>1, <1>11, <2>1 DEF StoreStep, WriteFailsLate, EndWrite, Store, Read, WriteFails, End,
                             Goto, TypeOK
  <2> QED BY <1>3, <1>7, <2>1, <2>2, <2>3
<1>12. CASE StoreStep(t)
  <2>1. pc[t] = "update" /\ h \in DOMAIN engines
    BY <1>4, <1>12 DEF StoreStep, WriteFailsLate, EndWrite, Store
  <2>2. engines' = [engines EXCEPT ![h] = [name |-> engines[h].name,
                       lock |-> Drop(engines[h].lock, t), knows |-> local[t] + 1]]
    BY <1>3, <1>12, <2>1 DEF StoreStep, WriteFailsLate, EndWrite, Store, OpenEngine
  <2>3. local[t] + 1 \in 0..MaxWrites
    BY <1>1, <1>5, <2>1 DEF HandleInv
  <2>4. pc'[t] # "update"
    BY <1>1, <1>12 DEF StoreStep, WriteFailsLate, EndWrite, End, Goto, TypeOK
  <2> QED BY <1>7, <1>12, <2>1, <2>2, <2>3, <2>4
<1>13. CASE Disconnect(t)
  <2> DEFINE Left(e) == [engines[e] EXCEPT !.lock = Drop(@, t)]
  <2>1. engines' = [e \in 1..Len(engines) |-> Left(e)]
    BY <1>3, <1>13 DEF Disconnect
  <2>2. \A e \in 1..Len(engines) :
           /\ Left(e) \in OpenEngine /\ Left(e).name = engines[e].name
           /\ Left(e).knows = engines[e].knows /\ Left(e).lock = Drop(engines[e].lock, t)
    <3> TAKE e \in 1..Len(engines)
    <3>1. Drop(engines[e].lock, t) \in Seq(Entry)
      BY <1>1, <1>3, DropKeeps DEF EngineLockInv
    <3> QED BY <1>3, <3>1 DEF OpenEngine
  <2>3. ~StoreStep(t) /\ ~BeginWrite(t) /\ pc'[t] # "update"
    BY <1>1, <1>13 DEF StoreStep, WriteFailsLate, EndWrite, Store, Disconnect, End, Goto, TypeOK,
                       BeginWrite
  <2> HIDE DEF Left
  <2>4. engines' \in Seq(OpenEngine) /\ Len(engines') = Len(engines)
    <3>1. engines' \in [1..Len(engines) -> OpenEngine]
      BY <2>1, <2>2
    <3> QED BY <1>3, <3>1, SeqDef, LenProperties
  <2>5. \A e \in DOMAIN engines : engines'[e] = Left(e)
    BY <1>3, <2>1
  <2> QED BY <1>3, <2>2, <2>3, <2>4, <2>5 DEF EnginesMoved
<1> QED BY <1>8, <1>9, <1>10, <1>11, <1>12, <1>13 DEF RequestStep, TaskStep, StoreStep

(* A new engine knows what its directory holds.                            *)
LEMMA RegisterStep ==
    ASSUME CollectionsInv, NEW t \in Task, Register(t)
    PROVE  /\ engines' \in Seq(OpenEngine)
           /\ Len(engines') = Len(engines) + 1
           /\ \A e \in DOMAIN engines : engines'[e] = engines[e]
           /\ LET new == engines'[Len(engines) + 1]
              IN  /\ new.name = req[t].name /\ new.knows = written[req[t].name]
                  /\ new.lock = <<>>
<1>1. TypeOK /\ engines \in Seq(OpenEngine)
  BY DEF CollectionsInv, TypeOK, OpenEngine
<1>2. req[t].name \in Name /\ written[req[t].name] \in 0..MaxWrites
  BY <1>1, Shapes DEF TypeOK
<1>3. <<>> \in Seq(Entry)
  BY EmptySeq
<1>4. /\ Open(req[t].name) \in OpenEngine /\ Open(req[t].name).name = req[t].name
      /\ Open(req[t].name).knows = written[req[t].name] /\ Open(req[t].name).lock = <<>>
  BY <1>2, <1>3 DEF Open, OpenEngine
<1>5. engines' = Append(engines, Open(req[t].name))
  BY DEF Register
<1>6. DOMAIN engines = 1..Len(engines)
  BY <1>1, Shapes
<1> QED BY <1>1, <1>4, <1>5, <1>6, AppendProperties

-----------------------------------------------------------------------------
(* A step of a request's task keeps the types ... *)

LEMMA TypeStep ==
    ASSUME CollectionsInv, NEW t \in Task, RequestStep(t)
    PROVE  TypeOK'
<1> DEFINE Rest == /\ onDisk' \subseteq Name
                   /\ written' \in [Name -> 0..MaxWrites]
                   /\ pc' \in [Task -> Step]
                   /\ req' \in [Task -> Request]
                   /\ local' \in [Task -> 0..MaxWrites]
                   /\ listed' \in [Task -> SUBSET Name]
                   /\ acked' \in [Name -> 0..MaxWrites]
                   /\ since' \in [Task -> [acked : 0..MaxWrites, names : SUBSET Name]]
                   /\ restarts' \in 0..MaxRestarts
           Handles(n) == /\ registry' \in [Name -> 0..n]
                         /\ handle' \in [Task -> 0..n]
<1>1. TypeOK /\ MapLockInv /\ OpeningInv /\ HandleInv /\ WritesAddUp
  BY DEF CollectionsInv, CountInv
<1>2. /\ Len(engines) \in Nat /\ DOMAIN engines = 1..Len(engines)
      /\ req[t] \in Request /\ req[t].name \in Name /\ req[t].kind \in Kind
      /\ handle[t] # 0 => handle[t] \in DOMAIN engines
      /\ \A e \in DOMAIN engines : engines[e].knows \in 0..MaxWrites
  BY <1>1, Shapes
<1>3. DefaultName \in Name /\ MaxWrites \in Nat /\ MaxOpens \in Nat
  BY CollectionsAssumption
<1>4. mapLock' \in Seq(Entry)
  <2>1. mapLock \in Seq(Entry) /\ Once(mapLock)
    BY <1>1 DEF TypeOK, MapLockInv
  <2>2. pc[t] \in {"idle", "miss"} => \A i \in DOMAIN mapLock : mapLock[i].task # t
    BY <1>1 DEF MapLockInv
  <2>3. \/ mapLock' = mapLock \/ mapLock' = Drop(mapLock, t)
        \/ /\ pc[t] \in {"idle", "miss"}
           /\ \E mode \in {"read", "write"} : mapLock' = Ask(mapLock, t, mode)
    BY <1>1, MapLockMoves
  <2>4. Drop(mapLock, t) \in Seq(Entry)
    BY <2>1, DropKeeps
  <2>5. ASSUME pc[t] \in {"idle", "miss"}, NEW mode \in {"read", "write"}
        PROVE  Ask(mapLock, t, mode) \in Seq(Entry)
    BY <2>1, <2>2, <2>5, AskKeeps
  <2> QED BY <2>1, <2>3, <2>4, <2>5
<1>5. engines' \in Seq(OpenEngine) /\ Len(engines') <= MaxOpens
      /\ Len(engines') = IF Register(t) THEN Len(engines) + 1 ELSE Len(engines)
  <2>1. CASE Register(t)
    <3>1. Len(engines) < MaxOpens
      BY <1>1, <2>1 DEF Register, OpeningInv
    <3> QED BY <1>2, <1>3, <2>1, <3>1, RegisterStep
  <2>2. CASE ~Register(t)
    BY <1>1, <2>2, EnginesStep DEF EnginesMoved, TypeOK
  <2> QED BY <2>1, <2>2
<1>6. NoRequest \in Request /\ Nothing \in [acked : 0..MaxWrites, names : SUBSET Name]
  BY <1>3 DEF NoRequest, Nothing, Request, Kind
<1>7. ASSUME End(t) PROVE /\ pc' \in [Task -> Step] /\ req' \in [Task -> Request]
                          /\ handle' \in [Task -> 0..Len(engines)]
                          /\ local' \in [Task -> 0..MaxWrites]
                          /\ listed' \in [Task -> SUBSET Name]
                          /\ since' \in [Task -> [acked : 0..MaxWrites, names : SUBSET Name]]
                          /\ acked' = acked /\ restarts' = restarts
  BY <1>1, <1>2, <1>3, <1>6, <1>7 DEF End, Goto, TypeOK, Step
<1>8. CASE Arrival(t)
  <2>1. ASSUME NEW r \in Request, NEW step \in Step, NEW h \in 0..Len(engines), Arrive(t, r, step, h)
        PROVE  Rest /\ Handles(Len(engines))
    <3>1. r.name \in Name
      BY DEF Request
    <3>2. since' \in [Task -> [acked : 0..MaxWrites, names : SUBSET Name]]
      <4> DEFINE s == IF r.kind = "list" THEN [acked |-> 0, names |-> onDisk]
                                         ELSE [acked |-> acked[r.name], names |-> {}]
      <4>1. s \in [acked : 0..MaxWrites, names : SUBSET Name]
        BY <1>1, <1>3, <3>1 DEF TypeOK
      <4>2. since' = [since EXCEPT ![t] = s]
        BY <2>1 DEF Arrive
      <4> HIDE DEF s
      <4> QED BY <1>1, <4>1, <4>2 DEF TypeOK
    <3> QED BY <1>1, <1>2, <2>1, <3>2 DEF Arrive, TypeOK, Goto
  <2>2. 1 \in 0..Len(engines) /\ 0 \in 0..Len(engines)
    BY <1>2 DEF CollectionsInv, RegistryInv
  <2>3. /\ \A kind \in Kind, n \in Name : [kind |-> kind, name |-> n] \in Request
        /\ "have" \in Step /\ "lookup" \in Step /\ "keys" \in Step
    BY DEF Request, Step
  <2>4. Rest /\ Handles(Len(engines))
    BY <1>3, <1>8, <2>1, <2>2, <2>3 DEF Arrival, ArriveDefault, ArriveNamed, ArriveList, Kind
  <2>5. ~Register(t)
    BY <1>8 DEF Arrival, ArriveDefault, ArriveNamed, ArriveList, Arrive, Register
  <2> QED BY <1>4, <1>5, <2>4, <2>5 DEF TypeOK, OpenEngine
<1>9. CASE Register(t)
  <2>1. Rest /\ Handles(Len(engines) + 1)
    BY <1>1, <1>2, <1>9 DEF Register, TypeOK, Goto, Step, obsVars
  <2> QED BY <1>4, <1>5, <1>9, <2>1 DEF TypeOK, OpenEngine
<1>10. CASE ~Arrival(t) /\ ~Register(t)
  <2>1. ASSUME Lookup(t) \/ AskToCreate(t) \/ FoundMeanwhile(t) \/ MakeDirectory(t)
        PROVE  Rest /\ Handles(Len(engines))
    BY <1>1, <1>2, <2>1 DEF Lookup, AskToCreate, FoundMeanwhile, MakeDirectory, TypeOK, Goto,
                            Step, obsVars
  <2>2. ASSUME OpenFails(t) \/ Reject(t) \/ WriteFails(t) \/ Reply(t) \/ Disconnect(t)
        PROVE  Rest /\ Handles(Len(engines))
    BY <1>1, <1>7, <2>2 DEF OpenFails, Reject, WriteFails, Reply, Disconnect, TypeOK, managerVars
  <2>3. ASSUME AskEngine(t) \/ Keys(t) \/ Scan(t)
        PROVE  Rest /\ Handles(Len(engines))
    <3>1. CASE AskEngine(t)
      BY <1>1, <1>2, <3>1 DEF AskEngine, TypeOK, Goto, Step, obsVars
    <3>2. CASE Keys(t)
      BY <1>1, <1>2, <3>2 DEF Keys, TypeOK, Goto, Step, obsVars
    <3>3. CASE Scan(t)
      <4>1. listed[t] \cup onDisk \in SUBSET Name
        BY <1>1 DEF TypeOK
      <4>2. listed' = [listed EXCEPT ![t] = listed[t] \cup onDisk]
        BY <3>3 DEF Scan, Directories
      <4> QED BY <1>1, <1>2, <3>3, <4>1, <4>2 DEF Scan, TypeOK, Goto, Step, obsVars, managerVars
    <3> QED BY <2>3, <3>1, <3>2, <3>3
  <2>4. ASSUME Read(t) \/ BeginWrite(t)
        PROVE  Rest /\ Handles(Len(engines))
    <3>1. handle[t] \in DOMAIN engines
      BY <1>1, <1>2, <2>4 DEF HandleInv, Read, BeginWrite
    <3> QED BY <1>1, <1>2, <2>4, <3>1 DEF Read, BeginWrite, TypeOK, Goto, Step, obsVars, managerVars
  <2>5. ASSUME StoreStep(t)
        PROVE  Rest /\ Handles(Len(engines))
    <3>1. local[t] \in 0..MaxWrites /\ local[t] + 1 \in 0..MaxWrites
      <4>1. pc[t] = "update"
        BY <2>5 DEF StoreStep, WriteFailsLate, EndWrite, Store
      <4>2. local[t] \in 0..MaxWrites /\ local[t] < MaxWrites
        BY <1>1, <4>1 DEF HandleInv, TypeOK
      <4> QED BY <1>3, <4>2
    <3>2. ASSUME EndWrite(t) PROVE acked[req[t].name] + 1 \in 0..MaxWrites
      <4>1. pc[t] = "update"
        BY <3>2 DEF EndWrite, Store
      <4>2. handle[t] \in DOMAIN engines /\ engines[handle[t]].name = req[t].name
            /\ local[t] = engines[handle[t]].knows
        BY <1>1, <1>2, <4>1 DEF HandleInv
      <4>3. acked[req[t].name] <= local[t]
        BY <1>2, <4>2 DEF CollectionsInv, CountInv, WritesAddUp
      <4>4. acked[req[t].name] \in Nat /\ local[t] \in Nat
        BY <1>1, <1>2 DEF TypeOK
      <4> QED BY <1>3, <3>1, <4>3, <4>4
    <3>3. CASE WriteFailsLate(t)
      BY <1>1, <1>2, <1>7, <3>1, <3>3 DEF WriteFailsLate, Store, TypeOK
    <3>4. CASE EndWrite(t)
      BY <1>1, <1>2, <3>1, <3>2, <3>4 DEF EndWrite, Store, TypeOK, Goto, Step
    <3> QED BY <2>5, <3>3, <3>4 DEF StoreStep
  <2>6. Rest /\ Handles(Len(engines))
    BY <1>10, <2>1, <2>2, <2>3, <2>4, <2>5 DEF RequestStep, TaskStep, StoreStep
  <2> QED BY <1>4, <1>5, <1>10, <2>6 DEF TypeOK, OpenEngine
<1> QED BY <1>8, <1>9, <1>10

(* ... the map's queue, where it joins or leaves as itself only ...        *)
LEMMA MapLockStep ==
    ASSUME CollectionsInv, NEW t \in Task, RequestStep(t)
    PROVE  MapLockInv'
<1>1. TypeOK /\ MapLockInv /\ TypeOK'
  BY TypeStep DEF CollectionsInv
<1>2. mapLock \in Seq(Entry) /\ Once(mapLock)
      /\ \A i \in DOMAIN mapLock : mapLock[i] \in Entry /\ mapLock[i].task \in Task
  <2>1. mapLock \in Seq(Entry) /\ Once(mapLock)
    BY <1>1 DEF TypeOK, MapLockInv
  <2>2. ASSUME NEW i \in DOMAIN mapLock PROVE mapLock[i] \in Entry
    <3>1. i \in 1..Len(mapLock)
      BY <2>1, LenProperties
    <3> QED BY <2>1, <3>1, ElementOfSeq
  <2>3. \A e \in Entry : e.task \in Task
    BY DEF Entry
  <2> QED BY <2>1, <2>2, <2>3
<1> DEFINE Fits(e) == /\ pc'[e.task] \in {"lookup", "create", "opened", "keys"}
                      /\ pc'[e.task] \in {"create", "opened"} => e.mode = "write"
<1>3. \A i \in DOMAIN mapLock : mapLock[i].task # t => Fits(mapLock[i])
  <2> SUFFICES ASSUME NEW i \in DOMAIN mapLock, mapLock[i].task # t PROVE Fits(mapLock[i])
    OBVIOUS
  <2>1. pc'[mapLock[i].task] = pc[mapLock[i].task]
    BY <1>1, <1>2, OthersStay
  <2> QED BY <1>1, <2>1 DEF MapLockInv
<1>4. ASSUME Once(mapLock'), \A i \in DOMAIN mapLock' : Fits(mapLock'[i])
      PROVE  MapLockInv'
  BY <1>4 DEF MapLockInv, Once
<1>5. CASE mapLock' = Drop(mapLock, t)
  <2>1. Once(Drop(mapLock, t))
        /\ \A i \in DOMAIN Drop(mapLock, t) : \E j \in DOMAIN mapLock :
              Drop(mapLock, t)[i] = mapLock[j] /\ mapLock[j].task # t
    BY <1>2, DropKeeps
  <2> HIDE DEF Fits
  <2>2. \A i \in DOMAIN mapLock' : Fits(mapLock'[i])
    BY <1>3, <1>5, <2>1
  <2> QED BY <1>4, <1>5, <2>1, <2>2
<1>6. ASSUME pc[t] \in {"idle", "miss"}, NEW mode \in {"read", "write"},
             mapLock' = Ask(mapLock, t, mode), pc'[t] \in {"lookup", "create", "keys"},
             pc'[t] = "create" => mode = "write"
      PROVE  MapLockInv'
  <2>1. \A i \in DOMAIN mapLock : mapLock[i].task # t
    BY <1>1, <1>6 DEF MapLockInv
  <2>2. Once(Ask(mapLock, t, mode))
        /\ \A i \in DOMAIN Ask(mapLock, t, mode) :
              \/ i \in DOMAIN mapLock /\ Ask(mapLock, t, mode)[i] = mapLock[i]
              \/ Ask(mapLock, t, mode)[i] = [task |-> t, mode |-> mode]
    BY <1>2, <2>1, AskKeeps
  <2>3. Fits([task |-> t, mode |-> mode])
    BY <1>6
  <2> HIDE DEF Fits
  <2>4. \A i \in DOMAIN mapLock' : Fits(mapLock'[i])
    BY <1>3, <1>6, <2>1, <2>2, <2>3
  <2> QED BY <1>4, <1>6, <2>2, <2>4
<1>7. CASE mapLock' = mapLock /\ pc[t] \notin {"lookup", "create", "opened", "keys"}
  <2>1. \A i \in DOMAIN mapLock : mapLock[i].task # t
    BY <1>1, <1>7 DEF MapLockInv
  <2> QED BY <1>2, <1>3, <1>4, <1>7, <2>1
<1>8. CASE mapLock' = mapLock /\ MakeDirectory(t) /\ pc'[t] = "opened"
  <2>1. \A i \in DOMAIN mapLock : mapLock[i].task = t => mapLock[i].mode = "write"
    BY <1>1, <1>8 DEF MapLockInv, MakeDirectory
  <2>2. \A i \in DOMAIN mapLock : mapLock[i].task = t => Fits(mapLock[i])
    BY <1>8, <2>1
  <2> QED BY <1>2, <1>3, <1>4, <1>8, <2>2
<1> QED BY <1>1, <1>5, <1>6, <1>7, <1>8, MapLockMoves

(* ... the exclusiveness of opening an engine ...                          *)
LEMMA OpeningStep ==
    ASSUME CollectionsInv, NEW t \in Task, RequestStep(t)
    PROVE  OpeningInv'
<1>1. TypeOK /\ MapLockInv /\ OpeningInv
  BY DEF CollectionsInv
<1>2. mapLock \in Seq(Entry) /\ Once(mapLock)
  BY <1>1 DEF TypeOK, MapLockInv
<1> SUFFICES ASSUME NEW u \in Task, pc'[u] = "opened"
             PROVE  /\ Owns(mapLock', u) /\ registry'[req'[u].name] = 0
                    /\ Len(engines') < MaxOpens
  BY DEF OpeningInv, Owns
<1>3. CASE u = t
  <2>1. MakeDirectory(t) /\ mapLock' = mapLock
    BY <1>1, <1>3, MapLockMoves
  <2>2. \A i \in DOMAIN mapLock : mapLock[i].task = t => mapLock[i].mode = "write"
    BY <1>1, <2>1 DEF MapLockInv, MakeDirectory
  <2>3. Owns(mapLock, t)
    BY <1>2, <2>1, <2>2, WriterOwns DEF MakeDirectory
  <2> QED BY <1>3, <2>1, <2>3 DEF MakeDirectory, Recheck
<1>4. CASE u # t
  <2>1. pc[u] = "opened" /\ req'[u] = req[u]
    BY <1>1, <1>4, OthersStay
  <2>2. Owns(mapLock, u) /\ registry[req[u].name] = 0 /\ Len(engines) < MaxOpens
    BY <1>1, <2>1 DEF OpeningInv
  <2>3. ~Owns(mapLock, t) /\ mapLock[1].task = u
    BY <1>4, <2>2 DEF Owns
  <2>4. ~Register(t)
    BY <1>1, <2>3 DEF OpeningInv, Register
  <2>5. Len(engines') = Len(engines)
    BY <2>4, EnginesStep DEF EnginesMoved
  <2>6. registry' = registry
    BY <2>4 DEF RequestStep, Arrival, ArriveDefault, ArriveNamed, ArriveList, Arrive, TaskStep,
       Lookup, AskToCreate, FoundMeanwhile, MakeDirectory, OpenFails, Reject, AskEngine, Read,
       BeginWrite, WriteFails, WriteFailsLate, EndWrite, Store, Keys, Scan, Reply, Disconnect,
       managerVars
  <2>7. Owns(mapLock', u)
    <3>1. \/ mapLock' = mapLock \/ mapLock' = Drop(mapLock, t)
          \/ /\ pc[t] \in {"idle", "miss"}
             /\ \E mode \in {"read", "write"} : mapLock' = Ask(mapLock, t, mode)
      BY <1>1, MapLockMoves
    <3>2. pc[t] \in {"idle", "miss"} => \A i \in DOMAIN mapLock : mapLock[i].task # t
      BY <1>1 DEF MapLockInv
    <3>3. Owns(Drop(mapLock, t), u)
      BY <1>2, <1>4, <2>2, DropKeeps
    <3>4. ASSUME pc[t] \in {"idle", "miss"}, NEW mode \in {"read", "write"}
          PROVE  Owns(Ask(mapLock, t, mode), u)
      BY <1>2, <2>2, <3>2, <3>4, AskKeeps
    <3> QED BY <2>2, <3>1, <3>3, <3>4
  <2> QED BY <2>1, <2>2, <2>5, <2>6, <2>7
<1> QED BY <1>3, <1>4

(* ... the agreement of map and engines: only a name without an engine     *)
(* gets one ...                                                            *)
LEMMA RegistryStep ==
    ASSUME CollectionsInv, NEW t \in Task, RequestStep(t)
    PROVE  RegistryInv'
<1>1. TypeOK /\ RegistryInv /\ OpeningInv
  BY DEF CollectionsInv
<1>2. /\ Len(engines) \in Nat /\ DOMAIN engines = 1..Len(engines)
      /\ \A e \in DOMAIN engines : engines[e].name \in Name
      /\ req[t].name \in Name
      /\ registry \in [Name -> 0..Len(engines)]
  BY <1>1, Shapes DEF TypeOK
<1>3. CASE Register(t)
  <2> DEFINE e == Len(engines) + 1
             name == req[t].name
  <2>1. /\ engines' \in Seq(OpenEngine) /\ Len(engines') = e
        /\ \A f \in DOMAIN engines : engines'[f] = engines[f]
        /\ engines'[e].name = name
    BY <1>3, RegisterStep
  <2>2. DOMAIN engines' = 1..e
    BY <2>1, LenProperties
  <2>3. registry' = [registry EXCEPT ![name] = e]
    BY <1>3 DEF Register
  <2>4. registry[name] = 0
    BY <1>1, <1>3 DEF OpeningInv, Register
  <2>5. 1 \in DOMAIN engines' /\ engines'[1].name = DefaultName
    BY <1>1, <1>2, <2>1, <2>2 DEF RegistryInv
  <2>6. ASSUME NEW f \in DOMAIN engines' PROVE registry'[engines'[f].name] = f
    <3>1. CASE f = e
      BY <1>2, <2>1, <2>3, <3>1
    <3>2. CASE f # e
      <4>1. f \in DOMAIN engines
        BY <1>2, <2>2, <3>2
      <4>2. registry[engines[f].name] = f /\ f # 0
        BY <1>1, <1>2, <4>1 DEF RegistryInv
      <4> QED BY <1>2, <2>1, <2>3, <2>4, <4>1, <4>2
    <3> QED BY <3>1, <3>2
  <2>7. ASSUME NEW n \in Name, registry'[n] # 0 PROVE engines'[registry'[n]].name = n
    <3>1. CASE n = name
      BY <1>2, <2>1, <2>3, <3>1
    <3>2. CASE n # name
      <4>1. registry'[n] = registry[n]
        BY <1>2, <2>3, <3>2
      <4>2. registry[n] \in DOMAIN engines /\ engines[registry[n]].name = n
        BY <1>1, <1>2, <2>7, <4>1 DEF RegistryInv
      <4> QED BY <2>1, <4>1, <4>2
    <3> QED BY <3>1, <3>2
  <2> QED BY <2>5, <2>6, <2>7 DEF RegistryInv
<1>4. CASE ~Register(t)
  <2>1. /\ engines' \in Seq(OpenEngine) /\ Len(engines') = Len(engines)
        /\ \A e \in DOMAIN engines : engines'[e].name = engines[e].name
    BY <1>4, EnginesStep DEF EnginesMoved
  <2>2. DOMAIN engines' = DOMAIN engines
    BY <1>2, <2>1, LenProperties
  <2>3. registry' = registry
    BY <1>4 DEF RequestStep, Arrival, ArriveDefault, ArriveNamed, ArriveList, Arrive, TaskStep,
       Lookup, AskToCreate, FoundMeanwhile, MakeDirectory, OpenFails, Reject, AskEngine, Read,
       BeginWrite, WriteFails, WriteFailsLate, EndWrite, Store, Keys, Scan, Reply, Disconnect,
       managerVars
  <2>4. \A n \in Name : registry[n] # 0 => registry[n] \in DOMAIN engines
    BY <1>2
  <2> QED BY <1>1, <2>1, <2>2, <2>3, <2>4 DEF RegistryInv
<1> QED BY <1>3, <1>4

(* ... the queues of the engines ...                                       *)
LEMMA EngineLockStep ==
    ASSUME CollectionsInv, NEW t \in Task, RequestStep(t)
    PROVE  EngineLockInv'
<1>1. TypeOK /\ EngineLockInv
  BY DEF CollectionsInv
<1>2. /\ Len(engines) \in Nat /\ DOMAIN engines = 1..Len(engines)
      /\ \A e \in DOMAIN engines : engines[e].lock \in Seq(Entry)
  BY <1>1, Shapes
<1> DEFINE Fits(e, x) == /\ pc'[x.task] \in {"wait", "update"} /\ handle'[x.task] = e
                         /\ x.mode = LockMode(req'[x.task].kind)
<1>3. SUFFICES ASSUME NEW e \in DOMAIN engines'
               PROVE  /\ Once(engines'[e].lock)
                      /\ \A i \in DOMAIN engines'[e].lock : Fits(e, engines'[e].lock[i])
  BY DEF EngineLockInv, Once
<1>4. ASSUME e \in DOMAIN engines, NEW i \in DOMAIN engines[e].lock, engines[e].lock[i].task # t
      PROVE  Fits(e, engines[e].lock[i])
  <2>1. engines[e].lock[i] \in Entry
    <3>1. i \in 1..Len(engines[e].lock)
      BY <1>2, <1>4, LenProperties
    <3> QED BY <1>2, <1>4, <3>1, ElementOfSeq
  <2>2. engines[e].lock[i].task \in Task
    BY <2>1 DEF Entry
  <2>3. LET u == engines[e].lock[i].task
        IN  pc'[u] = pc[u] /\ req'[u] = req[u] /\ handle'[u] = handle[u]
    BY <1>1, <1>4, <2>2, OthersStay
  <2> QED BY <1>1, <1>4, <2>3 DEF EngineLockInv
<1>5. ASSUME e \in DOMAIN engines, engines'[e].lock = Drop(engines[e].lock, t)
      PROVE  /\ Once(engines'[e].lock)
             /\ \A i \in DOMAIN engines'[e].lock : Fits(e, engines'[e].lock[i])
  <2>1. engines[e].lock \in Seq(Entry) /\ Once(engines[e].lock)
    BY <1>1, <1>2, <1>5 DEF EngineLockInv
  <2>2. Once(Drop(engines[e].lock, t))
        /\ \A i \in DOMAIN Drop(engines[e].lock, t) : \E j \in DOMAIN engines[e].lock :
              Drop(engines[e].lock, t)[i] = engines[e].lock[j] /\ engines[e].lock[j].task # t
    BY <2>1, DropKeeps
  <2> HIDE DEF Fits
  <2> QED BY <1>4, <1>5, <2>2
<1>6. ASSUME e \in DOMAIN engines, engines'[e].lock = engines[e].lock,
             \A i \in DOMAIN engines[e].lock : engines[e].lock[i].task = t =>
                Fits(e, engines[e].lock[i])
      PROVE  /\ Once(engines'[e].lock)
             /\ \A i \in DOMAIN engines'[e].lock : Fits(e, engines'[e].lock[i])
  <2>1. Once(engines[e].lock)
    BY <1>1, <1>6 DEF EngineLockInv
  <2> HIDE DEF Fits
  <2> QED BY <1>4, <1>6, <2>1
<1>7. CASE Register(t)
  <2>1. /\ engines' \in Seq(OpenEngine) /\ Len(engines') = Len(engines) + 1
        /\ \A f \in DOMAIN engines : engines'[f] = engines[f]
        /\ engines'[Len(engines) + 1].lock = <<>>
    BY <1>7, RegisterStep
  <2>2. e \in DOMAIN engines \/ e = Len(engines) + 1
    BY <1>2, <2>1, LenProperties
  <2>3. CASE e = Len(engines) + 1
    BY <2>1, <2>3 DEF Once
  <2>4. CASE e \in DOMAIN engines
    <3>1. \A i \in DOMAIN engines[e].lock : engines[e].lock[i].task # t
      BY <1>1, <1>7, <2>4 DEF EngineLockInv, Register
    <3> QED BY <1>6, <2>1, <2>4, <3>1
  <2> QED BY <2>2, <2>3, <2>4
<1>8. CASE ~Register(t)
  <2>1. EnginesMoved(t)
    BY <1>8, EnginesStep
  <2>2. e \in DOMAIN engines
    BY <1>2, <2>1, LenProperties DEF EnginesMoved
  <2>3. CASE AskEngine(t) /\ e = handle[t]
             /\ engines'[e].lock = Ask(engines[e].lock, t, LockMode(req[t].kind))
    <3> DEFINE mode == LockMode(req[t].kind)
    <3>1. \A i \in DOMAIN engines[e].lock : engines[e].lock[i].task # t
      BY <1>1, <2>2, <2>3 DEF EngineLockInv, AskEngine
    <3>2. mode \in {"read", "write"}
      BY DEF LockMode
    <3>3. engines[e].lock \in Seq(Entry) /\ Once(engines[e].lock)
      BY <1>1, <1>2, <2>2 DEF EngineLockInv
    <3>4. Fits(e, [task |-> t, mode |-> mode])
      BY <1>1, <2>3 DEF AskEngine, Goto, TypeOK
    <3>5. engines'[e].lock = Ask(engines[e].lock, t, mode)
      BY <2>3
    <3> HIDE DEF Fits, mode
    <3>6. Once(engines'[e].lock)
          /\ \A i \in DOMAIN engines'[e].lock :
                \/ i \in DOMAIN engines[e].lock /\ engines'[e].lock[i] = engines[e].lock[i]
                \/ engines'[e].lock[i] = [task |-> t, mode |-> mode]
      BY <3>1, <3>2, <3>3, <3>5, AskKeeps
    <3> QED BY <1>4, <2>2, <3>1, <3>4, <3>6
  <2>4. CASE engines'[e].lock = engines[e].lock
    <3>1. ASSUME NEW i \in DOMAIN engines[e].lock, engines[e].lock[i].task = t
          PROVE  Fits(e, engines[e].lock[i]) \/ engines'[e].lock = Drop(engines[e].lock, t)
      <4>1. pc[t] \in {"wait", "update"} /\ handle[t] = e
            /\ engines[e].lock[i].mode = LockMode(req[t].kind)
        BY <1>1, <2>2, <3>1 DEF EngineLockInv
      <4>2. CASE BeginWrite(t)
        BY <1>1, <3>1, <4>1, <4>2 DEF BeginWrite, Goto, TypeOK
      <4> QED BY <2>1, <2>2, <4>1, <4>2 DEF EnginesMoved
    <3>2. CASE engines'[e].lock = Drop(engines[e].lock, t)
      BY <1>5, <2>2, <3>2
    <3>3. CASE engines'[e].lock # Drop(engines[e].lock, t)
      <4> HIDE DEF Fits
      <4> QED BY <1>6, <2>2, <2>4, <3>1, <3>3
    <3> QED BY <3>2, <3>3
  <2>5. CASE engines'[e].lock = Drop(engines[e].lock, t)
    BY <1>5, <2>2, <2>5
  <2> QED BY <2>1, <2>2, <2>3, <2>4, <2>5 DEF EnginesMoved
<1> QED BY <1>7, <1>8

(* ... what a handler was given, and what it read under a write lock ...   *)
LEMMA HandleStep ==
    ASSUME CollectionsInv, NEW t \in Task, RequestStep(t)
    PROVE  HandleInv'
<1>1. TypeOK /\ HandleInv /\ EngineLockInv /\ RegistryInv /\ OpeningInv
  BY DEF CollectionsInv
<1>2. /\ Len(engines) \in Nat /\ DOMAIN engines = 1..Len(engines)
      /\ \A e \in DOMAIN engines : engines[e].lock \in Seq(Entry) /\ Once(engines[e].lock)
      /\ \A u \in Task : req[u].name \in Name /\ (handle[u] # 0 => handle[u] \in DOMAIN engines)
      /\ registry \in [Name -> 0..Len(engines)]
  BY <1>1, Shapes DEF EngineLockInv, TypeOK
<1>3. \A e \in DOMAIN engines : engines'[e].name = engines[e].name
  <2>1. CASE Register(t)
    BY <2>1, RegisterStep
  <2>2. CASE ~Register(t)
    BY <2>2, EnginesStep DEF EnginesMoved
  <2> QED BY <2>1, <2>2
<1>4. SUFFICES ASSUME NEW u \in Task
      PROVE  /\ pc'[u] \in {"have", "wait", "update"} =>
                   handle'[u] # 0 /\ engines'[handle'[u]].name = req'[u].name
             /\ pc'[u] = "update" =>
                   /\ req'[u].kind = "write"
                   /\ Owns(engines'[handle'[u]].lock, u)
                   /\ local'[u] = engines'[handle'[u]].knows /\ local'[u] < MaxWrites
             /\ pc'[u] \in {"keys", "scan"} => req'[u].kind = "list"
  BY DEF HandleInv, Owns
<1>5. CASE u # t
  <2> DEFINE h == handle[u]
  <2>1. /\ pc'[u] = pc[u] /\ req'[u] = req[u] /\ handle'[u] = h
        /\ local'[u] = local[u]
    BY <1>1, <1>5, OthersStay
  <2>2. /\ pc[u] \in {"have", "wait", "update"} => h \in DOMAIN engines /\ h # 0
                                                   /\ engines[h].name = req[u].name
        /\ pc[u] = "update" =>
              /\ req[u].kind = "write" /\ Owns(engines[h].lock, u)
              /\ local[u] = engines[h].knows /\ local[u] < MaxWrites
        /\ pc[u] \in {"keys", "scan"} => req[u].kind = "list"
    BY <1>1, <1>2 DEF HandleInv
  <2> HIDE DEF h
  <2>3. ASSUME pc[u] = "update"
        PROVE  Owns(engines'[h].lock, u) /\ engines'[h].knows = engines[h].knows
    <3>1. h \in DOMAIN engines /\ Owns(engines[h].lock, u)
      BY <2>2, <2>3
    <3>2. CASE Register(t)
      BY <3>1, <3>2, RegisterStep
    <3>3. CASE ~Register(t)
      <4>1. EnginesMoved(t)
        BY <3>3, EnginesStep
      <4>2. Owns(Drop(engines[h].lock, t), u)
        BY <1>2, <1>5, <3>1, DropKeeps
      <4>3. ASSUME AskEngine(t) PROVE Owns(Ask(engines[h].lock, t, LockMode(req[t].kind)), u)
        <5>1. \A i \in DOMAIN engines[h].lock : engines[h].lock[i].task # t
          BY <1>1, <3>1, <4>3 DEF EngineLockInv, AskEngine
        <5>2. LockMode(req[t].kind) \in {"read", "write"}
          BY DEF LockMode
        <5> QED BY <1>2, <3>1, <5>1, <5>2, AskKeeps
      <4>4. ~(StoreStep(t) /\ h = handle[t])
        <5>1. ASSUME StoreStep(t), h = handle[t] PROVE FALSE
          <6>1. Owns(engines[h].lock, t)
            BY <1>1, <5>1 DEF HandleInv, StoreStep, WriteFailsLate, EndWrite, Store
          <6> QED BY <1>5, <3>1, <6>1 DEF Owns
        <5> QED BY <5>1
      <4> QED BY <3>1, <4>1, <4>2, <4>3, <4>4 DEF EnginesMoved
    <3> QED BY <3>2, <3>3
  <2> QED BY <1>3, <2>1, <2>2, <2>3
<1>6. CASE u = t
  <2>0. LET e == registry[req[t].name]
        IN  e # 0 => engines[e].name = req[t].name /\ e \in DOMAIN engines
    <3> DEFINE name == req[t].name
    <3>1. name \in Name
      BY <1>2
    <3> HIDE DEF name
    <3>2. registry[name] # 0 => engines[registry[name]].name = name
                               /\ registry[name] \in DOMAIN engines
      BY <1>1, <1>2, <3>1 DEF RegistryInv
    <3> QED BY <3>2 DEF name
  <2> USE DEF TypeOK, Goto
  <2>1. CASE Arrival(t)
    <3>1. CASE ArriveDefault(t)
      BY <1>1, <1>3, <1>6, <3>1 DEF ArriveDefault, Arrive, RegistryInv
    <3>2. CASE ArriveNamed(t) \/ ArriveList(t)
      BY <1>1, <1>6, <3>2 DEF ArriveNamed, ArriveList, Arrive
    <3> QED BY <2>1, <3>1, <3>2 DEF Arrival
  <2>2. CASE Lookup(t)
    <3> DEFINE e == registry[req[t].name]
    <3>1. e # 0 => engines[e].name = req[t].name /\ e \in DOMAIN engines
      BY <2>0
    <3>2. handle'[t] = e /\ pc'[t] = (IF e # 0 THEN "have" ELSE "miss") /\ req' = req
      BY <1>1, <2>2 DEF Lookup
    <3> HIDE DEF e
    <3> QED BY <1>3, <1>6, <3>1, <3>2
  <2>3. CASE FoundMeanwhile(t)
    <3> DEFINE e == registry[req[t].name]
    <3>1. e # 0 /\ handle'[t] = e /\ pc'[t] = "have" /\ req' = req
      BY <1>1, <2>3 DEF FoundMeanwhile, Recheck
    <3>2. engines[e].name = req[t].name /\ e \in DOMAIN engines
      BY <2>0, <3>1
    <3> HIDE DEF e
    <3> QED BY <1>3, <1>6, <3>1, <3>2
  <2>4. CASE Register(t)
    <3>1. handle'[t] = Len(engines) + 1 /\ pc'[t] = "have" /\ req' = req
      BY <1>1, <2>4 DEF Register
    <3>2. engines'[Len(engines) + 1].name = req[t].name
      BY <2>4, RegisterStep
    <3> QED BY <1>2, <1>6, <3>1, <3>2
  <2>5. CASE AskEngine(t)
    <3>1. pc[t] = "have" /\ handle' = handle /\ pc'[t] = "wait" /\ req' = req
      BY <1>1, <2>5 DEF AskEngine
    <3>2. handle[t] \in DOMAIN engines /\ handle[t] # 0 /\ engines[handle[t]].name = req[t].name
      BY <1>1, <1>2, <3>1 DEF HandleInv
    <3> QED BY <1>3, <1>6, <3>1, <3>2
  <2>6. CASE BeginWrite(t)
    <3> DEFINE h == handle[t]
    <3>1. /\ pc[t] = "wait" /\ req[t].kind = "write" /\ Holds(engines[h].lock, t)
          /\ local'[t] = engines[h].knows /\ engines[h].knows < MaxWrites
          /\ pc'[t] = "update" /\ engines' = engines /\ handle' = handle /\ req' = req
      BY <1>1, <2>6 DEF BeginWrite, managerVars
    <3>2. h \in DOMAIN engines /\ h # 0 /\ engines[h].name = req[t].name
      BY <1>1, <1>2, <3>1 DEF HandleInv
    <3>3. ASSUME NEW i \in DOMAIN engines[h].lock, engines[h].lock[i].task = t
          PROVE  engines[h].lock[i].mode = "write"
      <4>1. engines[h].lock[i].mode = LockMode(req[t].kind)
        <5> HIDE DEF h, TypeOK
        <5>1. engines[h].lock[i].mode = LockMode(req[engines[h].lock[i].task].kind)
          BY <1>1, <3>2, <3>3 DEF EngineLockInv
        <5> QED BY <3>3, <5>1
      <4> QED BY <3>1, <4>1 DEF LockMode
    <3>4. Owns(engines[h].lock, t)
      BY <1>2, <3>1, <3>2, <3>3, WriterOwns
    <3> QED BY <1>6, <3>1, <3>2, <3>4
  <2>7. CASE Keys(t)
    BY <1>1, <1>6, <2>7 DEF Keys, HandleInv
  <2>8. CASE ~Arrival(t) /\ ~Lookup(t) /\ ~FoundMeanwhile(t) /\ ~Register(t) /\ ~AskEngine(t)
             /\ ~BeginWrite(t) /\ ~Keys(t)
    <3>1. pc'[t] \in {"create", "opened", "idle", "replied"}
      BY <1>1, <2>8 DEF RequestStep, TaskStep, AskToCreate, MakeDirectory, OpenFails, Reject, Read,
           WriteFails, WriteFailsLate, EndWrite, Store, Scan, Reply, Disconnect, End
    <3> QED BY <1>6, <3>1
  <2> QED BY <2>1, <2>2, <2>3, <2>4, <2>5, <2>6, <2>7, <2>8
<1> QED BY <1>5, <1>6

(* What is there once stays there, and only a write changes the counts.    *)
LEMMA CountsGrow ==
    ASSUME CollectionsInv, NEW t \in Task, RequestStep(t)
    PROVE  /\ onDisk \subseteq onDisk'
           /\ \/ written' = written /\ ~StoreStep(t)
              \/ StoreStep(t) /\ written' = [written EXCEPT ![req[t].name] = written[req[t].name] + 1]
           /\ \/ acked' = acked
              \/ EndWrite(t) /\ acked' = [acked EXCEPT ![req[t].name] = acked[req[t].name] + 1]
           /\ StoreStep(t) => /\ handle[t] \in DOMAIN engines
                              /\ engines[handle[t]].name = req[t].name
                              /\ local[t] = written[req[t].name]
<1>1. TypeOK /\ HandleInv /\ CountInv
  BY DEF CollectionsInv
<1>2. ASSUME StoreStep(t)
      PROVE  /\ handle[t] \in DOMAIN engines /\ engines[handle[t]].name = req[t].name
             /\ local[t] = written[req[t].name]
  <2>1. pc[t] = "update"
    BY <1>2 DEF StoreStep, WriteFailsLate, EndWrite, Store
  <2> QED BY <1>1, <2>1, Shapes DEF HandleInv, CountInv
<1>3. CASE StoreStep(t)
  <2>1. CASE WriteFailsLate(t)
    BY <1>2, <1>3, <2>1 DEF StoreStep, WriteFailsLate, Store, End
  <2>2. CASE EndWrite(t)
    BY <1>2, <1>3, <2>2 DEF StoreStep, EndWrite, Store
  <2> QED BY <1>3, <2>1, <2>2 DEF StoreStep
<1>4. CASE ~StoreStep(t)
  <2>1. onDisk \subseteq onDisk' /\ written' = written /\ acked' = acked
    BY <1>4 DEF RequestStep, Arrival, ArriveDefault, ArriveNamed, ArriveList, Arrive, TaskStep,
       Lookup, AskToCreate, FoundMeanwhile, MakeDirectory, OpenFails, Register, Reject, AskEngine,
       Read, BeginWrite, WriteFails, StoreStep, Keys, Scan, Reply, Disconnect, End,
       managerVars, obsVars
  <2> QED BY <1>4, <2>1
<1> QED BY <1>3, <1>4

(* ... the engines' knowledge of their directories, and with it that no    *)
(* answered write is overwritten: a write stores one more than it found,   *)
(* and what it found is still there ...                                    *)
LEMMA CountStep ==
    ASSUME CollectionsInv, NEW t \in Task, RequestStep(t)
    PROVE  CountInv'
<1>1. TypeOK /\ HandleInv /\ CountInv /\ RegistryInv /\ TypeOK'
  BY TypeStep DEF CollectionsInv
<1>2. /\ Len(engines) \in Nat /\ DOMAIN engines = 1..Len(engines)
      /\ \A e \in DOMAIN engines : engines[e].name \in Name /\ engines[e].knows \in 0..MaxWrites
      /\ req[t].name \in Name
      /\ written \in [Name -> 0..MaxWrites] /\ acked \in [Name -> 0..MaxWrites]
      /\ \A n \in Name : written[n] \in Nat /\ acked[n] \in Nat
  <2>1. MaxWrites \in Nat
    BY CollectionsAssumption
  <2>2. written \in [Name -> 0..MaxWrites] /\ acked \in [Name -> 0..MaxWrites]
    BY <1>1 DEF TypeOK
  <2> QED BY <1>1, <2>1, <2>2, Shapes
<1>3. \A e \in DOMAIN engines' : engines'[e].knows = written'[engines'[e].name]
  <2> SUFFICES ASSUME NEW e \in DOMAIN engines'
               PROVE  engines'[e].knows = written'[engines'[e].name]
    OBVIOUS
  <2>1. CASE Register(t)
    <3>1. /\ engines' \in Seq(OpenEngine) /\ Len(engines') = Len(engines) + 1
          /\ \A f \in DOMAIN engines : engines'[f] = engines[f]
          /\ engines'[Len(engines) + 1].name = req[t].name
          /\ engines'[Len(engines) + 1].knows = written[req[t].name]
      BY <2>1, RegisterStep
    <3>2. e \in DOMAIN engines \/ e = Len(engines) + 1
      BY <1>2, <3>1, LenProperties
    <3>3. written' = written
      BY <2>1 DEF Register
    <3> QED BY <1>1, <3>1, <3>2, <3>3 DEF CountInv
  <2>2. CASE ~Register(t)
    <3>1. EnginesMoved(t)
      BY <2>2, EnginesStep
    <3>2. e \in DOMAIN engines /\ engines'[e].name = engines[e].name
      BY <1>2, <3>1, LenProperties DEF EnginesMoved
    <3>3. engines[e].knows = written[engines[e].name] /\ engines[e].name \in Name
      BY <1>1, <1>2, <3>2 DEF CountInv
    <3>4. CASE StoreStep(t)
      <4>1. /\ written' = [written EXCEPT ![req[t].name] = written[req[t].name] + 1]
            /\ handle[t] \in DOMAIN engines /\ engines[handle[t]].name = req[t].name
            /\ local[t] = written[req[t].name]
        BY <3>4, CountsGrow
      <4>2. CASE e = handle[t]
        <5>1. engines'[e].knows = local[t] + 1
          BY <3>1, <3>2, <3>4, <4>2 DEF EnginesMoved
        <5> QED BY <1>2, <3>2, <4>1, <4>2, <5>1
      <4>3. CASE e # handle[t]
        <5>1. engines[e].name # req[t].name
          BY <1>1, <3>2, <4>1, <4>3 DEF RegistryInv
        <5>2. engines'[e].knows = engines[e].knows
          BY <3>1, <3>2, <4>3 DEF EnginesMoved
        <5> QED BY <1>2, <3>2, <3>3, <4>1, <5>1, <5>2
      <4> QED BY <4>2, <4>3
    <3>5. CASE ~StoreStep(t)
      <4>1. written' = written
        BY <3>5, CountsGrow
      <4>2. engines'[e].knows = engines[e].knows
        BY <3>1, <3>2, <3>5 DEF EnginesMoved
      <4> QED BY <3>2, <3>3, <4>1, <4>2
    <3> QED BY <3>4, <3>5
  <2> QED BY <2>1, <2>2
<1>4. \A n \in Name : acked[n] <= written[n]
  BY <1>1 DEF CountInv, WritesAddUp
<1>5. WritesAddUp'
  <2> SUFFICES ASSUME NEW n \in Name PROVE acked'[n] <= written'[n]
    BY DEF WritesAddUp
  <2>1. CASE StoreStep(t)
    <3>1. written' = [written EXCEPT ![req[t].name] = written[req[t].name] + 1]
      BY <2>1, CountsGrow
    <3>2. acked' = acked
          \/ acked' = [acked EXCEPT ![req[t].name] = acked[req[t].name] + 1]
      BY CountsGrow
    <3> QED BY <1>2, <1>4, <3>1, <3>2
  <2>2. CASE ~StoreStep(t)
    <3>1. written' = written /\ acked' = acked
      BY <2>2, CountsGrow DEF StoreStep
    <3> QED BY <1>4, <3>1
  <2> QED BY <2>1, <2>2
<1>6. ASSUME NEW u \in Task
      PROVE  since'[u].acked <= acked'[req'[u].name] /\ since'[u].names \subseteq onDisk'
  <2>1. since[u].acked <= acked[req[u].name] /\ since[u].names \subseteq onDisk
        /\ req[u].name \in Name /\ since[u].acked \in Nat
    <3>1. since[u].acked <= acked[req[u].name] /\ since[u].names \subseteq onDisk
      BY <1>1 DEF CountInv
    <3>2. req[u].name \in Name /\ since[u].acked \in 0..MaxWrites
      BY <1>1, Shapes
    <3> QED BY <3>1, <3>2
  <2>2. \A n \in Name : acked[n] <= acked'[n] /\ acked'[n] \in Nat
    <3>1. acked' = acked \/ acked' = [acked EXCEPT ![req[t].name] = acked[req[t].name] + 1]
      BY CountsGrow
    <3> QED BY <1>2, <3>1
  <2>3. onDisk \subseteq onDisk'
    BY CountsGrow
  <2>4. CASE since'[u] = since[u] /\ req'[u] = req[u]
    BY <1>2, <2>1, <2>2, <2>3, <2>4
  <2>5. CASE u = t /\ Arrival(t)
    <3>1. ASSUME NEW r \in Request, NEW step, NEW h, Arrive(t, r, step, h)
          PROVE  since'[t].acked <= acked[r.name] /\ since'[t].names \subseteq onDisk
                 /\ req'[t] = r /\ acked' = acked /\ onDisk' = onDisk
      <4>1. /\ req'[t] = r /\ acked' = acked /\ onDisk' = onDisk
            /\ since'[t] = IF r.kind = "list" THEN [acked |-> 0, names |-> onDisk]
                           ELSE [acked |-> acked[r.name], names |-> {}]
        BY <1>1, <3>1 DEF Arrive, TypeOK
      <4>2. acked[r.name] \in Nat
        BY <1>2 DEF Request
      <4> QED BY <4>1, <4>2
    <3>2. \A kind \in Kind, n \in Name : [kind |-> kind, name |-> n] \in Request
      BY DEF Request
    <3>3. DefaultName \in Name
      BY CollectionsAssumption
    <3> QED BY <2>5, <3>1, <3>2, <3>3 DEF Arrival, ArriveDefault, ArriveNamed, ArriveList, Kind
  <2>6. CASE u = t /\ End(t)
    <3>1. since'[t] = Nothing /\ req'[t] = NoRequest
      BY <1>1, <2>6 DEF End, TypeOK
    <3>2. req'[t].name \in Name
      BY <3>1, CollectionsAssumption DEF NoRequest
    <3> QED BY <2>2, <2>6, <3>1, <3>2 DEF Nothing
  <2>7. u = t /\ ~Arrival(t) /\ ~End(t) => since' = since /\ req' = req
    BY DEF RequestStep, TaskStep, Lookup, AskToCreate, FoundMeanwhile, MakeDirectory, OpenFails,
           Register, Reject, AskEngine, Read, BeginWrite, WriteFails, WriteFailsLate, EndWrite,
           Keys, Scan, Reply, Disconnect, obsVars
  <2>8. u # t => since'[u] = since[u] /\ req'[u] = req[u]
    BY <1>1, OthersStay
  <2> QED BY <2>4, <2>5, <2>6, <2>7, <2>8
<1> QED BY <1>3, <1>5, <1>6 DEF CountInv

(* ... and what was answered or is about to be.                            *)
LEMMA AnswersStep ==
    ASSUME CollectionsInv, NEW t \in Task, RequestStep(t)
    PROVE  (ReadsAreCurrent /\ ListIsComplete)'
<1>1. TypeOK /\ HandleInv /\ CountInv /\ ReadsAreCurrent /\ ListIsComplete
  BY DEF CollectionsInv
<1>2. SUFFICES ASSUME NEW u \in Task, pc'[u] = "replied"
      PROVE  /\ req'[u].kind = "read" =>
                   since'[u].acked <= local'[u] /\ local'[u] <= written'[req'[u].name]
             /\ req'[u].kind = "list" => since'[u].names \subseteq listed'[u]
  BY DEF ReadsAreCurrent, ListIsComplete
<1>3. /\ req[u].name \in Name /\ req[t].name \in Name
      /\ written \in [Name -> 0..MaxWrites] /\ acked \in [Name -> 0..MaxWrites]
      /\ \A n \in Name : written[n] \in Nat /\ acked[n] \in Nat
      /\ local[u] \in Nat /\ since[u].acked \in Nat
  <2>1. since[u] \in [acked : 0..MaxWrites, names : SUBSET Name] /\ MaxWrites \in Nat
    BY <1>1, Shapes, CollectionsAssumption
  <2> QED BY <1>1, <2>1, Shapes DEF TypeOK
<1>4. CASE u # t
  <2>1. /\ pc'[u] = pc[u] /\ req'[u] = req[u] /\ since'[u] = since[u]
        /\ local'[u] = local[u] /\ listed'[u] = listed[u]
    BY <1>1, <1>4, OthersStay
  <2>2. written[req[u].name] <= written'[req[u].name] /\ written'[req[u].name] \in Nat
    <3>1. written' = written
          \/ written' = [written EXCEPT ![req[t].name] = written[req[t].name] + 1]
      BY CountsGrow
    <3> QED BY <1>3, <3>1
  <2>3. req[u].kind = "read" => since[u].acked <= local[u] /\ local[u] <= written[req[u].name]
    BY <1>1, <1>2, <2>1 DEF ReadsAreCurrent
  <2>4. req[u].kind = "list" => since[u].names \subseteq listed[u]
    BY <1>1, <1>2, <2>1 DEF ListIsComplete
  <2> QED BY <1>3, <2>1, <2>2, <2>3, <2>4
<1>5. CASE u = t
  <2>1. Read(t) \/ EndWrite(t) \/ Scan(t)
    BY <1>1, <1>2, <1>5 DEF RequestStep, Arrival, ArriveDefault, ArriveNamed, ArriveList, Arrive,
       TaskStep, Lookup, AskToCreate, FoundMeanwhile, MakeDirectory, OpenFails, Register, Reject,
       AskEngine, BeginWrite, WriteFails, WriteFailsLate, Keys, Reply, Disconnect, End, Goto, TypeOK
  <2>2. CASE Read(t)
    <3> DEFINE h == handle[t]
    <3>1. /\ pc[t] = "wait" /\ req[t].kind = "read" /\ local'[t] = engines[h].knows
          /\ written' = written /\ req' = req /\ since' = since
      BY <1>1, <2>2 DEF Read, TypeOK, obsVars
    <3>2. h \in DOMAIN engines /\ engines[h].name = req[t].name
      BY <1>1, <3>1, Shapes DEF HandleInv
    <3>3. engines[h].knows = written[req[t].name]
      BY <1>1, <3>2 DEF CountInv
    <3>4. since[t].acked <= acked[req[t].name] /\ acked[req[t].name] <= written[req[t].name]
      BY <1>1, <1>3 DEF CountInv, WritesAddUp
    <3> HIDE DEF h
    <3> QED BY <1>3, <1>5, <3>1, <3>3, <3>4
  <2>3. CASE EndWrite(t)
    <3>1. pc[t] = "update" /\ req' = req
      BY <2>3 DEF EndWrite, Store
    <3>2. req[t].kind = "write"
      BY <1>1, <3>1 DEF HandleInv
    <3> QED BY <1>5, <3>1, <3>2
  <2>4. CASE Scan(t)
    <3>1. /\ pc[t] = "scan" /\ listed'[t] = listed[t] \cup onDisk
          /\ req' = req /\ since' = since
      BY <1>1, <2>4 DEF Scan, Directories, TypeOK, obsVars
    <3>2. req[t].kind = "list"
      BY <1>1, <3>1 DEF HandleInv
    <3>3. since[t].names \subseteq onDisk
      BY <1>1 DEF CountInv
    <3> QED BY <1>5, <3>1, <3>2, <3>3
  <2> QED BY <2>1, <2>2, <2>3, <2>4
<1> QED BY <1>4, <1>5

-----------------------------------------------------------------------------
(* The invariant of the whole system. *)

LEMMA InitInv ==
    ASSUME Init
    PROVE  CollectionsInv
<1> USE DEF Init
<1>1. DefaultName \in Name /\ MaxWrites \in Nat /\ MaxRestarts \in Nat /\ MaxOpens \in Nat \ {0}
  BY CollectionsAssumption
<1>2. /\ <<>> \in Seq(Entry)
      /\ [name |-> DefaultName, lock |-> <<>>, knows |-> 0] \in OpenEngine
  BY <1>1, EmptySeq DEF OpenEngine
<1>3. /\ engines \in Seq(OpenEngine) /\ Len(engines) = 1 /\ DOMAIN engines = {1}
      /\ engines[1].name = DefaultName /\ engines[1].lock = <<>> /\ engines[1].knows = 0
  BY <1>2
<1>4. TypeOK
  BY <1>1, <1>2, <1>3 DEF TypeOK, OpenEngine, RegisteredAtStart, Nobody, Nothing, NoRequest,
                          Request, Kind, Step
<1>5. MapLockInv /\ OpeningInv /\ EngineLockInv /\ HandleInv
  BY <1>3 DEF MapLockInv, OpeningInv, EngineLockInv, HandleInv, Once, Nobody
<1>6. RegistryInv
  BY <1>1, <1>3 DEF RegistryInv, RegisteredAtStart
<1>7. CountInv /\ ReadsAreCurrent /\ ListIsComplete
  BY <1>1, <1>3 DEF CountInv, WritesAddUp, ReadsAreCurrent, ListIsComplete, Nobody, Nothing,
                    NoRequest
<1> QED BY <1>4, <1>5, <1>6, <1>7 DEF CollectionsInv

(* A restart starts from what the directories hold, half a write included  *)
(* or not.                                                                 *)
LEMMA RestartInv ==
    ASSUME CollectionsInv, Restart
    PROVE  CollectionsInv'
<1>1. TypeOK /\ HandleInv /\ CountInv
  BY DEF CollectionsInv
<1>2. DefaultName \in Name /\ MaxWrites \in Nat /\ MaxRestarts \in Nat /\ MaxOpens \in Nat \ {0}
  BY CollectionsAssumption
<1>3. /\ written \in [Name -> 0..MaxWrites] /\ acked \in [Name -> 0..MaxWrites]
      /\ restarts \in 0..MaxRestarts
  BY <1>1 DEF TypeOK
<1>4. PICK done \in SUBSET {t \in Task : pc[t] = "update"} :
         written' = [n \in Name |->
            IF \E t \in done : req[t].name = n THEN written[n] + 1 ELSE written[n]]
  BY DEF Restart
<1>5. \A t \in done : written[req[t].name] < MaxWrites
  <2> SUFFICES ASSUME NEW t \in done PROVE written[req[t].name] < MaxWrites
    OBVIOUS
  <2>1. t \in Task /\ pc[t] = "update"
    OBVIOUS
  <2>2. /\ handle[t] # 0 /\ engines[handle[t]].name = req[t].name
        /\ local[t] = engines[handle[t]].knows /\ local[t] < MaxWrites
    BY <1>1, <2>1 DEF HandleInv
  <2>3. engines[handle[t]].knows = written[engines[handle[t]].name]
    BY <1>1, <2>1, <2>2, Shapes DEF CountInv
  <2> QED BY <2>2, <2>3
<1>6. /\ written' \in [Name -> 0..MaxWrites]
      /\ \A n \in Name : written[n] <= written'[n]
  <2> SUFFICES ASSUME NEW n \in Name
               PROVE  written'[n] \in 0..MaxWrites /\ written[n] <= written'[n]
    BY <1>4
  <2>1. CASE \E t \in done : req[t].name = n
    <3>1. written[n] < MaxWrites /\ written'[n] = written[n] + 1
      BY <1>4, <1>5, <2>1
    <3> QED BY <1>2, <1>3, <3>1
  <2>2. CASE ~ \E t \in done : req[t].name = n
    <3>1. written'[n] = written[n]
      BY <1>4, <2>2
    <3> QED BY <1>2, <1>3, <3>1
  <2> QED BY <2>1, <2>2
<1> DEFINE first == [name |-> DefaultName, lock |-> <<>>, knows |-> written'[DefaultName]]
<1>7. first \in OpenEngine /\ <<>> \in Seq(Entry)
  BY <1>2, <1>6, EmptySeq DEF OpenEngine
<1>8. /\ engines' \in Seq(OpenEngine) /\ Len(engines') = 1 /\ DOMAIN engines' = {1}
      /\ engines'[1].name = DefaultName /\ engines'[1].lock = <<>>
      /\ engines'[1].knows = written'[DefaultName]
  <2>1. engines' = <<first>>
    BY DEF Restart
  <2>2. /\ first.name = DefaultName /\ first.lock = <<>>
        /\ first.knows = written'[DefaultName]
    OBVIOUS
  <2> HIDE DEF first
  <2> QED BY <1>7, <2>1, <2>2
<1>9. TypeOK'
  <2>1. /\ registry' \in [Name -> 0..1] /\ mapLock' \in Seq(Entry)
        /\ handle' \in [Task -> 0..1] /\ restarts' \in 0..MaxRestarts
    BY <1>2, <1>3, <1>7 DEF Restart, RegisteredAtStart
  <2>2. /\ pc' \in [Task -> Step] /\ req' \in [Task -> Request] /\ local' \in [Task -> 0..MaxWrites]
        /\ listed' \in [Task -> SUBSET Name]
        /\ since' \in [Task -> [acked : 0..MaxWrites, names : SUBSET Name]]
    BY <1>2 DEF Restart, Nobody, Nothing, NoRequest, Request, Kind, Step
  <2>3. onDisk' \subseteq Name /\ acked' \in [Name -> 0..MaxWrites]
    BY <1>1 DEF Restart, TypeOK
  <2>4. Len(engines') <= MaxOpens
    BY <1>2, <1>8
  <2> QED BY <1>6, <1>8, <2>1, <2>2, <2>3, <2>4 DEF TypeOK, OpenEngine
<1>10. MapLockInv' /\ OpeningInv' /\ EngineLockInv' /\ HandleInv'
  <2>1. \A t \in Task : pc'[t] = "idle"
    BY DEF Restart, Nobody
  <2>2. mapLock' = <<>>
    BY DEF Restart
  <2>3. MapLockInv'
    BY <2>2 DEF MapLockInv, Once
  <2>4. EngineLockInv'
    BY <1>8 DEF EngineLockInv, Once
  <2> QED BY <2>1, <2>3, <2>4 DEF OpeningInv, HandleInv
<1>11. RegistryInv'
  BY <1>2, <1>8 DEF RegistryInv, RegisteredAtStart, Restart
<1>12. CountInv'
  <2>1. \A n \in Name : acked'[n] <= written'[n]
    <3> SUFFICES ASSUME NEW n \in Name PROVE acked'[n] <= written'[n]
      OBVIOUS
    <3>1. acked'[n] = acked[n] /\ acked[n] <= written[n]
      BY <1>1 DEF Restart, CountInv, WritesAddUp
    <3>2. acked[n] \in 0..MaxWrites /\ written[n] \in 0..MaxWrites /\ written'[n] \in 0..MaxWrites
      BY <1>3, <1>6
    <3> QED BY <1>2, <1>6, <3>1, <3>2
  <2>2. \A t \in Task : since'[t] = Nothing /\ req'[t].name = DefaultName
    BY DEF Restart, NoRequest
  <2>3. acked'[DefaultName] \in 0..MaxWrites
    BY <1>2, <1>3 DEF Restart
  <2> QED BY <1>8, <2>1, <2>2, <2>3 DEF CountInv, WritesAddUp, Nothing
<1>13. ReadsAreCurrent' /\ ListIsComplete'
  BY DEF ReadsAreCurrent, ListIsComplete, Restart, Nobody
<1> QED BY <1>9, <1>10, <1>11, <1>12, <1>13 DEF CollectionsInv

(* The properties are left as they are by a step that changes nothing.     *)
LEMMA CollectionsStutter ==
    ASSUME CollectionsInv, UNCHANGED vars
    PROVE  CollectionsInv'
BY DEF CollectionsInv, TypeOK, MapLockInv, OpeningInv, RegistryInv, EngineLockInv, HandleInv,
       CountInv, WritesAddUp, ReadsAreCurrent, ListIsComplete, Once, Owns,
       vars, managerVars, taskVars, obsVars

(* CollectionsInv is what every reachable state satisfies: locks are held  *)
(* by whoever relies on them, and map, engines, directories and answers    *)
(* agree.                                                                  *)
THEOREM CollectionsInvariant == Spec => []CollectionsInv
<1>1. Init => CollectionsInv
  BY InitInv
<1>2. CollectionsInv /\ [Next]_vars => CollectionsInv'
  <2> SUFFICES ASSUME CollectionsInv, [Next]_vars PROVE CollectionsInv'
    OBVIOUS
  <2>1. ASSUME NEW t \in Task, RequestStep(t) PROVE CollectionsInv'
    BY <2>1, TypeStep, MapLockStep, OpeningStep, RegistryStep, EngineLockStep, HandleStep,
       CountStep, AnswersStep DEF CollectionsInv
  <2>2. CASE Restart
    BY <2>2, RestartInv
  <2>3. CASE UNCHANGED vars
    BY <2>3, CollectionsStutter
  <2> QED BY <2>1, <2>2, <2>3 DEF Next, RequestStep
<1> QED BY <1>1, <1>2, PTL DEF Spec

(* However many requests miss a collection at once, its directory is       *)
(* opened by one engine at most, for any number of tasks and collections.  *)
THEOREM OneEngineOpensADirectory == Spec => []OneEnginePerDirectory
<1>1. CollectionsInv => OneEnginePerDirectory
  BY DEF CollectionsInv, RegistryInv, OneEnginePerDirectory
<1> QED BY <1>1, CollectionsInvariant, PTL

(* Every read answers with the writes answered before it came, by either   *)
(* route, and with none that is not on the disk.                           *)
THEOREM ReadsStayCurrent == Spec => []ReadsAreCurrent
<1>1. CollectionsInv => ReadsAreCurrent
  BY DEF CollectionsInv
<1> QED BY <1>1, CollectionsInvariant, PTL

(* No answered write is overwritten by one that did not know of it, with   *)
(* any number of writers, failures, disconnects and restarts.              *)
THEOREM WritesAlwaysAddUp == Spec => []WritesAddUp
<1>1. CollectionsInv => WritesAddUp
  BY DEF CollectionsInv, CountInv
<1> QED BY <1>1, CollectionsInvariant, PTL

(* A listing misses no collection that was there when it was asked for.    *)
THEOREM ListsAreComplete == Spec => []ListIsComplete
<1>1. CollectionsInv => ListIsComplete
  BY DEF CollectionsInv
<1> QED BY <1>1, CollectionsInvariant, PTL
=============================================================================
