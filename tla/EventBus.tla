-------------------------------- MODULE EventBus --------------------------------
(***************************************************************************)
(* The stream afm:events: EventProducer.publish (event_bus/redis_producer),*)
(* EventConsumer.consume (event_bus/redis_consumer) and the process that   *)
(* runs it (event_bus/worker.py).                                          *)
(*                                                                         *)
(* Redis keeps the stream, the cursor of the consumer group and, for each  *)
(* entry delivered and not acknowledged, the consumer that owes the        *)
(* acknowledgement.  A worker asks for new entries only (">"), so an entry *)
(* that its worker drops stays with that worker for ever.                  *)
(***************************************************************************)
EXTENDS Naturals

CONSTANTS
    Consumers,   \* worker processes
    BatchSize,   \* count = 10: entries of one XREADGROUP
    MaxEntries,  \* bound: entries ever published
    MaxFaults,   \* bound: failed or lost calls to Redis, and worker deaths
    NoOne

ASSUME BusAssumption ==
    /\ BatchSize \in Nat \ {0}
    /\ MaxEntries \in Nat
    /\ MaxFaults \in Nat
    /\ NoOne \notin Consumers

VARIABLES
    stream,  \* entries published so far; entry e is the e-th one
    group,   \* whether the consumer group exists
    cursor,  \* the last entry delivered to the group
    owner,   \* the group's pending entries: who has not acknowledged them
    worker,  \* where each worker stands, and what is left of its batch
    ran,     \* history: how often the handler was called with an entry
    done,    \* history: the entries acknowledged
    faults   \* faults so far

busVars == <<stream, group, cursor, owner, worker, ran, done, faults>>

Entries == 1 .. MaxEntries
BusPlaces == {"off", "read", "sleep", "handle", "ack"}
NoBatch == [at |-> "off", next |-> 1, last |-> 0]

InHand(w) == IF worker[w].at \in {"handle", "ack"}
             THEN worker[w].next .. worker[w].last ELSE {}

Fault == faults < MaxFaults /\ faults' = faults + 1
PutWorker(w, place) == worker' = [worker EXCEPT ![w] = [NoBatch EXCEPT !.at = place]]

-------------------------------------------------------------------------------
\* XADD.
Publish ==
    /\ stream < MaxEntries
    /\ stream' = stream + 1
    /\ UNCHANGED <<group, cursor, owner, worker, ran, done, faults>>

\* Mutant: the group is created at "$", behind what is in the stream.
GroupStart_Latest == stream

\* XGROUP CREATE ... id="0".
GroupStart == 0

\* A process starts: the group is created, or exists already (BUSYGROUP).
StartWorker(w) ==
    /\ worker[w].at = "off"
    /\ group' = TRUE
    /\ cursor' = IF group THEN cursor ELSE GroupStart
    /\ PutWorker(w, "read")
    /\ UNCHANGED <<stream, owner, ran, done, faults>>

\* Redis does not answer XGROUP CREATE: the process ends.
StartFails(w) ==
    /\ worker[w].at = "off" /\ Fault
    /\ UNCHANGED <<stream, group, cursor, owner, worker, ran, done>>

\* Mutant: the end of the stream does not end a batch.
Upto_Full == cursor + BatchSize

\* XREADGROUP ... ">" assigns the next entries of the stream to w.
Upto == IF stream - cursor < BatchSize THEN stream ELSE cursor + BatchSize

\* Mutant: the entries before the cursor are read again.
NextBatch_Again == 1 .. Upto
NextBatch == (cursor + 1) .. Upto

Assign(w) ==
    /\ worker[w].at = "read" /\ cursor < stream
    /\ cursor' = Upto
    /\ owner' = [e \in Entries |-> IF e \in NextBatch THEN w ELSE owner[e]]

ReadBatch(w) ==
    /\ Assign(w)
    /\ worker' = [worker EXCEPT ![w] =
                    [at |-> "handle", next |-> cursor + 1, last |-> Upto]]
    /\ UNCHANGED <<stream, group, ran, done, faults>>

\* The answer is lost on its way: the entries are assigned all the same.
ReadIsLost(w) ==
    /\ Assign(w) /\ Fault
    /\ PutWorker(w, "sleep")
    /\ UNCHANGED <<stream, group, ran, done>>

ReadFails(w) ==
    /\ worker[w].at = "read" /\ Fault
    /\ PutWorker(w, "sleep")
    /\ UNCHANGED <<stream, group, cursor, owner, ran, done>>

Wake(w) ==
    /\ worker[w].at = "sleep"
    /\ PutWorker(w, "read")
    /\ UNCHANGED <<stream, group, cursor, owner, ran, done, faults>>

\* handle_event returns, or raises: the loop goes on with the next entry.
HandleEntry(w) ==
    LET b == worker[w] IN
    /\ b.at = "handle" /\ b.next <= b.last
    /\ ran' = [ran EXCEPT ![b.next] = @ + 1]
    /\ \/ worker' = [worker EXCEPT ![w].at = "ack"]
       \/ worker' = [worker EXCEPT ![w].next = @ + 1]
    /\ UNCHANGED <<stream, group, cursor, owner, done, faults>>

\* XACK takes effect, or it fails and is logged like an error of the handler.
AckEntry(w) ==
    LET b == worker[w] IN
    /\ b.at = "ack"
    /\ worker' = [worker EXCEPT ![w] = [b EXCEPT !.at = "handle", !.next = @ + 1]]
    /\ \/ /\ owner' = [owner EXCEPT ![b.next] = NoOne]
          /\ done' = done \cup {b.next}
       \/ UNCHANGED <<owner, done>>
    /\ UNCHANGED <<stream, group, cursor, ran, faults>>

FinishBatch(w) ==
    /\ worker[w].at = "handle" /\ worker[w].next > worker[w].last
    /\ PutWorker(w, "read")
    /\ UNCHANGED <<stream, group, cursor, owner, ran, done, faults>>

\* The process is killed or cancelled: the rest of its batch is dropped.
WorkerDies(w) ==
    /\ worker[w].at # "off" /\ Fault
    /\ PutWorker(w, "off")
    /\ UNCHANGED <<stream, group, cursor, owner, ran, done>>

-------------------------------------------------------------------------------
BusInit ==
    /\ stream = 0 /\ group = FALSE /\ cursor = 0
    /\ owner = [e \in Entries |-> NoOne]
    /\ worker = [w \in Consumers |-> NoBatch]
    /\ ran = [e \in Entries |-> 0]
    /\ done = {}
    /\ faults = 0

WorkerStep(w) == \/ StartWorker(w) \/ ReadBatch(w) \/ Wake(w)
                 \/ HandleEntry(w) \/ AckEntry(w) \/ FinishBatch(w)
WorkerFault(w) == StartFails(w) \/ ReadIsLost(w) \/ ReadFails(w) \/ WorkerDies(w)

BusNext == Publish \/ \E w \in Consumers : WorkerStep(w) \/ WorkerFault(w)

\* The platform starts the worker again, and a running worker goes on.
BusFairness == \A w \in Consumers : WF_busVars(WorkerStep(w))
BusSpec == BusInit /\ [][BusNext]_busVars /\ BusFairness

-------------------------------------------------------------------------------
(* Properties.                                                               *)

BusTypeOK ==
    /\ stream \in 0 .. MaxEntries
    /\ group \in BOOLEAN
    /\ cursor \in 0 .. MaxEntries
    /\ owner \in [Entries -> Consumers \cup {NoOne}]
    /\ worker \in [Consumers -> [at: BusPlaces, next: Nat, last: Nat]]
    /\ ran \in [Entries -> Nat]
    /\ done \subseteq Entries
    /\ faults \in Nat

\* No entry is lost or handled twice: what the group has passed is either
\* acknowledged, after one call of the handler, or still owed by one consumer,
\* whatever calls fail and wherever a worker dies (EventConsumer.consume).
Accounted ==
    \A e \in Entries :
        /\ ran[e] <= 1
        /\ e \in done => ran[e] = 1 /\ owner[e] = NoOne
        /\ e <= cursor <=> (e \in done \/ owner[e] # NoOne)

\* Every published entry is acknowledged, or left behind as pending by a worker
\* that failed with it: none waits in the stream for ever.
LeftBehind(e) == owner[e] # NoOne /\ e \notin InHand(owner[e])
EventIsTaken ==
    \A e \in Entries : e <= stream ~> e \in done \/ LeftBehind(e)
===============================================================================
