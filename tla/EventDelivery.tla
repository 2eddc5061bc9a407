----------------------------- MODULE EventDelivery -----------------------------
(******************************************************************************)
(* How the events of one job reach its clients: GET /jobs/{id}/events.         *)
(* Transactions take an id from the sequence of job_events and commit later.   *)
(* A stream reads a snapshot, then the table by id, again and again: the        *)
(* publish after a commit carries no event and may be lost, so a stream reads   *)
(* whenever it is woken, and at a heartbeat if it is not. A client that was cut *)
(* off resumes after the last id it received. A counter in Redis limits the     *)
(* streams of a key: each of its commands is a step of its own, and requests    *)
(* die between them.                                                           *)
(******************************************************************************)
EXTENDS FiniteSets, Integers, Sequences, SequencesExt

CONSTANTS
  Clients,     \* connections of one key to this job
  Others,      \* connections of the same key to other jobs, which take its slots
  MaxEvents,   \* bound: ids taken from the sequence
  MaxWriters,  \* bound: transactions with an event of the job open at once
  MaxStreams,  \* sse_max_streams_per_key
  MaxCuts      \* bound: connections cut off

ASSUME EventDeliveryAssumption ==
  /\ {MaxEvents, MaxWriters, MaxStreams, MaxCuts} \subseteq Nat
  /\ Clients \cap Others = {}

VARIABLES
  next,     \* the sequence of job_events.id
  writing,  \* open transactions of tasks, requests and sweeps, each with its event
  log,      \* committed rows of job_events
  changes,  \* ids of events with a to_state
  final,    \* the event that enters LIVE or FAILED, 0 before there is one
  stream,   \* the request of each connection, its event_stream once it has one
  frames,   \* ids the client received, since it came without Last-Event-ID
  count,    \* sse:streams:{key}, 0 if there is no key
  clearing, \* connections whose release has seen a negative counter and will set it to 0
  cuts,
  late,     \* ids committed after a larger one
  debt,     \* requests that held a slot when the counter last became 0 under them
  leaked    \* slots of dead requests that nobody gave back since

vars == <<next, writing, log, changes, final, stream, frames, count, clearing, cuts, late,
          debt, leaked>>
table == <<next, writing, log, changes, final, late>>
slots == <<count, clearing, debt, leaked>>

Ids == 1 .. MaxEvents
Kinds == {"note", "change", "final"}

Off == [step |-> "off"]
Granted == [step |-> "granted"]   \* INCR gave a number within the limit
Refused == [step |-> "refused"]   \* INCR gave one past it, DECR is to come
Elsewhere == [step |-> "elsewhere"]   \* the same of another job, or its stream
Serving == {"subscribed", "resumed", "replay", "tail", "live", "closing"}

Keyed == Clients \cup Others
Open == {c \in Keyed : stream[c].step \in Serving \cup {"elsewhere"}}
Claims == {c \in Keyed : stream[c] # Off}
IdsAfter(seen) == {e \in log : e > seen}
First(set, e) == e \in set /\ \A f \in set : e <= f

Init ==
  /\ next = 1
  /\ writing = {}
  /\ log = {} /\ changes = {} /\ final = 0 /\ late = {}
  /\ stream = [c \in Keyed |-> Off]
  /\ frames = [c \in Clients |-> <<>>]
  /\ count = 0 /\ clearing = {} /\ debt = 0 /\ leaked = 0
  /\ cuts = 0

--------------------------------------------------------------------------------
(* The writers. A change of state holds the row of the job from its UPDATE to    *)
(* the commit, and is refused once the job is terminal; other events hold       *)
(* nothing.                                                                    *)

JobLocked == \E t \in writing : t.kind # "note"

Record(kind) ==
  /\ next \in Ids
  /\ Cardinality(writing) < MaxWriters
  /\ kind # "note" => ~JobLocked /\ final = 0
  /\ writing' = writing \cup {[id |-> next, kind |-> kind]}
  /\ next' = next + 1
  /\ UNCHANGED <<log, changes, final, late, stream, frames, slots, cuts>>

Commit(t) ==
  /\ writing' = writing \ {t}
  /\ log' = log \cup {t.id}
  /\ changes' = IF t.kind = "note" THEN changes ELSE changes \cup {t.id}
  /\ final' = IF t.kind = "final" THEN t.id ELSE final
  /\ late' = IF \E f \in log : f > t.id THEN late \cup {t.id} ELSE late
  /\ UNCHANGED <<next, stream, frames, slots, cuts>>

(* A transaction that fails leaves a gap in the ids. *)
RollBack(t) ==
  /\ writing' = writing \ {t}
  /\ UNCHANGED <<next, log, changes, final, late, stream, frames, slots, cuts>>

--------------------------------------------------------------------------------
(* The slots of a key. The counter is moved by INCR, DECR and SET, one step       *)
(* each, and lapses an hour after the last attempt; the model lets it lapse at   *)
(* any time. A counter that becomes 0 has forgotten the requests that hold a     *)
(* slot: `debt` remembers how many they were.                                  *)

Forget == count' = 0 /\ debt' = Cardinality(Claims) /\ leaked' = 0

Expire ==
  /\ count # 0
  /\ Forget
  /\ UNCHANGED <<table, stream, frames, clearing, cuts>>

(* Mutant of SlotLeft: one stream too many.                                    *)
SlotLeftUpTo == count <= MaxStreams

SlotLeft == count < MaxStreams

(* An attempt: what INCR returns decides, whatever the counter is later. A       *)
(* connection comes back once its last release is over; others do not wait.      *)
Ask(k, granted) ==
  /\ stream[k] = Off /\ k \notin clearing
  /\ count' = count + 1
  /\ stream' = [stream EXCEPT ![k] = IF SlotLeft THEN granted ELSE Refused]
  /\ UNCHANGED <<table, frames, clearing, debt, leaked, cuts>>

(* Mutant of GiveBack: a refused attempt keeps its INCR.                        *)
GiveBackNever == UNCHANGED count

GiveBack == count' = count - 1

(* 429: DECR, which here is not held at 0.                                     *)
Refuse(k) ==
  /\ stream[k] = Refused
  /\ stream' = [stream EXCEPT ![k] = Off]
  /\ GiveBack
  /\ UNCHANGED <<table, frames, clearing, debt, leaked, cuts>>

(* The end of a stream: DECR, and SET 0 after it if the result is negative.     *)
Release(k) ==
  /\ count' = count - 1
  /\ clearing' = IF count' < 0 THEN clearing \cup {k} ELSE clearing
  /\ UNCHANGED <<debt, leaked>>

Clear(k) ==
  /\ k \in clearing
  /\ clearing' = clearing \ {k}
  /\ Forget
  /\ UNCHANGED <<table, stream, frames, cuts>>

--------------------------------------------------------------------------------
(* The streams.                                                                *)

Begin(step, seen) ==
  [step |-> step, seen |-> seen, batch |-> {}, ends |-> FALSE]

(* Mutant of Resume: the id is that of the next event.                         *)
ResumeAtNext(c) ==
  /\ frames[c] # <<>>
  /\ stream' = [stream EXCEPT ![c] = Begin("resumed", Last(frames[c]) + 1)]
  /\ UNCHANGED frames

(* A client that has been here goes on after its last id; any client may start   *)
(* over without one.                                                           *)
Resume(c) ==
  /\ frames[c] # <<>>
  /\ stream' = [stream EXCEPT ![c] = Begin("resumed", Last(frames[c]))]
  /\ UNCHANGED frames

Join(c) ==
  /\ stream' = [stream EXCEPT ![c] = Begin("subscribed", 0)]
  /\ frames' = [frames EXCEPT ![c] = <<>>]

Connect(c) ==
  /\ stream[c] = Granted
  /\ Join(c) \/ Resume(c)
  /\ UNCHANGED <<table, slots, cuts>>

(* The snapshot is the last event with a state; a terminal one ends the stream. *)
Snapshot(c) ==
  /\ stream[c].step = "subscribed"
  /\ \/ /\ changes = {}
        /\ stream' = [stream EXCEPT ![c].step = "resumed"]
        /\ UNCHANGED frames
     \/ \E e \in changes :
          /\ \A f \in changes : f <= e
          /\ frames' = [frames EXCEPT ![c] = <<e>>]
          /\ stream' = [stream EXCEPT ![c].step = IF e = final THEN "closing" ELSE "resumed",
                                      ![c].seen = e]
  /\ UNCHANGED <<table, slots, cuts>>

Read(c, step) ==
  LET found == IdsAfter(stream[c].seen)
  IN  stream' = [stream EXCEPT ![c].step = step,
                               ![c].batch = found, ![c].ends = final \in found]

CatchUp(c) ==
  /\ stream[c].step = "resumed"
  /\ Read(c, "replay")
  /\ UNCHANGED <<table, frames, slots, cuts>>

(* A wake-up, or the heartbeat that makes up for a lost one; one that finds     *)
(* nothing is a ping.                                                          *)
Wake(c) ==
  /\ stream[c].step = "live"
  /\ IdsAfter(stream[c].seen) # {}
  /\ Read(c, "tail")
  /\ UNCHANGED <<table, frames, slots, cuts>>

(* One frame, in the order of the ids. A replay stops at the terminal event, a   *)
(* tail runs out first.                                                        *)
Send(c) ==
  /\ stream[c].step \in {"replay", "tail"}
  /\ \E e \in stream[c].batch :
       /\ First(stream[c].batch, e)
       /\ frames' = [frames EXCEPT ![c] = Append(@, e)]
       /\ stream' = [stream EXCEPT ![c].step = IF @ = "replay" /\ e = final THEN "closing" ELSE @,
                                   ![c].seen = e,
                                   ![c].batch = @ \ {e}]
  /\ UNCHANGED <<table, slots, cuts>>

(* Mutant of Listen: the end found by a heartbeat is sent without `done`.       *)
ListenOn(c) ==
  /\ stream[c].step \in {"replay", "tail"}
  /\ stream[c].batch = {}
  /\ stream' = [stream EXCEPT ![c].step = "live"]
  /\ UNCHANGED <<table, frames, slots, cuts>>

Listen(c) ==
  /\ stream[c].step \in {"replay", "tail"}
  /\ stream[c].batch = {}
  /\ stream' = [stream EXCEPT ![c].step = IF @ = "tail" /\ stream[c].ends THEN "closing" ELSE "live"]
  /\ UNCHANGED <<table, frames, slots, cuts>>

(* The `done` frame, then the `finally` of the stream. *)
Done(c) ==
  /\ stream[c].step = "closing"
  /\ stream' = [stream EXCEPT ![c] = Off]
  /\ Release(c)
  /\ UNCHANGED <<table, frames, cuts>>

(* The stream of another job ends. *)
Close(o) ==
  /\ stream[o] = Elsewhere
  /\ stream' = [stream EXCEPT ![o] = Off]
  /\ Release(o)
  /\ UNCHANGED <<table, frames, cuts>>

(* The connection breaks, or the client leaves; what is unsent is gone. *)
Leave(c) ==
  /\ stream[c].step \in Serving
  /\ cuts < MaxCuts
  /\ stream' = [stream EXCEPT ![c] = Off]
  /\ cuts' = cuts + 1
  /\ Release(c)
  /\ UNCHANGED <<table, frames>>

(* Requests die between any two commands, one of them or a process full: nobody  *)
(* gives their slots back, and a SET 0 that was due never comes.                *)
Crash ==
  /\ cuts < MaxCuts
  /\ \E dead \in SUBSET (Claims \cup clearing) \ {{}} :
       /\ stream' = [c \in Keyed |-> IF c \in dead THEN Off ELSE stream[c]]
       /\ clearing' = clearing \ dead
       /\ leaked' = leaked + Cardinality(Claims \cap dead)
  /\ cuts' = cuts + 1
  /\ UNCHANGED <<table, frames, count, debt>>

Write ==
  \/ \E kind \in Kinds : Record(kind)
  \/ \E t \in writing : Commit(t) \/ RollBack(t)

Serve(c) == Snapshot(c) \/ CatchUp(c) \/ Wake(c) \/ Send(c) \/ Listen(c) \/ Done(c)

Next ==
  \/ Write
  \/ \E k \in Keyed : Refuse(k) \/ Clear(k)
  \/ \E c \in Clients : Ask(c, Granted) \/ Connect(c) \/ Serve(c) \/ Leave(c)
  \/ \E o \in Others : Ask(o, Elsewhere) \/ Close(o)
  \/ Expire \/ Crash

Spec == Init /\ [][Next]_vars

(* The loop of a stream goes on: a heartbeat comes every sse_heartbeat_s.       *)
FairSpec == Spec /\ \A c \in Clients : WF_vars(Serve(c))

--------------------------------------------------------------------------------
Inserted == [id : Ids, kind : Kinds]
Streams == [step : Serving, seen : Nat, batch : SUBSET Ids, ends : BOOLEAN]

(* Ids, rows and streams are of their types; the counter may be below zero. *)
TypeOK ==
  /\ next \in 1 .. MaxEvents + 1
  /\ writing \subseteq Inserted
  /\ changes \subseteq log /\ log \subseteq Ids /\ late \subseteq log
  /\ final \in changes \cup {0}
  /\ stream \in [Keyed -> {Off, Granted, Refused, Elsewhere} \cup Streams]
  /\ \A o \in Others : stream[o] \notin Streams
  /\ frames \in [Clients -> Seq(Ids)]
  /\ count \in Int /\ clearing \subseteq Keyed
  /\ {cuts, debt, leaked} \subseteq Nat

(* Across wake-ups, heartbeats and reconnects a client receives ids in order,    *)
(* each once, and misses none but those that were committed after a larger one  *)
(* (_fetch_events_after, Last-Event-ID).                                       *)
FramesFaithful ==
  \A c \in Clients :
    LET f == frames[c]
    IN  /\ \A i, j \in DOMAIN f : i < j => f[i] < f[j]
        /\ \A e \in log \ late : (f # <<>> /\ f[1] < e /\ e < Last(f)) => e \in Range(f)

(* Whatever commands interleave, requests die or keys lapse, the streams of a    *)
(* key are no more than the limit and those requests that held a slot when the   *)
(* counter last became 0 (acquire_stream_slot, release_stream_slot).            *)
SlotsBounded == Cardinality(Open) <= MaxStreams + debt

(* A key without a slot left has its limit in requests that hold one and in      *)
(* requests that died with one: neither refused attempts nor releases make the   *)
(* counter creep upwards (the rollback of INCR in acquire_stream_slot).         *)
RefusedForCause == SlotLeft \/ Cardinality(Claims) + leaked >= MaxStreams

(* A stream that is not past the terminal event ends, even if no wake-up ever   *)
(* reaches it (the heartbeat branch of event_stream), unless that event was     *)
(* committed after a larger one.                                               *)
EndArrives ==
  \A c \in Clients :
    (c \in Open /\ final \in log \ late /\ stream[c].seen < final) ~> c \notin Open

(* No stream of a terminal job stays open for ever (ADR-012, section 6).        *)
StreamsEnd == \A c \in Clients : (c \in Open /\ final # 0) ~> c \notin Open
================================================================================
