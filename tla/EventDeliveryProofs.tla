-------------------------- MODULE EventDeliveryProofs --------------------------
(* Proofs about EventDelivery: what a client is sent across wake-ups and        *)
(* reconnects, how many streams a key has, and why one is refused.              *)
EXTENDS EventDelivery, FiniteSetTheorems, TLAPS

USE EventDeliveryAssumption

(* What the state of a stream says of the frames its client has: it goes by the  *)
(* last of them, and what it has read and not yet sent follows without a gap.   *)
Tracks(s, f) ==
  s.step \in Serving =>
    /\ s.step = "subscribed" => f = <<>> /\ s.batch = {}
    /\ f = <<>> \/ s.seen = Last(f)
    /\ s.batch \subseteq log
    /\ \A x \in s.batch :
         /\ s.seen < x
         /\ \A e \in log \ late : s.seen < e /\ e < x => e \in s.batch

(* FramesFaithful, of one client. *)
Whole(f) ==
  /\ \A i, j \in DOMAIN f : i < j => f[i] < f[j]
  /\ \A e \in log \ late : (f # <<>> /\ f[1] < e /\ e < Last(f)) => e \in Range(f)

Streamed ==
  \A c \in Clients : frames[c] \in Seq(log) /\ Tracks(stream[c], frames[c]) /\ Whole(frames[c])

(* The connections that are past the limit's check, or will be. *)
Holders == {k \in Keyed : stream[k] \notin {Off, Refused}}

(* The counter has every claim but those it has forgotten, and nothing else but  *)
(* what dead requests left in it. Whoever passed the check found the counter     *)
(* below the limit, so that the forgotten ones are all that can be too many.    *)
Counted ==
  /\ IsFiniteSet(Claims)
  /\ Cardinality(Claims) <= count + debt
  /\ Cardinality(Holders) <= MaxStreams + debt
  /\ count <= Cardinality(Claims) + leaked

IInv == TypeOK /\ Streamed /\ Counted

--------------------------------------------------------------------------------
(* Types                                                                       *)

LEMMA ServedIsStream ==
  ASSUME TypeOK, NEW c \in Clients, stream[c].step \in Serving
  PROVE  stream[c] \in Streams
<1>1. c \in Keyed
  BY DEF Keyed
<1>. QED BY <1>1 DEF TypeOK, Off, Granted, Refused, Elsewhere, Serving

States == {Off, Granted, Refused, Elsewhere} \cup Streams

(* A step of one connection keeps the types of the streams. *)
LEMMA StreamTypes ==
  ASSUME TypeOK, NEW k \in Keyed, NEW s \in States, k \in Others => s \notin Streams,
         stream' = [stream EXCEPT ![k] = s]
  PROVE  stream' \in [Keyed -> States] /\ \A o \in Others : stream'[o] \notin Streams
<1>1. stream \in [Keyed -> States] /\ Others \subseteq Keyed
  BY DEF TypeOK, States, Keyed
<1>2. ASSUME NEW o \in Others PROVE stream'[o] \notin Streams
  <2>1. CASE o = k
    BY <1>1, <2>1
  <2>2. CASE o # k
    BY <1>1, <2>2 DEF TypeOK
  <2>. QED BY <2>1, <2>2
<1>. QED BY <1>1, <1>2

LEMMA WriterTypes ==
  ASSUME TypeOK, Write
  PROVE  TypeOK'
<1>1. ASSUME NEW kind \in Kinds, Record(kind) PROVE TypeOK'
  <2>1. [id |-> next, kind |-> kind] \in Inserted /\ next + 1 \in 1 .. MaxEvents + 1
    BY <1>1 DEF Record, Inserted, Ids, TypeOK
  <2>. QED BY <1>1, <2>1 DEF Record, TypeOK, slots
<1>2. ASSUME NEW t \in writing, Commit(t) PROVE TypeOK'
  <2>1. t.id \in Ids /\ t.kind \in Kinds
    BY DEF TypeOK, Inserted
  <2>2. /\ log' = log \cup {t.id}
        /\ changes' = IF t.kind = "note" THEN changes ELSE changes \cup {t.id}
        /\ final' = IF t.kind = "final" THEN t.id ELSE final
        /\ late' = IF \E f \in log : f > t.id THEN late \cup {t.id} ELSE late
    BY <1>2 DEF Commit
  <2>3. changes' \subseteq log' /\ log' \subseteq Ids /\ late' \subseteq log'
    BY <2>1, <2>2 DEF TypeOK
  <2>4. final' \in changes' \cup {0}
    BY <2>1, <2>2 DEF TypeOK
  <2>5. writing' \subseteq Inserted
    BY <1>2 DEF Commit, TypeOK
  <2>. QED BY <1>2, <2>3, <2>4, <2>5 DEF Commit, TypeOK, slots
<1>3. ASSUME NEW t \in writing, RollBack(t) PROVE TypeOK'
  BY <1>3 DEF RollBack, TypeOK, slots
<1>. QED BY <1>1, <1>2, <1>3 DEF Write

--------------------------------------------------------------------------------
(* The steps of a stream, each with the state and the frames it leaves.         *)

(* The event a client is sent follows those it has, and leaves none out that is  *)
(* between them.                                                               *)
LEMMA SentInOrder ==
  ASSUME TypeOK, NEW s \in Streams, NEW f \in Seq(log), Tracks(s, f), Whole(f),
         NEW e \in s.batch, First(s.batch, e)
  PROVE  /\ Append(f, e) \in Seq(log)
         /\ Last(Append(f, e)) = e
         /\ Whole(Append(f, e))
<1>. DEFINE g == Append(f, e)
<1>1. /\ log \subseteq Nat /\ e \in log /\ s.seen \in Nat /\ s.seen < e
      /\ f = <<>> \/ s.seen = Last(f)
  BY DEF TypeOK, Ids, Tracks, Streams
<1>2. /\ g \in Seq(log) /\ Len(g) = Len(f) + 1 /\ g[Len(g)] = e
      /\ \A i \in 1 .. Len(f) : g[i] = f[i] /\ f[i] \in log
      /\ DOMAIN f = 1 .. Len(f) /\ DOMAIN g = 1 .. Len(g) /\ Len(f) \in Nat
  BY <1>1
<1>3. Last(g) = e
  BY <1>2 DEF Last
<1>. HIDE DEF g
<1>4. ASSUME NEW i \in DOMAIN g, NEW j \in DOMAIN g, i < j PROVE g[i] < g[j]
  <2>1. i \in 1 .. Len(f) /\ g[i] = f[i] /\ f[i] \in log
    BY <1>2, <1>4
  <2>4. f[i] \in Nat
    BY <1>1, <2>1
  <2>2. CASE j = Len(g)
    <3>1. f # <<>> /\ Last(f) = f[Len(f)] /\ Len(f) \in DOMAIN f
      BY <1>2, <2>1 DEF Last
    <3>2. i = Len(f) \/ f[i] < f[Len(f)]
      BY <1>2, <2>1, <3>1 DEF Whole
    <3>. QED BY <1>1, <1>2, <2>1, <2>2, <2>4, <3>1, <3>2
  <2>3. CASE j # Len(g)
    BY <1>2, <1>4, <2>1, <2>3 DEF Whole
  <2>. QED BY <2>2, <2>3
<1>5. ASSUME NEW x \in log \ late, g[1] < x, x < Last(g) PROVE x \in Range(g)
  <2>1. f # <<>> /\ g[1] = f[1] /\ 1 \in DOMAIN f
    <3>1. x \in Nat /\ e \in Nat
      BY <1>1
    <3>2. Len(f) # 0
      BY <1>2, <1>3, <1>5, <3>1
    <3>. QED BY <1>2, <3>2
  <2>2. Last(f) = f[Len(f)] /\ Len(f) \in DOMAIN f /\ Last(f) \in Nat
    BY <1>1, <1>2, <2>1 DEF Last
  <2>3. x <= Last(f)
    <3>1. x \notin s.batch
      <4>1. ~ (e <= x)
        <5>1. x \in Nat /\ e \in Nat
          BY <1>1
        <5>2. x < e
          BY <1>3, <1>5
        <5>. QED BY <5>1, <5>2
      <4>. QED BY <4>1 DEF First
    <3>. QED BY <1>1, <1>3, <1>5, <2>1, <2>2, <3>1 DEF Tracks, Streams
  <2>4. x \in Range(f)
    <3>1. CASE x = Last(f)
      BY <2>2, <3>1 DEF Range
    <3>2. CASE x # Last(f)
      <4>1. f[1] < x /\ x < Last(f)
        BY <1>1, <1>5, <2>1, <2>2, <2>3, <3>2
      <4>. QED BY <2>1, <4>1 DEF Whole
    <3>. QED BY <3>1, <3>2
  <2>5. PICK i \in DOMAIN f : x = f[i]
    BY <2>4 DEF Range
  <2>6. i \in DOMAIN g /\ g[i] = x
    BY <1>2, <2>5
  <2>. QED BY <2>6 DEF Range
<1>6. Whole(g)
  BY <1>4, <1>5 DEF Whole
<1>. QED BY <1>2, <1>3, <1>6 DEF g

(* What a read finds follows the last frame without a gap. *)
LEMMA ReadFollows ==
  ASSUME TypeOK, NEW c \in Clients, stream[c] \in Streams, NEW f, Tracks(stream[c], f),
         stream[c].step # "subscribed", NEW step \in {"replay", "tail"}, Read(c, step)
  PROVE  \E s \in Streams : stream' = [stream EXCEPT ![c] = s] /\ Tracks(s, f)
<1>. DEFINE found == IdsAfter(stream[c].seen)
            s == [stream[c] EXCEPT !.step = step, !.batch = found, !.ends = final \in found]
<1>1. found \subseteq log /\ found \subseteq Ids /\ (final \in found) \in BOOLEAN
  BY DEF IdsAfter, TypeOK
<1>2. s \in Streams /\ s.seen = stream[c].seen /\ s.batch = found /\ s.step = step
  BY <1>1 DEF Streams, Serving
<1>3. stream' = [stream EXCEPT ![c] = s]
  <2>1. stream \in [Keyed -> States] /\ c \in Keyed
    BY DEF TypeOK, States, Keyed
  <2>. QED BY <2>1 DEF Read
<1>4. \A x \in found : stream[c].seen < x
  BY <1>1 DEF IdsAfter, Streams, TypeOK, Ids
<1>5. \A e \in log : stream[c].seen < e => e \in found
  BY DEF IdsAfter, Streams, TypeOK, Ids
<1>6. f = <<>> \/ stream[c].seen = Last(f)
  BY DEF Tracks, Streams
<1>7. Tracks(s, f)
  BY <1>1, <1>2, <1>4, <1>5, <1>6 DEF Tracks
<1>. QED BY <1>2, <1>3, <1>7

(* A step of one stream leaves it in one of the states, which tracks the frames  *)
(* that the client has then.                                                   *)
Leaves(c, states) ==
  \E s \in states, f \in Seq(log) :
    /\ stream' = [stream EXCEPT ![c] = s]
    /\ frames' = [frames EXCEPT ![c] = f]
    /\ Tracks(s, f)
    /\ Whole(f)

LEMMA SameFrames ==
  ASSUME TypeOK, Streamed, NEW c \in Clients, UNCHANGED frames,
         NEW states, NEW s \in states, stream' = [stream EXCEPT ![c] = s], Tracks(s, frames[c])
  PROVE  Leaves(c, states)
<1>1. frames' = [frames EXCEPT ![c] = frames[c]]
  BY DEF TypeOK
<1>. QED BY <1>1 DEF Leaves, Streamed

LEMMA ConnectLeaves ==
  ASSUME TypeOK, Streamed, NEW c \in Clients, Connect(c)
  PROVE  Leaves(c, Streams)
<1>1. CASE Join(c)
  <2>1. Begin("subscribed", 0) \in Streams
    BY DEF Begin, Streams, Serving
  <2>2. Tracks(Begin("subscribed", 0), <<>>)
    BY DEF Tracks, Begin
  <2>3. <<>> \in Seq(log) /\ Whole(<<>>)
    BY DEF Whole
  <2>. QED BY <1>1, <2>1, <2>2, <2>3 DEF Join, Leaves
<1>2. CASE Resume(c)
  <2>1. frames[c] # <<>> /\ frames[c] \in Seq(Ids)
    BY <1>2 DEF Resume, TypeOK
  <2>2. Last(frames[c]) \in Nat
    BY <2>1 DEF Last, Ids
  <2>3. Begin("resumed", Last(frames[c])) \in Streams
    BY <2>2 DEF Begin, Streams, Serving
  <2>4. Tracks(Begin("resumed", Last(frames[c])), frames[c])
    BY DEF Tracks, Begin
  <2>. QED BY <1>2, <2>3, <2>4, SameFrames DEF Resume
<1>. QED BY <1>1, <1>2 DEF Connect

LEMMA ServeLeaves ==
  ASSUME TypeOK, Streamed, NEW c \in Clients, Serve(c)
  PROVE  Leaves(c, Streams) \/ (Done(c) /\ Leaves(c, {Off}))
<1>. DEFINE s0 == stream[c]
<1>1. s0 \in Streams
  <2>1. s0.step \in Serving
    BY DEF Serve, Snapshot, CatchUp, Wake, Send, Listen, Done, Serving
  <2>. QED BY <2>1, ServedIsStream
<1>2. /\ Tracks(s0, frames[c]) /\ frames[c] \in Seq(log) /\ Whole(frames[c])
      /\ s0.step \in Serving
  BY <1>1 DEF Streamed, Streams
<1>3. stream \in [Keyed -> States] /\ frames \in [Clients -> Seq(Ids)] /\ c \in Keyed
  BY DEF TypeOK, Keyed, States
<1>4. CASE Snapshot(c)
  <2>1. s0.step = "subscribed" /\ s0.batch = {} /\ frames[c] = <<>>
    BY <1>2, <1>4 DEF Snapshot, Tracks
  <2>2. CASE changes = {} /\ stream' = [stream EXCEPT ![c].step = "resumed"] /\ UNCHANGED frames
    <3>. DEFINE s == [s0 EXCEPT !.step = "resumed"]
    <3>1. s \in Streams /\ s.batch = {} /\ s.step = "resumed"
      BY <1>1, <2>1 DEF Streams, Serving
    <3>2. stream' = [stream EXCEPT ![c] = s]
      BY <1>3, <2>2
    <3>3. Tracks(s, frames[c])
      BY <2>1, <3>1 DEF Tracks
    <3>. QED BY <2>2, <3>1, <3>2, <3>3, SameFrames
  <2>3. ASSUME NEW e \in changes, frames' = [frames EXCEPT ![c] = <<e>>],
               stream' = [stream EXCEPT ![c].step = IF e = final THEN "closing" ELSE "resumed",
                                        ![c].seen = e]
        PROVE  Leaves(c, Streams)
    <3>. DEFINE to == IF e = final THEN "closing" ELSE "resumed"
                s == [s0 EXCEPT !.step = to, !.seen = e]
    <3>1. e \in log /\ e \in Nat
      BY DEF TypeOK, Ids
    <3>2. s \in Streams /\ s.batch = {} /\ s.step \in {"closing", "resumed"} /\ s.seen = e
      BY <1>1, <2>1, <3>1 DEF Streams, Serving
    <3>3. stream' = [stream EXCEPT ![c] = s]
      BY <1>3, <2>3
    <3>4. <<e>> \in Seq(log) /\ Last(<<e>>) = e /\ <<e>>[1] = e /\ DOMAIN <<e>> = {1}
      BY <3>1 DEF Last
    <3>5. Tracks(s, <<e>>)
      BY <3>2, <3>4 DEF Tracks
    <3>6. Whole(<<e>>)
      <4>1. log \subseteq Nat
        BY DEF TypeOK, Ids
      <4>. QED BY <3>1, <3>4, <4>1 DEF Whole
    <3>. QED BY <2>3, <3>2, <3>3, <3>4, <3>5, <3>6 DEF Leaves
  <2>. QED BY <1>4, <2>2, <2>3 DEF Snapshot
<1>5. CASE CatchUp(c)
  <2>1. PICK s \in Streams : stream' = [stream EXCEPT ![c] = s] /\ Tracks(s, frames[c])
    BY <1>1, <1>2, <1>5, ReadFollows DEF CatchUp
  <2>. QED BY <1>5, <2>1, SameFrames DEF CatchUp
<1>6. CASE Wake(c)
  <2>1. PICK s \in Streams : stream' = [stream EXCEPT ![c] = s] /\ Tracks(s, frames[c])
    BY <1>1, <1>2, <1>6, ReadFollows DEF Wake
  <2>. QED BY <1>6, <2>1, SameFrames DEF Wake
<1>7. CASE Send(c)
  <2>1. PICK e \in s0.batch :
          /\ First(s0.batch, e)
          /\ frames' = [frames EXCEPT ![c] = Append(@, e)]
          /\ stream' = [stream EXCEPT ![c].step = IF @ = "replay" /\ e = final THEN "closing" ELSE @,
                                      ![c].seen = e,
                                      ![c].batch = @ \ {e}]
    BY <1>7 DEF Send
  <2>. DEFINE to == IF s0.step = "replay" /\ e = final THEN "closing" ELSE s0.step
              s == [s0 EXCEPT !.step = to, !.seen = e, !.batch = s0.batch \ {e}]
              f == Append(frames[c], e)
  <2>2. f \in Seq(log) /\ Last(f) = e /\ Whole(f)
    BY <1>1, <1>2, <2>1, SentInOrder
  <2>3. s0.step \in {"replay", "tail"} /\ e \in Nat /\ e \in log /\ log \subseteq Nat
    BY <1>1, <1>7 DEF Send, Streams, Ids, Tracks, TypeOK, Streamed
  <2>4. /\ s \in Streams /\ s.seen = e /\ s.batch = s0.batch \ {e}
        /\ s.step \in {"replay", "tail", "closing"}
    BY <1>1, <2>3 DEF Streams, Serving
  <2>5. stream' = [stream EXCEPT ![c] = s] /\ frames' = [frames EXCEPT ![c] = f]
    BY <1>3, <2>1
  <2>6. s0.batch \subseteq log /\ s0.seen \in Nat /\ s0.seen < e
    BY <1>1, <1>2 DEF Tracks, Streams
  <2>7. \A x \in s.batch : e < x /\ (\A y \in log \ late : e < y /\ y < x => y \in s.batch)
    <3>. SUFFICES ASSUME NEW x \in s.batch
                  PROVE  e < x /\ (\A y \in log \ late : e < y /\ y < x => y \in s.batch)
      OBVIOUS
    <3>1. x \in s0.batch /\ x # e /\ x \in Nat
      BY <2>3, <2>4, <2>6
    <3>2. e < x
      BY <2>1, <2>3, <3>1 DEF First
    <3>3. ASSUME NEW y \in log \ late, e < y, y < x PROVE y \in s.batch
      <4>1. y \in Nat /\ s0.seen < y
        BY <2>3, <2>6, <3>3
      <4>2. y \in s0.batch
        BY <1>2, <3>1, <3>3, <4>1 DEF Tracks
      <4>. QED BY <2>3, <2>4, <3>3, <4>1, <4>2
    <3>. QED BY <3>2, <3>3
  <2>8. Tracks(s, f)
    BY <2>2, <2>4, <2>6, <2>7 DEF Tracks
  <2>. QED BY <2>2, <2>4, <2>5, <2>8 DEF Leaves
<1>8. CASE Listen(c)
  <2>. DEFINE to == IF s0.step = "tail" /\ s0.ends THEN "closing" ELSE "live"
              s == [s0 EXCEPT !.step = to]
  <2>1. s0.step \in {"replay", "tail"} /\ s0.batch = {}
    BY <1>8 DEF Listen
  <2>2. s \in Streams /\ s.step \in {"closing", "live"} /\ s.batch = {} /\ s.seen = s0.seen
    BY <1>1, <2>1 DEF Streams, Serving
  <2>3. stream' = [stream EXCEPT ![c] = s]
    BY <1>3, <1>8 DEF Listen
  <2>4. Tracks(s, frames[c])
    BY <1>2, <2>2 DEF Tracks
  <2>. QED BY <1>8, <2>2, <2>3, <2>4, SameFrames DEF Listen
<1>9. CASE Done(c)
  <2>1. Tracks(Off, frames[c])
    BY DEF Tracks, Off, Serving
  <2>. QED BY <1>9, <2>1, SameFrames DEF Done
<1>. QED BY <1>4, <1>5, <1>6, <1>7, <1>8, <1>9 DEF Serve

LEMMA LeaveLeaves ==
  ASSUME TypeOK, Streamed, NEW c \in Clients, Leave(c)
  PROVE  Leaves(c, {Off})
<1>1. Tracks(Off, frames[c])
  BY DEF Tracks, Off, Serving
<1>. QED BY <1>1, SameFrames DEF Leave

--------------------------------------------------------------------------------
(* The steps of the system                                                     *)

LEMMA LeavesStreamed ==
  ASSUME TypeOK, Streamed, NEW c \in Clients, NEW states, Leaves(c, states), UNCHANGED table
  PROVE  Streamed'
<1>1. PICK s \in states, f \in Seq(log) :
        /\ stream' = [stream EXCEPT ![c] = s]
        /\ frames' = [frames EXCEPT ![c] = f]
        /\ Tracks(s, f)
        /\ Whole(f)
  BY DEF Leaves
<1>2. ASSUME NEW d \in Clients
      PROVE  /\ frames'[d] \in Seq(log)
             /\ Tracks(stream'[d], frames'[d])
             /\ Whole(frames'[d])
  <2>1. CASE d = c
    BY <1>1, <2>1 DEF TypeOK, Keyed
  <2>2. CASE d # c
    BY <1>1, <2>2 DEF TypeOK, Streamed, Keyed
  <2>. QED BY <2>1, <2>2
<1>3. log' = log /\ late' = late
  BY DEF table
<1>. QED BY <1>2, <1>3 DEF Streamed, Tracks, Whole

(* A step of a connection of which the client sees nothing. *)
LEMMA UnseenStreamed ==
  ASSUME TypeOK, Streamed, NEW k \in Keyed, NEW s, s.step \notin Serving,
         stream' = [stream EXCEPT ![k] = s], UNCHANGED <<table, frames>>
  PROVE  Streamed'
<1>1. log' = log /\ late' = late /\ frames' = frames
  BY DEF table
<1>2. ASSUME NEW c \in Clients PROVE Tracks(stream'[c], frames[c])
  <2>1. c \in Keyed /\ stream \in [Keyed -> States]
    BY DEF Keyed, TypeOK, States
  <2>2. CASE c = k
    BY <2>1, <2>2 DEF Tracks
  <2>3. CASE c # k
    BY <2>1, <2>3 DEF Streamed
  <2>. QED BY <2>2, <2>3
<1>. QED BY <1>1, <1>2 DEF Streamed, Tracks, Whole

LEMMA LeavesTypes ==
  ASSUME TypeOK, NEW c \in Clients, NEW states, states \subseteq States, Leaves(c, states)
  PROVE  /\ stream' \in [Keyed -> States] /\ \A o \in Others : stream'[o] \notin Streams
         /\ frames' \in [Clients -> Seq(Ids)]
<1>1. PICK s \in states, f \in Seq(log) :
        stream' = [stream EXCEPT ![c] = s] /\ frames' = [frames EXCEPT ![c] = f]
  BY DEF Leaves
<1>2. f \in Seq(Ids)
  BY <1>1 DEF TypeOK
<1>3. frames' \in [Clients -> Seq(Ids)]
  BY <1>1, <1>2 DEF TypeOK
<1>4. c \in Keyed /\ c \notin Others
  BY EventDeliveryAssumption DEF Keyed
<1>. QED BY <1>1, <1>3, <1>4, StreamTypes

(* An event that is committed and is not late follows every event of the log.   *)
LEMMA NewIsLast ==
  ASSUME TypeOK, NEW t \in writing, Commit(t)
  PROVE  /\ log \subseteq log' /\ log' \subseteq Ids
         /\ \A e \in log' \ late' : e \in log \ late \/ \A f \in log : f <= e
<1>1. t.id \in Ids
  BY DEF TypeOK, Inserted
<1>2. /\ log' = log \cup {t.id}
      /\ late' = IF \E f \in log : f > t.id THEN late \cup {t.id} ELSE late
  BY DEF Commit
<1>3. log \subseteq Nat /\ log \subseteq Ids /\ late \subseteq log /\ t.id \in Nat
  BY <1>1 DEF TypeOK, Ids
<1>4. ASSUME NEW e \in log' \ late' PROVE e \in log \ late \/ \A f \in log : f <= e
  <2>1. CASE e \in log \ late
    BY <2>1
  <2>2. CASE e \notin log \ late
    <3>1. e = t.id
      BY <1>2, <1>4, <2>2
    <3>2. ~ \E f \in log : f > t.id
      BY <1>2, <1>4, <3>1
    <3>. QED BY <1>3, <3>1, <3>2
  <2>. QED BY <2>1, <2>2
<1>. QED BY <1>1, <1>2, <1>3, <1>4

LEMMA LongerLog ==
  ASSUME NEW small, NEW large, small \subseteq large, NEW f \in Seq(small)
  PROVE  f \in Seq(large)
  OBVIOUS

LEMMA WriteStreamed ==
  ASSUME TypeOK, Streamed, Write
  PROVE  Streamed'
<1>1. UNCHANGED <<stream, frames>>
  BY DEF Write, Record, Commit, RollBack
<1>2. /\ log \subseteq log' /\ log' \subseteq Ids
      /\ \A e \in log' \ late' : e \in log \ late \/ \A f \in log : f <= e
  <2>1. ASSUME NEW t \in writing, Commit(t)
        PROVE  /\ log \subseteq log' /\ log' \subseteq Ids
               /\ \A e \in log' \ late' : e \in log \ late \/ \A f \in log : f <= e
    BY <2>1, NewIsLast
  <2>2. CASE UNCHANGED <<log, late>>
    BY <2>2 DEF TypeOK
  <2>. QED BY <2>1, <2>2 DEF Write, Record, RollBack
<1>3. ASSUME NEW c \in Clients
      PROVE  frames[c] \in Seq(log') /\ Tracks(stream[c], frames[c])' /\ Whole(frames[c])'
  <2>. DEFINE f == frames[c]
              s == stream[c]
  <2>1. f \in Seq(log) /\ Tracks(s, f) /\ Whole(f) /\ log \subseteq Nat /\ log' \subseteq Nat
    BY <1>2 DEF Streamed, Ids
  <2>2. f \in Seq(log')
    BY <1>2, <2>1, LongerLog
  <2>3. f # <<>> => Last(f) \in log
    BY <2>1 DEF Last
  <2>4. \A e \in log' \ late' : (f # <<>> /\ f[1] < e /\ e < Last(f)) => e \in Range(f)
    <3>. SUFFICES ASSUME NEW e \in log' \ late', f # <<>>, f[1] < e, e < Last(f)
                  PROVE  e \in Range(f)
      OBVIOUS
    <3>1. e \in log \ late
      <4>1. Last(f) \in log /\ Last(f) \in Nat /\ e \in Nat
        BY <2>1, <2>3
      <4>2. ~ (Last(f) <= e)
        BY <4>1
      <4>. QED BY <1>2, <4>1, <4>2
    <3>. QED BY <2>1, <3>1 DEF Whole
  <2>5. ASSUME s.step \in Serving, NEW x \in s.batch, NEW e \in log' \ late', s.seen < e, e < x
        PROVE  e \in s.batch
    <3>1. x \in log
      BY <2>1, <2>5 DEF Tracks
    <3>2. e \in log \ late
      <4>1. x \in Nat /\ e \in Nat
        BY <2>1, <3>1
      <4>2. ~ (x <= e)
        BY <2>5, <4>1
      <4>. QED BY <1>2, <3>1, <4>2
    <3>. QED BY <2>1, <2>5, <3>2 DEF Tracks
  <2>6. Whole(frames[c])'
    BY <1>1, <2>1, <2>4 DEF Whole
  <2>7. Tracks(stream[c], frames[c])'
    BY <1>1, <1>2, <2>1, <2>5 DEF Tracks
  <2>. QED BY <2>2, <2>6, <2>7
<1>. QED BY <1>1, <1>3 DEF Streamed

LEMMA CrashStreamed ==
  ASSUME TypeOK, Streamed, Crash
  PROVE  Streamed'
<1>1. log' = log /\ late' = late /\ frames' = frames
  BY DEF Crash, table
<1>2. ASSUME NEW c \in Clients PROVE Tracks(stream'[c], frames[c])
  <2>1. stream'[c] = Off \/ stream'[c] = stream[c]
    BY DEF Crash, Keyed
  <2>2. Tracks(Off, frames[c])
    BY DEF Tracks, Off, Serving
  <2>. QED BY <2>1, <2>2 DEF Streamed
<1>. QED BY <1>1, <1>2 DEF Streamed, Tracks, Whole

--------------------------------------------------------------------------------
(* The slots                                                                   *)

LEMMA ClaimsAfter ==
  ASSUME TypeOK, NEW k \in Keyed, NEW s, stream' = [stream EXCEPT ![k] = s]
  PROVE  /\ Claims' = IF s # Off THEN Claims \cup {k} ELSE Claims \ {k}
         /\ Holders' = IF s \notin {Off, Refused} THEN Holders \cup {k} ELSE Holders \ {k}
<1>1. stream \in [Keyed -> States]
  BY DEF TypeOK, States
<1>2. \A d \in Keyed : stream'[d] = IF d = k THEN s ELSE stream[d]
  BY <1>1
<1>. QED BY <1>2 DEF Claims, Holders

LEMMA StreamsClaim ==
  ASSUME NEW s \in Streams
  PROVE  s \notin {Off, Refused}
  BY DEF Streams, Off, Refused, Serving

LEMMA NamesDiffer == Off # Granted /\ Off # Refused /\ Off # Elsewhere /\ Refused # Granted
                     /\ Refused # Elsewhere
<1>1. /\ Off.step = "off" /\ Granted.step = "granted" /\ Refused.step = "refused"
      /\ Elsewhere.step = "elsewhere"
  BY DEF Off, Granted, Refused, Elsewhere
<1>. QED BY <1>1

LEMMA HoldersClaim == Holders \subseteq Claims
  BY DEF Holders, Claims

(* The facts of arithmetic that Counted is made of. *)
LEMMA CountedFacts ==
  ASSUME TypeOK, Counted
  PROVE  /\ count \in Int /\ debt \in Nat /\ leaked \in Nat /\ MaxStreams \in Nat
         /\ IsFiniteSet(Claims) /\ Cardinality(Claims) \in Nat
         /\ IsFiniteSet(Holders) /\ Cardinality(Holders) \in Nat
         /\ Cardinality(Holders) <= Cardinality(Claims)
<1>1. IsFiniteSet(Claims) /\ IsFiniteSet(Holders) /\ Cardinality(Holders) <= Cardinality(Claims)
  BY HoldersClaim, FS_Subset DEF Counted
<1>. QED BY <1>1, FS_CardinalityType DEF TypeOK

(* A step that leaves the slots and moves no connection in or out. *)
LEMMA SlotsUntouched ==
  ASSUME TypeOK, Counted, UNCHANGED slots, Claims' = Claims, Holders' = Holders
  PROVE  Counted'
  BY DEF Counted, slots

(* INCR. *)
LEMMA AskCounted ==
  ASSUME TypeOK, Counted, NEW k \in Keyed, NEW granted \in {Granted, Elsewhere}, Ask(k, granted)
  PROVE  Counted'
<1>1. /\ count' = count + 1 /\ debt' = debt /\ leaked' = leaked
      /\ stream[k] = Off
      /\ stream' = [stream EXCEPT ![k] = IF SlotLeft THEN granted ELSE Refused]
  BY DEF Ask
<1>2. k \notin Claims /\ k \notin Holders
  BY <1>1 DEF Claims, Holders
<1>3. Claims' = Claims \cup {k} /\ (~SlotLeft => Holders' = Holders)
  <2>. DEFINE to == IF SlotLeft THEN granted ELSE Refused
  <2>1. to # Off /\ (~SlotLeft => to = Refused)
    BY NamesDiffer
  <2>2. stream' = [stream EXCEPT ![k] = to]
    BY <1>1
  <2>. HIDE DEF to
  <2>3. /\ Claims' = IF to # Off THEN Claims \cup {k} ELSE Claims \ {k}
        /\ Holders' = IF to \notin {Off, Refused} THEN Holders \cup {k} ELSE Holders \ {k}
    BY <2>2, ClaimsAfter
  <2>. QED BY <1>2, <2>1, <2>3
<1>4. IsFiniteSet(Claims') /\ Cardinality(Claims') = Cardinality(Claims) + 1
  BY <1>2, <1>3, FS_AddElement DEF Counted
<1>5. Cardinality(Holders') <= MaxStreams + debt'
  <2>1. CASE SlotLeft
    <3>1. Holders' \subseteq Claims'
      BY DEF Holders, Claims
    <3>2. Cardinality(Holders') <= Cardinality(Claims') /\ Cardinality(Holders') \in Nat
      BY <1>4, <3>1, FS_Subset, FS_CardinalityType
    <3>3. Cardinality(Claims) <= count + debt /\ count < MaxStreams
      BY <2>1 DEF Counted, SlotLeft
    <3>. QED BY <1>1, <1>4, <3>2, <3>3, CountedFacts
  <2>2. CASE ~SlotLeft
    BY <1>1, <1>3, <2>2 DEF Counted
  <2>. QED BY <2>1, <2>2
<1>6. Cardinality(Claims') <= count' + debt' /\ count' <= Cardinality(Claims') + leaked'
  BY <1>1, <1>4, CountedFacts DEF Counted
<1>. QED BY <1>4, <1>5, <1>6 DEF Counted

(* DECR, of a refused attempt or of a stream that ends. *)
LEMMA ReturnCounted ==
  ASSUME TypeOK, Counted, NEW k \in Keyed, stream[k] # Off, stream' = [stream EXCEPT ![k] = Off],
         count' = count - 1, UNCHANGED <<debt, leaked>>
  PROVE  Counted'
<1>1. Claims' = Claims \ {k} /\ k \in Claims /\ Holders' = Holders \ {k}
  BY ClaimsAfter DEF Claims
<1>2. IsFiniteSet(Claims') /\ Cardinality(Claims') = Cardinality(Claims) - 1
  BY <1>1, FS_RemoveElement DEF Counted
<1>3. Cardinality(Holders') <= Cardinality(Holders) /\ Cardinality(Holders') \in Nat
  <2>1. Holders' \subseteq Holders /\ IsFiniteSet(Holders)
    BY <1>1, CountedFacts
  <2>. QED BY <2>1, FS_Subset, FS_CardinalityType
<1>. QED BY <1>2, <1>3, CountedFacts DEF Counted

(* The counter becomes 0, whatever it was. *)
LEMMA ForgetCounted ==
  ASSUME TypeOK, Counted, Forget, UNCHANGED stream
  PROVE  Counted'
<1>1. Claims' = Claims /\ Holders' = Holders
  BY DEF Claims, Holders
<1>. QED BY <1>1, CountedFacts DEF Counted, Forget

LEMMA CrashCounted ==
  ASSUME TypeOK, Counted, Crash
  PROVE  Counted'
<1>1. PICK dead \in SUBSET (Claims \cup clearing) \ {{}} :
        /\ stream' = [c \in Keyed |-> IF c \in dead THEN Off ELSE stream[c]]
        /\ leaked' = leaked + Cardinality(Claims \cap dead)
  BY DEF Crash
<1>2. count' = count /\ debt' = debt
  BY DEF Crash
<1>3. Claims' = Claims \ dead /\ Holders' \subseteq Holders
  BY <1>1 DEF Claims, Holders
<1>4. /\ IsFiniteSet(Claims')
      /\ Cardinality(Claims') = Cardinality(Claims) - Cardinality(Claims \cap dead)
  BY <1>3, FS_Difference DEF Counted
<1>5. Cardinality(Claims \cap dead) \in Nat
  BY FS_Subset, FS_CardinalityType, CountedFacts
<1>6. Cardinality(Holders') <= Cardinality(Holders) /\ Cardinality(Holders') \in Nat
  BY <1>3, CountedFacts, FS_Subset, FS_CardinalityType
<1>7. Cardinality(Claims') \in Nat
  BY <1>4, FS_CardinalityType
<1>. QED BY <1>1, <1>2, <1>4, <1>5, <1>6, <1>7, CountedFacts DEF Counted

LEMMA CountedStep ==
  ASSUME TypeOK, Counted, Streamed, [Next]_vars
  PROVE  Counted'
<1>1. ASSUME UNCHANGED <<stream, slots>> PROVE Counted'
  <2>1. Claims' = Claims /\ Holders' = Holders
    BY <1>1 DEF Claims, Holders
  <2>. QED BY <1>1, <2>1, SlotsUntouched
<1>2. ASSUME NEW k \in Keyed, stream[k] # Off, stream' = [stream EXCEPT ![k] = Off], Release(k)
      PROVE  Counted'
  BY <1>2, ReturnCounted DEF Release
<1>3. CASE Write
  BY <1>1, <1>3 DEF Write, Record, Commit, RollBack
<1>4. ASSUME NEW k \in Keyed, Refuse(k) PROVE Counted'
  BY <1>4, ReturnCounted, NamesDiffer DEF Refuse, GiveBack
<1>5. ASSUME NEW k \in Keyed, Clear(k) PROVE Counted'
  BY <1>5, ForgetCounted DEF Clear
<1>6. ASSUME NEW c \in Clients, Ask(c, Granted) PROVE Counted'
  BY <1>6, AskCounted DEF Keyed
<1>7. ASSUME NEW o \in Others, Ask(o, Elsewhere) PROVE Counted'
  BY <1>7, AskCounted DEF Keyed
<1>8. ASSUME NEW o \in Others, Close(o) PROVE Counted'
  <2>1. o \in Keyed /\ stream[o] # Off
    BY <1>8, NamesDiffer DEF Close, Keyed
  <2>. QED BY <1>2, <1>8, <2>1 DEF Close
<1>9. ASSUME NEW c \in Clients, NEW s \in Streams, stream[c] \notin {Off, Refused},
             stream' = [stream EXCEPT ![c] = s], UNCHANGED slots
      PROVE  Counted'
  <2>1. c \in Keyed /\ c \in Claims /\ c \in Holders
    BY <1>9 DEF Keyed, Claims, Holders
  <2>2. s # Off /\ s \notin {Off, Refused}
    BY StreamsClaim
  <2>3. /\ Claims' = IF s # Off THEN Claims \cup {c} ELSE Claims \ {c}
        /\ Holders' = IF s \notin {Off, Refused} THEN Holders \cup {c} ELSE Holders \ {c}
    BY <1>9, <2>1, ClaimsAfter
  <2>4. Claims' = Claims /\ Holders' = Holders
    BY <2>1, <2>2, <2>3
  <2>. QED BY <1>9, <2>4, SlotsUntouched
<1>10. ASSUME NEW c \in Clients, Connect(c) PROVE Counted'
  <2>1. PICK s \in Streams : stream' = [stream EXCEPT ![c] = s]
    BY <1>10, ConnectLeaves DEF Leaves
  <2>. QED BY <1>9, <1>10, <2>1, NamesDiffer DEF Connect
<1>11. ASSUME NEW c \in Clients, Serve(c) PROVE Counted'
  <2>1. stream[c] \in Streams /\ c \in Keyed
    <3>1. stream[c].step \in Serving
      BY <1>11 DEF Serve, Snapshot, CatchUp, Wake, Send, Listen, Done, Serving
    <3>. QED BY <3>1, ServedIsStream DEF Keyed
  <2>2. CASE Done(c)
    BY <1>2, <2>1, <2>2, StreamsClaim DEF Done
  <2>3. CASE ~Done(c)
    <3>1. PICK s \in Streams : stream' = [stream EXCEPT ![c] = s]
      BY <1>11, <2>3, ServeLeaves DEF Leaves
    <3>2. UNCHANGED slots
      BY <1>11, <2>3 DEF Serve, Snapshot, CatchUp, Wake, Send, Listen
    <3>. QED BY <1>9, <2>1, <3>1, <3>2, StreamsClaim
  <2>. QED BY <2>2, <2>3
<1>12. ASSUME NEW c \in Clients, Leave(c) PROVE Counted'
  <2>1. stream[c] \in Streams /\ c \in Keyed
    BY <1>12, ServedIsStream DEF Leave, Keyed
  <2>. QED BY <1>2, <1>12, <2>1, StreamsClaim DEF Leave
<1>13. CASE Expire
  BY <1>13, ForgetCounted DEF Expire
<1>14. CASE Crash
  BY <1>14, CrashCounted
<1>15. CASE UNCHANGED vars
  BY <1>1, <1>15 DEF vars, slots
<1>. QED BY <1>3, <1>4, <1>5, <1>6, <1>7, <1>8, <1>10, <1>11, <1>12, <1>13, <1>14, <1>15
         DEF Next

--------------------------------------------------------------------------------
(* The invariant                                                               *)

LEMMA InitIInv ==
  ASSUME Init
  PROVE  IInv
<1>. USE DEF Init
<1>1. Claims = {} /\ Holders = {}
  BY DEF Claims, Holders
<1>2. Counted
  <2>1. IsFiniteSet({}) /\ Cardinality({}) = 0
    BY FS_EmptySet
  <2>. QED BY <1>1, <2>1 DEF Counted
<1>3. TypeOK
  <2>1. \A c \in Clients : frames[c] \in Seq(Ids)
    OBVIOUS
  <2>2. /\ stream \in [Keyed -> {Off, Granted, Refused, Elsewhere} \cup Streams]
        /\ frames \in [Clients -> Seq(Ids)]
    BY <2>1
  <2>3. \A o \in Others : stream[o] \notin Streams
    BY StreamsClaim DEF Keyed
  <2>4. next \in 1 .. MaxEvents + 1 /\ final \in changes \cup {0}
    OBVIOUS
  <2>. QED BY <2>2, <2>3, <2>4 DEF TypeOK
<1>4. Streamed
  BY DEF Streamed, Tracks, Whole, Off, Serving, Keyed
<1>. QED BY <1>2, <1>3, <1>4 DEF IInv

(* What the steps of the connections do to the counter and the clearings. *)
LEMMA SlotTypes ==
  ASSUME IInv, UNCHANGED slots \/ (\E k \in Keyed, granted \in {Granted, Elsewhere} :
                 Ask(k, granted) \/ Refuse(k) \/ Release(k) \/ Clear(k))
  PROVE  count' \in Int /\ clearing' \subseteq Keyed /\ debt' \in Nat /\ leaked' \in Nat
<1>1. /\ count \in Int /\ clearing \subseteq Keyed /\ debt \in Nat /\ leaked \in Nat
      /\ Cardinality(Claims) \in Nat
  BY CountedFacts DEF IInv, TypeOK
<1>. QED BY <1>1 DEF slots, Ask, Refuse, GiveBack, Release, Clear, Forget

LEMMA StreamStep ==
  ASSUME IInv, NEW c \in Clients, Connect(c) \/ Serve(c) \/ Leave(c)
  PROVE  TypeOK' /\ Streamed'
<1>1. Leaves(c, Streams) \/ Leaves(c, {Off})
  BY ConnectLeaves, ServeLeaves, LeaveLeaves DEF IInv
<1>2. UNCHANGED table
  BY DEF Connect, Serve, Snapshot, CatchUp, Wake, Send, Listen, Done, Leave
<1>3. cuts' \in Nat
  <2>1. cuts \in Nat
    BY DEF IInv, TypeOK
  <2>2. cuts' = cuts \/ cuts' = cuts + 1
    <3>1. CASE Leave(c)
      BY <3>1 DEF Leave
    <3>2. CASE Connect(c) \/ Serve(c)
      BY <3>2 DEF Connect, Serve, Snapshot, CatchUp, Wake, Send, Listen, Done
    <3>. QED BY <3>1, <3>2
  <2>. QED BY <2>1, <2>2
<1>4. count' \in Int /\ clearing' \subseteq Keyed /\ debt' \in Nat /\ leaked' \in Nat
  <2>1. UNCHANGED slots \/ Release(c)
    BY DEF Connect, Serve, Snapshot, CatchUp, Wake, Send, Listen, Done, Leave
  <2>. QED BY <2>1, SlotTypes DEF Keyed
<1>5. /\ stream' \in [Keyed -> States] /\ \A o \in Others : stream'[o] \notin Streams
      /\ frames' \in [Clients -> Seq(Ids)]
  <2>1. Streams \subseteq States /\ {Off} \subseteq States
    BY DEF States
  <2>. QED BY <1>1, <2>1, LeavesTypes DEF IInv
<1>6. TypeOK'
  BY <1>2, <1>3, <1>4, <1>5 DEF IInv, TypeOK, table, States
<1>. QED BY <1>1, <1>2, <1>6, LeavesStreamed DEF IInv

(* The other steps of a connection, of which its client sees nothing. *)
LEMMA UnseenStep ==
  ASSUME IInv, NEW k \in Keyed, NEW s \in States \ Streams, stream' = [stream EXCEPT ![k] = s],
         UNCHANGED <<table, frames, cuts>>,
         count' \in Int, clearing' \subseteq Keyed, debt' \in Nat, leaked' \in Nat
  PROVE  TypeOK' /\ Streamed'
<1>1. stream' \in [Keyed -> States] /\ \A o \in Others : stream'[o] \notin Streams
  BY StreamTypes DEF IInv
<1>2. s.step \notin Serving
  BY DEF States, Off, Granted, Refused, Elsewhere, Serving
<1>3. TypeOK'
  BY <1>1 DEF IInv, TypeOK, table, States
<1>. QED BY <1>2, <1>3, UnseenStreamed DEF IInv

LEMMA NextIInv ==
  ASSUME IInv, [Next]_vars
  PROVE  IInv'
<1>1. Counted'
  BY CountedStep DEF IInv
<1>2. {Off, Granted, Refused, Elsewhere} \subseteq States \ Streams
  BY DEF States, Streams, Off, Granted, Refused, Elsewhere, Serving
<1>3. TypeOK' /\ Streamed'
  <2>1. CASE Write
    BY <2>1, WriterTypes, WriteStreamed DEF IInv
  <2>2. ASSUME NEW k \in Keyed, NEW granted \in {Granted, Elsewhere}, Ask(k, granted)
        PROVE  TypeOK' /\ Streamed'
    <3>1. count' \in Int /\ clearing' \subseteq Keyed /\ debt' \in Nat /\ leaked' \in Nat
      BY <2>2, SlotTypes
    <3>2. (IF SlotLeft THEN granted ELSE Refused) \in States \ Streams
      BY <1>2
    <3>. QED BY <2>2, <3>1, <3>2, UnseenStep DEF Ask
  <2>3. ASSUME NEW k \in Keyed, Refuse(k) PROVE TypeOK' /\ Streamed'
    <3>1. count' \in Int /\ clearing' \subseteq Keyed /\ debt' \in Nat /\ leaked' \in Nat
      BY <2>3, SlotTypes
    <3>. QED BY <1>2, <2>3, <3>1, UnseenStep DEF Refuse
  <2>4. ASSUME NEW o \in Others, Close(o) PROVE TypeOK' /\ Streamed'
    <3>1. o \in Keyed
      BY DEF Keyed
    <3>2. count' \in Int /\ clearing' \subseteq Keyed /\ debt' \in Nat /\ leaked' \in Nat
      BY <2>4, <3>1, SlotTypes DEF Close
    <3>. QED BY <1>2, <2>4, <3>1, <3>2, UnseenStep DEF Close
  <2>5. ASSUME UNCHANGED <<table, stream, frames>>, cuts' \in Nat,
               count' \in Int, clearing' \subseteq Keyed, debt' \in Nat, leaked' \in Nat
        PROVE  TypeOK' /\ Streamed'
    <3>1. TypeOK'
      BY <2>5 DEF IInv, TypeOK, table
    <3>2. Streamed'
      BY <2>5 DEF IInv, Streamed, Tracks, Whole, table
    <3>. QED BY <3>1, <3>2
  <2>6. ASSUME NEW k \in Keyed, Clear(k) PROVE TypeOK' /\ Streamed'
    <3>1. count' \in Int /\ clearing' \subseteq Keyed /\ debt' \in Nat /\ leaked' \in Nat
      BY <2>6, SlotTypes
    <3>2. UNCHANGED <<table, stream, frames, cuts>> /\ cuts \in Nat
      BY <2>6 DEF Clear, IInv, TypeOK
    <3>. QED BY <2>5, <3>1, <3>2
  <2>7. CASE Expire
    <3>1. UNCHANGED <<table, stream, frames, clearing, cuts>> /\ Forget
      BY <2>7 DEF Expire
    <3>2. Cardinality(Claims) \in Nat /\ clearing \subseteq Keyed /\ cuts \in Nat
      BY CountedFacts DEF IInv, TypeOK
    <3>. QED BY <2>5, <3>1, <3>2 DEF Forget
  <2>8. ASSUME NEW c \in Clients, Connect(c) \/ Serve(c) \/ Leave(c) PROVE TypeOK' /\ Streamed'
    BY <2>8, StreamStep
  <2>9. CASE Crash
    <3>1. stream' \in [Keyed -> States] /\ \A o \in Others : stream'[o] \notin Streams
      BY <1>2, <2>9 DEF Crash, IInv, TypeOK, States, Keyed
    <3>2. count' = count /\ debt' = debt /\ clearing' \subseteq clearing
      BY <2>9 DEF Crash
    <3>3. leaked' \in Nat
      <4>1. PICK dead : leaked' = leaked + Cardinality(Claims \cap dead)
        BY <2>9 DEF Crash
      <4>2. Cardinality(Claims \cap dead) \in Nat
        BY FS_Subset, FS_CardinalityType, CountedFacts DEF IInv
      <4>. QED BY <4>1, <4>2 DEF IInv, TypeOK
    <3>4. cuts' \in Nat /\ UNCHANGED <<table, frames>>
      BY <2>9 DEF Crash, IInv, TypeOK
    <3>5. TypeOK'
      BY <3>1, <3>2, <3>3, <3>4 DEF IInv, TypeOK, table, States
    <3>. QED BY <2>9, <3>5, CrashStreamed DEF IInv
  <2>10. CASE UNCHANGED vars
    BY <2>10 DEF vars, IInv, TypeOK, Streamed, Tracks, Whole
  <2>11. \A c \in Clients : c \in Keyed
    BY DEF Keyed
  <2>12. \A o \in Others : o \in Keyed
    BY DEF Keyed
  <2>. QED BY <2>1, <2>2, <2>3, <2>4, <2>6, <2>7, <2>8, <2>9, <2>10, <2>11, <2>12 DEF Next
<1>. QED BY <1>1, <1>3 DEF IInv

THEOREM Inductive == Spec => []IInv
  BY InitIInv, NextIInv, PTL DEF Spec

(* The sequence, the table and the streams are of their types; the counter is an *)
(* integer, of which the code does not keep that it is not below zero.           *)
THEOREM TypeCorrect == Spec => []TypeOK
<1>1. IInv => TypeOK
  BY DEF IInv
<1>. QED BY <1>1, Inductive, PTL

(* Whatever wake-ups are lost and connections cut, a client has the ids in       *)
(* order, each once, and between its first and its last every one that was not   *)
(* committed after a larger one (event_stream, _fetch_events_after).            *)
THEOREM ClientsMissNothing == Spec => []FramesFaithful
<1>1. IInv => FramesFaithful
  BY DEF IInv, Streamed, Whole, FramesFaithful
<1>. QED BY <1>1, Inductive, PTL

(* However INCR, DECR and SET of a key interleave, and wherever requests die, it  *)
(* has no more streams than its limit and those requests that held a slot when   *)
(* the counter last became 0 (acquire_stream_slot, release_stream_slot).        *)
THEOREM LimitHolds == Spec => []SlotsBounded
<1>1. IInv => SlotsBounded
  <2>. SUFFICES ASSUME IInv PROVE Cardinality(Open) <= MaxStreams + debt
    BY DEF SlotsBounded
  <2>1. Open \subseteq Holders
    BY DEF Open, Holders, Off, Refused, Serving
  <2>2. Cardinality(Open) <= Cardinality(Holders) /\ Cardinality(Open) \in Nat
    BY <2>1, FS_Subset, FS_CardinalityType, CountedFacts DEF IInv
  <2>. QED BY <2>2, CountedFacts DEF IInv, Counted
<1>. QED BY <1>1, Inductive, PTL

(* A key whose next attempt is refused has as many requests that hold a slot, or *)
(* died with one, as its limit (the DECR of a refused attempt).                 *)
THEOREM RefusalIsJustified == Spec => []RefusedForCause
<1>1. IInv => RefusedForCause
  BY CountedFacts DEF IInv, Counted, RefusedForCause, SlotLeft
<1>. QED BY <1>1, Inductive, PTL
================================================================================
