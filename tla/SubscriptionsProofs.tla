-------------------------- MODULE SubscriptionsProofs --------------------------
(******************************************************************************)
(* For any number of concurrent webhooks, grants and resyncs and any number   *)
(* of events: type correctness, the sweeper's look at the row holds until it  *)
(* has taken the sites down, and the paid level is never taken away.          *)
(******************************************************************************)
EXTENDS Subscriptions, TLAPS

(* The row a save produces is again a row, and keeps the paid level.          *)
SafeSet(set) ==
  /\ DOMAIN set \subseteq {"status", "level", "due", "fresh"}
  /\ "status" \in DOMAIN set => set["status"] \in Statuses
  /\ "level" \in DOMAIN set => set["level"] = "pro"
  /\ "due" \in DOMAIN set => set["due"] \in Deadlines
  /\ "fresh" \in DOMAIN set => set["fresh"] \in BOOLEAN

(* Every webhook type and every grant assigns values of the columns.          *)
LEMMA AssignedSafe ==
  ASSUME NEW type, NEW set \in Assigned(type),
         type \in ActiveEvents \cup InactiveEvents \cup NeutralEvents \cup {"grant"}
  PROVE  SafeSet(set)
<1>1. CASE type \in {"paid", "grant"}
  <2>1. set = Active BY <1>1 DEF Assigned
  <2> QED BY <2>1 DEF Active, SafeSet, Statuses, Deadlines
<1>2. CASE type = "in_grace"
  <2>1. set = [Active EXCEPT !.status = "grace"] BY <1>2 DEF Assigned
  <2> QED BY <2>1 DEF Active, SafeSet, Statuses, Deadlines
<1>3. CASE type = "ended"
  <2>1. PICK d \in {"running", "past"} : set = [status |-> "grace", due |-> d, fresh |-> TRUE]
    BY <1>3 DEF Assigned
  <2> QED BY <2>1 DEF SafeSet, Statuses, Deadlines
<1>4. CASE type = "billing_issue"
  <2>1. set = [status |-> "billing_issue", due |-> "none", fresh |-> TRUE]
    BY <1>4 DEF Assigned
  <2> QED BY <2>1 DEF SafeSet, Statuses, Deadlines
<1>5. CASE type = "cancelled"
  <2>1. set = [fresh |-> TRUE] BY <1>5 DEF Assigned
  <2> QED BY <2>1 DEF SafeSet
<1>6. CASE type \in {"inactive", "ignored"}
  <2>1. set = <<>> BY <1>6 DEF Assigned
  <2> QED BY <2>1 DEF SafeSet
<1> QED BY <1>1, <1>2, <1>3, <1>4, <1>5, <1>6 DEF ActiveEvents, InactiveEvents, NeutralEvents

(* So does a resync.                                                          *)
LEMMA ResyncedSafe ==
  ASSUME NEW snap, NEW answer
  PROVE  SafeSet(Resynced(snap, answer))
<1>1. CASE answer = "active"
  BY <1>1 DEF Resynced, Active, SafeSet, Statuses, Deadlines
<1>2. CASE answer = "inactive" /\ snap.status \in {"active", "expired"}
  BY <1>2 DEF Resynced, SafeSet, Statuses
<1>3. CASE ~(answer = "active") /\ ~(answer = "inactive" /\ snap.status \in {"active", "expired"})
  BY <1>3 DEF Resynced, SafeSet
<1> QED BY <1>1, <1>2, <1>3

(* A save of such columns on a row, read or inserted.                         *)
LEMMA SavedRow ==
  ASSUME row \in Rows, NEW set, SafeSet(set), NEW snap \in Rows, ~InsertClash(snap)
  PROVE  /\ Saved(set, snap) \in Rows
         /\ row.here /\ row.level = "pro" => Saved(set, snap).level = "pro"
<1>1. DOMAIN row = {"here", "status", "level", "due", "fresh"}
  BY DEF Rows
<1>2. CASE snap.here
  <2>1. Saved(set, snap) = [here |-> row.here,
          status |-> IF Written(set, snap, "status") THEN set["status"] ELSE row.status,
          level |-> IF Written(set, snap, "level") THEN set["level"] ELSE row.level,
          due |-> IF Written(set, snap, "due") THEN set["due"] ELSE row.due,
          fresh |-> IF Written(set, snap, "fresh") THEN set["fresh"] ELSE row.fresh]
    BY <1>1, <1>2 DEF Saved, Written, SafeSet
  <2> QED BY <2>1 DEF Rows, SafeSet, Written
<1>3. CASE ~snap.here
  <2>1. ~row.here BY <1>3 DEF InsertClash, Rows
  <2>2. Saved(set, snap) = [here |-> TRUE,
          status |-> IF "status" \in DOMAIN set THEN set["status"] ELSE "active",
          level |-> IF "level" \in DOMAIN set THEN set["level"] ELSE "free",
          due |-> IF "due" \in DOMAIN set THEN set["due"] ELSE "none",
          fresh |-> IF "fresh" \in DOMAIN set THEN set["fresh"] ELSE TRUE]
    BY <1>1, <1>3 DEF Saved, NoRow
  <2>3. /\ (IF "status" \in DOMAIN set THEN set["status"] ELSE "active") \in Statuses
        /\ (IF "level" \in DOMAIN set THEN set["level"] ELSE "free") \in {"free", "pro"}
        /\ (IF "due" \in DOMAIN set THEN set["due"] ELSE "none") \in Deadlines
        /\ (IF "fresh" \in DOMAIN set THEN set["fresh"] ELSE TRUE) \in BOOLEAN
    BY DEF SafeSet, Statuses, Deadlines
  <2>4. PICK st \in Statuses, l \in {"free", "pro"}, d \in Deadlines, fr \in BOOLEAN :
          Saved(set, snap) = [here |-> TRUE, status |-> st, level |-> l, due |-> d, fresh |-> fr]
    BY <2>2, <2>3
  <2>5. Saved(set, snap) \in Rows BY <2>4 DEF Rows
  <2> QED BY <2>1, <2>5
<1> QED BY <1>2, <1>3 DEF Rows

--------------------------------------------------------------------------------
(* What a step does to the row: nothing, a save by a writer that found it     *)
(* unlocked, time passing, or the end of a sweep.                             *)
Touched ==
  \/ row' = row
  \/ /\ Unlocked /\ row' \in Rows
     /\ row.here /\ row.level = "pro" => row'.level = "pro"
  \/ row' = [row EXCEPT !.fresh = FALSE]
  \/ row.due = "running" /\ row' = [row EXCEPT !.due = "past"]
  \/ sweep = "torn" /\ sweep' = "idle" /\ row' = [row EXCEPT !.status = "expired", !.due = "none"]

(* A resync has read a row that exists: it never inserts.                     *)
ReadBefore == \A a \in Resyncs : resync[a].pc # "idle" => resync[a].snap.here

(* The types and the effect on the row, of every action.                      *)
LEMMA StepTyped ==
  ASSUME TypeOK, ReadBefore, Next
  PROVE  TypeOK' /\ Touched
<1> USE SubscriptionsAssumption
<1> Idle \in [pc : {"idle", "loaded"}, event : Events \cup {Idle.event}, snap : Rows]
  BY DEF Idle, NoRow, Rows, Statuses, Deadlines
<1> Resting \in [pc : {"idle", "asking", "answered"}, snap : Rows, profile : Profiles]
  BY DEF Resting, NoRow, Rows, Statuses, Deadlines, Profiles
<1> row \in Rows /\ Read \in Rows
  BY DEF TypeOK, Read, Rows, Deadlines
<1>1. CASE Provider
  <2>1. PICK type \in ActiveEvents \cup InactiveEvents \cup NeutralEvents :
          Send(type) /\ profile' \in Profiles
    BY <1>1 DEF Provider, TypeOK, Profiles
  <2>2. [id |-> sent + 1, type |-> type] \in Events /\ sent' \in 0..MaxEvents
    BY <2>1 DEF Send, TypeOK, Events
  <2>3. mail' \subseteq Events BY <2>1, <2>2 DEF Send, TypeOK
  <2> QED BY <2>1, <2>2, <2>3 DEF Send, TypeOK, Touched
<1>2. CASE Drop
  BY <1>2 DEF Drop, TypeOK, Touched
<1>3. ASSUME NEW h \in Handlers, Webhook(h) PROVE TypeOK' /\ Touched
  <2> handler[h] \in [pc : {"idle", "loaded"}, event : Events \cup {Idle.event}, snap : Rows]
    BY DEF TypeOK
  <2>1. CASE Receive(h)
    <3>1. PICK m \in mail :
            handler' = [handler EXCEPT ![h] = [pc |-> "loaded", event |-> m, snap |-> Read]]
      BY <2>1 DEF Receive
    <3>2. m \in Events BY DEF TypeOK
    <3> QED BY <2>1, <3>1, <3>2 DEF Receive, TypeOK, Touched
  <2>2. CASE Apply(h)
    <3>1. handler[h].event \in Events
      BY <2>2 DEF Apply, Idle
    <3>2. ledger' \subseteq 1..MaxEvents /\ mail' \subseteq Events
      BY <2>2, <3>1 DEF Apply, TypeOK, Events
    <3>3. row' \in Rows /\ Touched
      <4>1. CASE row' = row BY <4>1 DEF Touched
      <4>2. CASE row' # row
        <5>1. /\ ~InsertClash(handler[h].snap) /\ Unlocked
              /\ \E set \in Assigned(handler[h].event.type) : row' = Saved(set, handler[h].snap)
          BY <2>2, <4>2 DEF Apply
        <5>2. handler[h].event.type \in ActiveEvents \cup InactiveEvents \cup NeutralEvents
          BY <3>1 DEF Events
        <5> QED BY <5>1, <5>2, AssignedSafe, SavedRow DEF Touched
      <4> QED BY <4>1, <4>2
    <3>4. handler' \in [Handlers -> [pc : {"idle", "loaded"},
                                     event : Events \cup {Idle.event}, snap : Rows]]
      BY <2>2 DEF Apply, TypeOK
    <3> QED BY <2>2, <3>2, <3>3, <3>4 DEF Apply, TypeOK
  <2>3. CASE StartGrant(h)
    <3>1. [Idle EXCEPT !.pc = "loaded", !.snap = Read]
            \in [pc : {"idle", "loaded"}, event : Events \cup {Idle.event}, snap : Rows]
      BY DEF Idle
    <3> QED BY <2>3, <3>1 DEF StartGrant, TypeOK, Touched
  <2>4. CASE Grant(h)
    <3>1. row' \in Rows /\ Touched
      <4>1. CASE row' = row BY <4>1 DEF Touched
      <4>2. CASE row' # row
        <5>1. /\ ~InsertClash(handler[h].snap) /\ Unlocked
              /\ \E set \in Assigned("grant") : row' = Saved(set, handler[h].snap)
          BY <2>4, <4>2 DEF Grant
        <5> QED BY <5>1, AssignedSafe, SavedRow DEF Touched
      <4> QED BY <4>1, <4>2
    <3> QED BY <2>4, <3>1 DEF Grant, TypeOK
  <2>5. CASE Abort(h)
    BY <2>5 DEF Abort, TypeOK, Touched
  <2> QED BY <1>3, <2>1, <2>2, <2>3, <2>4, <2>5 DEF Webhook
<1>4. ASSUME NEW a \in Resyncs, Resync(a) PROVE TypeOK' /\ Touched
  <2> resync[a] \in [pc : {"idle", "asking", "answered"}, snap : Rows, profile : Profiles]
    BY DEF TypeOK
  <2>1. CASE ResyncLoad(a)
    BY <2>1 DEF ResyncLoad, TypeOK, Touched
  <2>2. CASE Answer(a)
    BY <2>2 DEF Answer, TypeOK, Touched
  <2>3. CASE ResyncSave(a)
    <3>1. row' \in Rows /\ Touched
      <4>1. CASE row' = row BY <4>1 DEF Touched
      <4>2. CASE row' # row
        <5>1. Unlocked /\ row' = Saved(Resynced(resync[a].snap, resync[a].profile), resync[a].snap)
          BY <2>3, <4>2 DEF ResyncSave
        <5>2. ~InsertClash(resync[a].snap)
          BY <2>3 DEF ResyncSave, ReadBefore, InsertClash
        <5> QED BY <5>1, <5>2, ResyncedSafe, SavedRow DEF Touched
      <4> QED BY <4>1, <4>2
    <3> QED BY <2>3, <3>1 DEF ResyncSave, Rest, TypeOK
  <2>4. CASE NoAnswer(a)
    BY <2>4 DEF NoAnswer, Rest, TypeOK, Touched
  <2> QED BY <1>4, <2>1, <2>2, <2>3, <2>4 DEF Resync
<1>5. CASE Sweep
  <2>1. CASE SweepExpire
    <3>1. row' \in Rows BY <2>1 DEF SweepExpire, Rows, Statuses, Deadlines
    <3> QED BY <2>1, <3>1 DEF SweepExpire, TypeOK, Touched
  <2>2. CASE SweepLock \/ SweepTeardown \/ SweepCrash
    BY <2>2 DEF SweepLock, SweepTeardown, SweepCrash, TypeOK, Touched
  <2> QED BY <1>5, <2>1, <2>2 DEF Sweep
<1>6. CASE Age \/ GraceEnds
  <2>1. row' \in Rows BY <1>6 DEF Age, GraceEnds, Rows, Deadlines
  <2> QED BY <1>6, <2>1 DEF Age, GraceEnds, TypeOK, Touched
<1> QED BY <1>1, <1>2, <1>3, <1>4, <1>5, <1>6 DEF Next

--------------------------------------------------------------------------------
(* While the sweeper works the row is in a grace that is over.                *)
Held == sweep # "idle" => row.here /\ row.status = "grace" /\ row.due = "past"

IInv == TypeOK /\ ReadBefore /\ Held

LEMMA InitInv == Init => IInv
<1> SUFFICES ASSUME Init PROVE IInv
  OBVIOUS
<1>1. NoRow \in Rows BY DEF NoRow, Rows, Statuses, Deadlines
<1>2. Idle \in [pc : {"idle", "loaded"}, event : Events \cup {Idle.event}, snap : Rows]
  BY <1>1 DEF Idle
<1>3. Resting \in [pc : {"idle", "asking", "answered"}, snap : Rows, profile : Profiles]
  BY <1>1 DEF Resting, Profiles
<1>4. TypeOK
  BY <1>1, <1>2, <1>3, SubscriptionsAssumption DEF Init, TypeOK, Profiles
<1>5. ReadBefore /\ Held
  BY DEF Init, ReadBefore, Held, Resting
<1> QED BY <1>4, <1>5 DEF IInv

(* A resync starts from a row that is there and goes on with what it has read. *)
LEMMA ReadStep ==
  ASSUME TypeOK, ReadBefore, Next
  PROVE  ReadBefore'
<1> Read.here = row.here BY DEF Read, TypeOK, Rows
<1>1. CASE UNCHANGED resync BY <1>1 DEF ReadBefore
<1>2. ASSUME NEW a \in Resyncs, Resync(a) PROVE ReadBefore'
  <2> resync[a] \in [pc : {"idle", "asking", "answered"}, snap : Rows, profile : Profiles]
    BY DEF TypeOK
  <2>1. CASE ResyncLoad(a)
    BY <2>1 DEF ResyncLoad, ReadBefore, TypeOK
  <2>2. CASE Answer(a)
    BY <2>2 DEF Answer, ReadBefore, TypeOK
  <2>3. CASE ResyncSave(a) \/ NoAnswer(a)
    BY <2>3 DEF ResyncSave, NoAnswer, Rest, Resting, ReadBefore, TypeOK
  <2> QED BY <1>2, <2>1, <2>2, <2>3 DEF Resync
<1> QED BY <1>1, <1>2 DEF Next, Provider, Send, Drop, Webhook, Receive, Apply, StartGrant,
           Grant, Abort, Sweep, SweepLock, SweepTeardown, SweepExpire, SweepCrash, Age, GraceEnds

(* The lock stands between the sweeper's look and its teardowns.              *)
LEMMA HeldStep ==
  ASSUME TypeOK, Held, Touched, Next
  PROVE  Held'
<1>1. CASE sweep = "idle"
  <2>1. sweep' = "idle" \/ SweepLock
    BY <1>1 DEF Next, Provider, Send, Drop, Webhook, Receive, Apply, StartGrant, Grant, Abort,
                Resync, ResyncLoad, Answer, ResyncSave, NoAnswer, Sweep, SweepTeardown,
                SweepExpire, SweepCrash, Age, GraceEnds
  <2> QED BY <2>1 DEF SweepLock, Held
<1>2. CASE sweep # "idle"
  BY <1>2 DEF Held, Touched, Unlocked, TypeOK, Rows
<1> QED BY <1>1, <1>2

LEMMA Inductive == IInv /\ [Next]_vars => IInv'
<1> SUFFICES ASSUME IInv, [Next]_vars PROVE IInv'
  OBVIOUS
<1>1. CASE UNCHANGED vars
  BY <1>1 DEF IInv, TypeOK, ReadBefore, Held, vars
<1>2. CASE Next
  BY <1>2, StepTyped, ReadStep, HeldStep DEF IInv
<1> QED BY <1>1, <1>2

(* Type correctness for every number of handlers, resyncs and events.         *)
THEOREM TypeCorrect == Spec => []TypeOK
<1>1. IInv => TypeOK BY DEF IInv
<1> QED BY <1>1, InitInv, Inductive, PTL DEF Spec

(* The sweeper takes sites down only of a user whose grace is over at that    *)
(* moment, whoever renews, grants or resyncs at the same time.                *)
THEOREM SweeperIsRight == Spec => TornDownAfterGrace
<1>1. IInv /\ [Next]_vars =>
        [sweep # "torn" /\ sweep' = "torn" =>
           row.here /\ row.status = "grace" /\ row.due = "past"]_vars
  <2> SUFFICES ASSUME IInv, Next, sweep # "torn", sweep' = "torn"
               PROVE  row.here /\ row.status = "grace" /\ row.due = "past"
    BY DEF vars
  <2>1. SweepTeardown
    BY DEF Next, Provider, Send, Drop, Webhook, Receive, Apply, StartGrant, Grant, Abort, Resync,
           ResyncLoad, Answer, ResyncSave, NoAnswer, Sweep, SweepLock, SweepExpire, SweepCrash,
           Age, GraceEnds
  <2> QED BY <2>1 DEF SweepTeardown, IInv, Held
<1> QED BY <1>1, InitInv, Inductive, PTL DEF Spec, TornDownAfterGrace

(* No webhook, grant, resync or sweep takes the paid level from a row.        *)
THEOREM PaidLevelStays == Spec => LevelKept
<1>1. IInv /\ [Next]_vars => [row.here /\ row.level = "pro" => row'.level = "pro"]_vars
  <2> SUFFICES ASSUME IInv, Next, row.here, row.level = "pro" PROVE row'.level = "pro"
    BY DEF vars
  <2>1. Touched BY StepTyped DEF IInv
  <2> QED BY <2>1 DEF Touched, IInv, TypeOK, Rows
<1> QED BY <1>1, InitInv, Inductive, PTL DEF Spec, LevelKept
================================================================================
