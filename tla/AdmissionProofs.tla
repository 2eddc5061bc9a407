---------------------------- MODULE AdmissionProofs ----------------------------
(* Proofs about Admission: how far requests that race through the gate can     *)
(* exceed the cap, the number of free retries, and what the user has paid for. *)
EXTENDS Admission, FiniteSetTheorems, TLAPS

USE AdmissionAssumption

(* Every job belongs to a project, and so does every retry on its way; who only  *)
(* entered asks for no retry.                                                  *)
Placed ==
  /\ \A j \in Born : job[j].project \in Jobs
  /\ \A r \in InFlight : request[r].parent # None => request[r].project \in Jobs
  /\ \A r \in Requests : request[r].step = "entered" => request[r].parent = None

IInv == TypeOK /\ Placed /\ SlotsBounded /\ RetriesBounded

--------------------------------------------------------------------------------
(* Types                                                                       *)

LEMMA AskTypes ==
  ASSUME TypeOK, NEW r \in Requests, NEW q \in Asks, request' = [request EXCEPT ![r] = q],
         UNCHANGED <<job, deleted, counters>>
  PROVE  TypeOK'
  BY DEF TypeOK, counters

LEMMA IdleIsAsk == Idle \in Asks
  BY DEF Asks

LEMMA RowTypes ==
  ASSUME TypeOK, NEW j \in Jobs, NEW row \in Rows, job' = [job EXCEPT ![j] = row],
         deleted' = deleted, {used', edits', bonus', refills'} \subseteq Nat,
         request' \in [Requests -> Asks]
  PROVE  TypeOK'
  BY DEF TypeOK

LEMMA NewRowTypes ==
  ASSUME TypeOK, NEW j \in Jobs, NEW q \in Asks, q.step = "passed"
  PROVE  NewRow(q, j) \in Rows
<1>1. q \in [step : Steps, kind : {"generation", "edit"}, key : Keys \cup {None},
             project : Jobs \cup {None}, parent : Jobs \cup {None}, balance : Nat]
  BY DEF Asks, Idle
<1>2. q.parent # None => job[q.parent].answered \in BOOLEAN
  BY <1>1 DEF TypeOK, Rows
<1>3. (q.parent # None /\ job[q.parent].answered) \in BOOLEAN
  OBVIOUS
<1>. QED BY <1>1, <1>2, <1>3 DEF NewRow, Rows, Kinds, Running, Paused

LEMMA UnbornIsRow == Unborn \in Rows
  BY DEF Unborn, Rows, Kinds, Running, Paused

LEMMA HandleTypes ==
  ASSUME TypeOK, NEW r \in Requests, Handle(r)
  PROVE  TypeOK'
<1>0. ASSUME Enter(r) PROVE TypeOK'
  <2>1. [Asked("entered", "generation", None, None, None) EXCEPT !.balance = bonus] \in Asks
    BY DEF Asked, Asks, Steps, TypeOK
  <2>. QED BY <1>0, <2>1, AskTypes DEF Enter
<1>1. ASSUME NEW k \in Keys, AskCreate(r, k) PROVE TypeOK'
  <2>1. request[r] \in Asks /\ request[r].step = "entered"
    BY <1>1 DEF TypeOK, AskCreate
  <2>3. request[r] \in [step : Steps, kind : {"generation", "edit"}, key : Keys \cup {None},
                        project : Jobs \cup {None}, parent : Jobs \cup {None}, balance : Nat]
    BY <2>1 DEF Asks, Idle
  <2>2. [request[r] EXCEPT !.step = "counted", !.key = k] \in Asks
    BY <2>3 DEF Asks, Steps
  <2>. QED BY <1>1, <2>2, AskTypes DEF AskCreate
<1>2. ASSUME NEW k \in Keys, NEW p \in Jobs, AskEdit(r, k, p) PROVE TypeOK'
  <2>1. Asked("counted", "edit", k, p, None) \in Asks
    BY DEF Asked, Asks, Steps
  <2>. QED BY <1>2, <2>1, AskTypes DEF AskEdit
<1>3. ASSUME NEW j \in Jobs, AskRetry(r, j) PROVE TypeOK'
  <2>1. job[j].project \in Jobs \cup {None}
    BY DEF TypeOK, Rows
  <2>2. Asked("passed", "generation", None, job[j].project, j) \in Asks
    BY <2>1 DEF Asked, Asks, Steps
  <2>. QED BY <1>3, <2>2, AskTypes DEF AskRetry
<1>4. ASSUME NEW j \in Jobs, Insert(r, j) PROVE TypeOK'
  <2>1. request[r] \in Asks
    BY DEF TypeOK
  <2>2. NewRow(request[r], j) \in Rows
    BY <1>4, <2>1, NewRowTypes DEF Insert
  <2>3. request' \in [Requests -> Asks]
    BY <1>4, IdleIsAsk DEF Insert, TypeOK
  <2>4. {used', edits', bonus', refills'} \subseteq Nat
    BY <1>4 DEF Insert, counters, TypeOK
  <2>. QED BY <1>4, <2>2, <2>3, <2>4, RowTypes DEF Insert
<1>5. ASSUME Weigh(r) PROVE TypeOK'
  <2>1. request[r] \in Asks /\ request[r].step = "counted"
    BY <1>5 DEF TypeOK, Weigh
  <2>3. request[r] \in [step : Steps, kind : {"generation", "edit"}, key : Keys \cup {None},
                        project : Jobs \cup {None}, parent : Jobs \cup {None}, balance : Nat]
    BY <2>1 DEF Asks, Idle
  <2>2. [request[r] EXCEPT !.step = "passed", !.balance = 0] \in Asks
    BY <2>3 DEF Asks, Steps
  <2>. QED BY <1>5, <2>2, IdleIsAsk, AskTypes DEF Weigh
<1>6. ASSUME Clash(r) \/ Abort(r) PROVE TypeOK'
  BY <1>6, IdleIsAsk, AskTypes DEF Clash, Abort
<1>. QED BY <1>0, <1>1, <1>2, <1>3, <1>4, <1>5, <1>6 DEF Handle

LEMMA ChargeTypes ==
  ASSUME TypeOK, NEW j \in Jobs, Charge(j)
  PROVE  {used', edits', bonus', refills'} \subseteq Nat
<1>. USE DEF TypeOK
<1>1. CASE /\ job[j].kind = "edit"
           /\ edits' = edits + 1
           /\ UNCHANGED <<used, bonus, refills>>
  BY <1>1
<1>2. CASE /\ job[j].saw = "none" /\ bonus >= Cost
           /\ bonus' = bonus - Cost
           /\ UNCHANGED <<used, edits, refills>>
  BY <1>2
<1>3. CASE /\ job[j].saw = "room" \/ (job[j].saw = "none" /\ bonus < Cost)
           /\ used' = used + 1
           /\ UNCHANGED <<edits, bonus, refills>>
  BY <1>3
<1>. QED BY <1>1, <1>2, <1>3 DEF Charge

LEMMA JobTypes ==
  ASSUME TypeOK, NEW j \in Jobs, Look(j) \/ Start(j) \/ Park(j) \/ Resume(j) \/ Fail(j) \/ GoLive(j)
  PROVE  TypeOK'
<1>1. job' \in [Jobs -> Rows]
  <2>1. CASE Look(j)
    <3>1. PICK s : s = IF used < Monthly THEN "room" ELSE "none"
      OBVIOUS
    <3>2. PICK row : row = [job[j] EXCEPT !.saw = s]
      OBVIOUS
    <3>3. s \in {"nothing", "room", "none"} /\ job[j] \in Rows
      BY <3>1 DEF TypeOK
    <3>4. row \in Rows
      BY <3>2, <3>3 DEF Rows
    <3>5. job' = [job EXCEPT ![j] = row]
      BY <2>1, <3>1, <3>2 DEF Look
    <3>. QED BY <3>4, <3>5 DEF TypeOK
  <2>2. CASE Start(j)
    <3>1. job[j] \in Rows
      BY DEF TypeOK
    <3>2. PICK row : row = [job[j] EXCEPT !.state = "active", !.counted = TRUE, !.saw = "nothing"]
      OBVIOUS
    <3>3. row \in Rows
      BY <3>1, <3>2 DEF Rows, Running
    <3>4. job' = [job EXCEPT ![j] = row]
      BY <2>2, <3>1, <3>2 DEF Start, TypeOK, Rows
    <3>. QED BY <3>3, <3>4 DEF TypeOK
  <2>3. CASE Park(j) \/ Resume(j) \/ Fail(j) \/ GoLive(j)
    BY <2>3 DEF Park, Resume, Fail, GoLive, TypeOK, Rows, Running, Paused
  <2>. QED BY <2>1, <2>2, <2>3
<1>2. {used', edits', bonus', refills'} \subseteq Nat
  <2>1. CASE UNCHANGED counters
    BY <2>1 DEF counters, TypeOK
  <2>2. CASE Start(j) /\ Charge(j)
    BY <2>2, ChargeTypes
  <2>. QED BY <2>1, <2>2 DEF Look, Start, Park, Resume, Fail, GoLive
<1>3. deleted' = deleted /\ request' = request
  BY DEF Look, Start, Park, Resume, Fail, GoLive
<1>. QED BY <1>1, <1>2, <1>3 DEF TypeOK

LEMMA TypesKept == TypeOK /\ [Next]_vars => TypeOK'
<1> SUFFICES ASSUME TypeOK, [Next]_vars PROVE TypeOK'
  OBVIOUS
<1>1. ASSUME NEW p \in Jobs, NEW j \in Jobs, Rollback(p, j) PROVE TypeOK'
  <2>1. [Unborn EXCEPT !.state = "created", !.kind = "rollback", !.project = p] \in Rows
    BY DEF Unborn, Rows, Kinds, Running, Paused
  <2>2. {used', edits', bonus', refills'} \subseteq Nat /\ request' \in [Requests -> Asks]
    BY <1>1 DEF Rollback, counters, TypeOK
  <2>. QED BY <1>1, <2>1, <2>2, RowTypes DEF Rollback
<1>2. ASSUME NEW p \in Jobs, Delete(p) PROVE TypeOK'
  BY <1>2 DEF Delete, TypeOK, counters
<1>6. ASSUME NEW p \in Jobs, Purge(p) PROVE TypeOK'
  BY <1>6, UnbornIsRow DEF Purge, TypeOK, counters
<1>3. ASSUME NEW n \in 0 .. MaxBonus, Refill(n) \/ Correct(n) PROVE TypeOK'
  BY <1>3 DEF Refill, Correct, TypeOK
<1>4. CASE NewMonth
  BY <1>4 DEF NewMonth, TypeOK
<1>5. CASE UNCHANGED vars
  BY <1>5 DEF vars, counters, TypeOK
<1>. QED BY <1>1, <1>2, <1>3, <1>4, <1>5, <1>6, HandleTypes, JobTypes DEF Next

--------------------------------------------------------------------------------
(* Counting                                                                    *)

LEMMA Bounded ==
  ASSUME NEW big, NEW small \in SUBSET big, IsFiniteSet(big)
  PROVE  /\ IsFiniteSet(small)
         /\ Cardinality(small) \in Nat /\ Cardinality(big) \in Nat
         /\ Cardinality(small) <= Cardinality(big)
  BY FS_Subset, FS_CardinalityType

(* What the step takes from one set it may add to the other. *)
LEMMA Moved ==
  ASSUME NEW from, NEW to, NEW left \in SUBSET from, NEW x, NEW r \in from, r \notin left,
         NEW now \in SUBSET (to \cup {x}), IsFiniteSet(from), IsFiniteSet(to)
  PROVE  /\ Cardinality(now) + Cardinality(left) <= Cardinality(to) + Cardinality(from)
         /\ Cardinality(now) \in Nat /\ Cardinality(left) \in Nat
<1>1. Cardinality(from) = Cardinality(from \ {r}) + 1
  <2>1. Cardinality(from \ {r}) = Cardinality(from) - 1 /\ Cardinality(from) \in Nat
    BY FS_RemoveElement, FS_CardinalityType
  <2>. QED BY <2>1
<1>2. left \subseteq from \ {r} /\ IsFiniteSet(from \ {r})
  BY FS_Subset
<1>3. Cardinality(left) <= Cardinality(from \ {r}) /\ Cardinality(left) \in Nat
      /\ Cardinality(from \ {r}) \in Nat
  BY <1>2, Bounded
<1>4. IsFiniteSet(to \cup {x}) /\ Cardinality(to \cup {x}) <= Cardinality(to) + 1
      /\ Cardinality(to) \in Nat /\ Cardinality(to \cup {x}) \in Nat
  <2>1. IsFiniteSet(to \cup {x}) /\ (Cardinality(to \cup {x}) = Cardinality(to)
          \/ Cardinality(to \cup {x}) = Cardinality(to) + 1)
    BY FS_AddElement
  <2>. QED BY <2>1, FS_CardinalityType
<1>5. Cardinality(now) <= Cardinality(to \cup {x}) /\ Cardinality(now) \in Nat
  BY <1>4, Bounded
<1>. QED BY <1>1, <1>3, <1>4, <1>5

LEMMA Finite ==
  /\ IsFiniteSet(Holders) /\ IsFiniteSet(InFlight)
  /\ \A p : IsFiniteSet(Retries(p)) /\ IsFiniteSet(Retrying(p))
  /\ Cardinality(Requests) \in Nat
<1>1. Holders \subseteq Jobs /\ InFlight \subseteq Requests
  BY DEF Holders, Active, InFlight
<1>2. \A p : Retries(p) \subseteq Jobs /\ Retrying(p) \subseteq Requests
  BY DEF Retries, Born, Retrying, InFlight
<1>. QED BY <1>1, <1>2, FS_Subset, FS_CardinalityType

(* A step that lets nobody in. *)
LEMMA CalmStep ==
  ASSUME SlotsBounded, RetriesBounded,
         Holders' \subseteq Holders, InFlight' \subseteq InFlight,
         \A p \in Jobs : Retries(p)' \subseteq Retries(p) /\ Retrying(p)' \subseteq Retrying(p)
  PROVE  SlotsBounded' /\ RetriesBounded'
<1>1. SlotsBounded'
  BY Finite, Bounded DEF SlotsBounded, Slack
<1>2. RetriesBounded'
  <2> SUFFICES ASSUME NEW p \in Jobs
               PROVE  Cardinality(Retries(p)') + Cardinality(Retrying(p)')
                        < MaxRetries + Cardinality(Requests)
    BY DEF RetriesBounded
  <2>1. /\ Cardinality(Retries(p)') <= Cardinality(Retries(p))
        /\ Cardinality(Retrying(p)') <= Cardinality(Retrying(p))
        /\ Cardinality(Retries(p)') \in Nat /\ Cardinality(Retrying(p)') \in Nat
        /\ Cardinality(Retries(p)) \in Nat /\ Cardinality(Retrying(p)) \in Nat
    BY Finite, Bounded
  <2>2. Cardinality(Retries(p)) + Cardinality(Retrying(p)) < MaxRetries + Cardinality(Requests)
    BY DEF RetriesBounded
  <2>. QED BY <2>1, <2>2, Finite
<1>. QED BY <1>1, <1>2

(* The request that finds a slot is one of the Requests; the slots it found are  *)
(* less than the cap.                                                          *)
LEMMA AskStep ==
  ASSUME TypeOK, SlotsBounded, RetriesBounded, NEW r \in Requests, NEW q,
         Cardinality(Active) < Cap, job' = job,
         request' = [request EXCEPT ![r] = q],
         q.parent = None \/ Cardinality(Retries(q.project)) < MaxRetries
  PROVE  SlotsBounded' /\ RetriesBounded'
<1>1. Cardinality(Holders) < Cap /\ Cardinality(Holders) \in Nat
  <2>1. Holders \subseteq Active /\ Active \subseteq Jobs
    BY DEF Holders, Active
  <2>2. IsFiniteSet(Active)
    BY <2>1, FS_Subset
  <2>. QED BY <2>1, <2>2, Bounded
<1>2. Holders' = Holders /\ InFlight' \subseteq Requests
  BY DEF Holders, Active, InFlight
<1>3. Cardinality(InFlight') \in Nat /\ Cardinality(InFlight') <= Cardinality(Requests)
  BY <1>2, Bounded
<1>4. SlotsBounded'
  BY <1>1, <1>2, <1>3, Finite DEF SlotsBounded, Slack
<1>5. ASSUME NEW p \in Jobs
      PROVE  Cardinality(Retries(p)') + Cardinality(Retrying(p)')
               < MaxRetries + Cardinality(Requests)
  <2>1. Retries(p)' = Retries(p)
    BY DEF Retries, Born
  <2>2. CASE q.parent # None /\ q.project = p
    <3>1. Retrying(p)' \subseteq Requests
      BY DEF Retrying, InFlight
    <3>2. Cardinality(Retrying(p)') \in Nat /\ Cardinality(Retrying(p)') <= Cardinality(Requests)
      BY <3>1, Bounded
    <3>3. Cardinality(Retries(p)) < MaxRetries /\ Cardinality(Retries(p)) \in Nat
      BY <2>2, Finite, FS_CardinalityType
    <3>. QED BY <2>1, <3>2, <3>3, Finite
  <2>3. CASE ~(q.parent # None /\ q.project = p)
    <3>1. Retrying(p)' \subseteq Retrying(p)
      BY <2>3 DEF Retrying, InFlight, TypeOK
    <3>2. /\ Cardinality(Retrying(p)') <= Cardinality(Retrying(p))
          /\ Cardinality(Retries(p)) \in Nat /\ Cardinality(Retrying(p)') \in Nat
          /\ Cardinality(Retrying(p)) \in Nat
      BY <3>1, Finite, Bounded
    <3>3. Cardinality(Retries(p)) + Cardinality(Retrying(p)) < MaxRetries + Cardinality(Requests)
      BY DEF RetriesBounded
    <3>. QED BY <2>1, <3>2, <3>3, Finite
  <2>. QED BY <2>2, <2>3
<1>6. RetriesBounded'
  BY <1>5 DEF RetriesBounded
<1>. QED BY <1>4, <1>6

(* The request hands over to its job. *)
LEMMA InsertStep ==
  ASSUME IInv, NEW r \in Requests, NEW j \in Jobs, Insert(r, j)
  PROVE  SlotsBounded' /\ RetriesBounded'
<1>0. PICK row : row = NewRow(request[r], j)
  OBVIOUS
<1>1. /\ job' = [job EXCEPT ![j] = row] /\ request' = [request EXCEPT ![r] = Idle]
      /\ request[r].step = "passed" /\ request[r] # Idle
      /\ job \in [Jobs -> Rows] /\ request \in [Requests -> Asks]
  BY <1>0 DEF Insert, IInv, TypeOK, Idle
<1>2. InFlight' \subseteq InFlight /\ r \in InFlight /\ r \notin InFlight'
  BY <1>1 DEF InFlight, Idle
<1>3. Holders' \subseteq Holders \cup {j}
  BY <1>1 DEF Holders, Active
<1>4. SlotsBounded'
  <2>1. /\ Cardinality(Holders') + Cardinality(InFlight') <= Cardinality(Holders) + Cardinality(InFlight)
        /\ Cardinality(Holders') \in Nat /\ Cardinality(InFlight') \in Nat
    BY <1>2, <1>3, Finite, Moved
  <2>2. Cardinality(Holders) \in Nat /\ Cardinality(InFlight) \in Nat
    BY Finite, FS_CardinalityType
  <2>. QED BY <2>1, <2>2, Finite DEF IInv, SlotsBounded, Slack
<1>5. row.parent = request[r].parent
      /\ (request[r].project # None => row.project = request[r].project)
  BY <1>0 DEF NewRow
<1>6. ASSUME NEW p \in Jobs
      PROVE  Cardinality(Retries(p)') + Cardinality(Retrying(p)')
               < MaxRetries + Cardinality(Requests)
  <2>1. Cardinality(Retries(p)) + Cardinality(Retrying(p)) < MaxRetries + Cardinality(Requests)
    BY DEF IInv, RetriesBounded
  <2>2. /\ Cardinality(Retries(p)) \in Nat /\ Cardinality(Retrying(p)) \in Nat
    BY Finite, FS_CardinalityType
  <2>3. Retrying(p)' \subseteq Retrying(p)
    BY <1>1, <1>2 DEF Retrying, InFlight, Idle
  <2>4. CASE r \in Retrying(p)
    <3>1. r \notin Retrying(p)'
      BY <1>2 DEF Retrying
    <3>2. Retries(p)' \subseteq Retries(p) \cup {j}
      BY <1>1 DEF Retries, Born
    <3>3. /\ Cardinality(Retries(p)') + Cardinality(Retrying(p)') <= Cardinality(Retries(p)) + Cardinality(Retrying(p))
          /\ Cardinality(Retries(p)') \in Nat /\ Cardinality(Retrying(p)') \in Nat
      <4>1. IsFiniteSet(Retries(p)) /\ IsFiniteSet(Retrying(p))
        BY Finite
      <4>. QED BY <2>3, <2>4, <3>1, <3>2, <4>1, Moved
    <3>4. MaxRetries + Cardinality(Requests) \in Nat
      BY Finite
    <3>5. \A a, b, c, d, n \in Nat : a + b <= c + d /\ c + d < n => a + b < n
      OBVIOUS
    <3>. QED BY <2>1, <2>2, <3>3, <3>4, <3>5
  <2>5. CASE r \notin Retrying(p)
    <3>1. request[r].parent # None => request[r].project \in Jobs
      BY <1>2 DEF IInv, Placed
    <3>2. row.parent = None \/ row.project # p
      BY <1>2, <1>5, <2>5, <3>1 DEF Retrying
    <3>3. Retries(p)' \subseteq Retries(p)
      BY <1>1, <3>2 DEF Retries, Born
    <3>4. /\ Cardinality(Retries(p)') <= Cardinality(Retries(p))
          /\ Cardinality(Retrying(p)') <= Cardinality(Retrying(p))
          /\ Cardinality(Retries(p)') \in Nat /\ Cardinality(Retrying(p)') \in Nat
      BY <2>3, <3>3, Finite, Bounded
    <3>. QED BY <2>1, <2>2, <3>4, Finite
  <2>. QED BY <2>4, <2>5
<1>7. RetriesBounded'
  BY <1>6 DEF RetriesBounded
<1>. QED BY <1>4, <1>7

LEMMA HandleCounts ==
  ASSUME IInv, NEW r \in Requests, Handle(r)
  PROVE  SlotsBounded' /\ RetriesBounded'
<1>. USE DEF IInv
<1>1. ASSUME NEW k \in Keys, AskCreate(r, k) PROVE SlotsBounded' /\ RetriesBounded'
  <2>0. request[r] \in Asks \ {Idle} /\ request[r].parent = None
    BY <1>1 DEF AskCreate, Placed, TypeOK, Idle
  <2>1. PICK q : q = [request[r] EXCEPT !.step = "counted", !.key = k]
    OBVIOUS
  <2>2. q.parent = None
    BY <2>0, <2>1 DEF Asks
  <2>. QED BY <1>1, <2>1, <2>2, AskStep DEF AskCreate, SlotFree
<1>2. ASSUME NEW k \in Keys, NEW p \in Jobs, AskEdit(r, k, p)
      PROVE  SlotsBounded' /\ RetriesBounded'
  <2>1. PICK q : q = Asked("counted", "edit", k, p, None)
    OBVIOUS
  <2>2. q.parent = None
    BY <2>1 DEF Asked
  <2>. QED BY <1>2, <2>1, <2>2, AskStep DEF AskEdit, SlotFree
<1>3. ASSUME NEW j \in Jobs, AskRetry(r, j) PROVE SlotsBounded' /\ RetriesBounded'
  <2>1. PICK q : q = Asked("passed", "generation", None, job[j].project, j)
    OBVIOUS
  <2>2. q.project = job[j].project
    BY <2>1 DEF Asked
  <2>3. Cardinality(Active) < Cap
    <3>1. Active \subseteq Jobs
      BY DEF Active
    <3>2. Cardinality(Active) \in Nat
      BY <3>1, Bounded
    <3>. QED BY <1>3, <3>2 DEF AskRetry
  <2>. QED BY <1>3, <2>1, <2>2, <2>3, AskStep DEF AskRetry, RetriesLeft
<1>4. ASSUME NEW j \in Jobs, Insert(r, j) PROVE SlotsBounded' /\ RetriesBounded'
  BY <1>4, InsertStep
<1>6. ASSUME Enter(r) PROVE SlotsBounded' /\ RetriesBounded'
  <2>1. Holders' \subseteq Holders /\ (\A p \in Jobs : Retries(p)' \subseteq Retries(p))
    BY <1>6 DEF Enter, Holders, Active, Retries, Born
  <2>2. PICK q : /\ q = [Asked("entered", "generation", None, None, None)
                           EXCEPT !.balance = bonus]
                 /\ request' = [request EXCEPT ![r] = q]
    BY <1>6 DEF Enter
  <2>3. q.step = "entered"
    BY <2>2 DEF Asked
  <2>4. InFlight' \subseteq InFlight /\ \A p \in Jobs : Retrying(p)' \subseteq Retrying(p)
    BY <2>2, <2>3 DEF InFlight, Retrying, TypeOK
  <2>. QED BY <2>1, <2>4, CalmStep
<1>5. ASSUME Weigh(r) \/ Clash(r) \/ Abort(r) PROVE SlotsBounded' /\ RetriesBounded'
  <2>1. Holders' \subseteq Holders /\ (\A p \in Jobs : Retries(p)' \subseteq Retries(p))
    BY <1>5 DEF Weigh, Clash, Abort, Holders, Active, Retries, Born
  <2>2. CASE request' = [request EXCEPT ![r] = Idle]
    <3>1. InFlight' \subseteq InFlight
      BY <2>2 DEF InFlight, TypeOK, Idle
    <3>2. \A p \in Jobs : Retrying(p)' \subseteq Retrying(p)
      BY <2>2 DEF Retrying, InFlight, TypeOK, Idle
    <3>. QED BY <2>1, <3>1, <3>2, CalmStep
  <2>3. CASE /\ Weigh(r)
             /\ request' = [request EXCEPT ![r] = [@ EXCEPT !.step = "passed", !.balance = 0]]
    <3>0. PICK q : q = [request[r] EXCEPT !.step = "passed", !.balance = 0]
      OBVIOUS
    <3>1. request[r] \in Asks \ {Idle} /\ r \in InFlight
      BY <2>3 DEF Weigh, TypeOK, Idle, InFlight
    <3>4. q.project = request[r].project /\ q.parent = request[r].parent
          /\ request' = [request EXCEPT ![r] = q]
      BY <2>3, <3>0, <3>1 DEF Asks
    <3>2. InFlight' \subseteq InFlight
      BY <3>1, <3>4 DEF InFlight, TypeOK
    <3>3. \A p \in Jobs : Retrying(p)' \subseteq Retrying(p)
      BY <3>1, <3>4 DEF Retrying, InFlight, TypeOK
    <3>. QED BY <2>1, <3>2, <3>3, CalmStep
  <2>. QED BY <1>5, <2>2, <2>3 DEF Weigh, Clash, Abort
<1>. QED BY <1>1, <1>2, <1>3, <1>4, <1>5, <1>6 DEF Handle

LEMMA JobCounts ==
  ASSUME IInv, NEW j \in Jobs,
         Look(j) \/ Start(j) \/ Park(j) \/ Resume(j) \/ Fail(j) \/ GoLive(j)
  PROVE  SlotsBounded' /\ RetriesBounded'
<1>. USE DEF IInv, TypeOK, Rows
<1>1. /\ InFlight' \subseteq InFlight
      /\ \A p \in Jobs : Retrying(p)' \subseteq Retrying(p)
  BY DEF Look, Start, Park, Resume, Fail, GoLive, InFlight, Retrying
<1>2. Holders' \subseteq Holders
  BY DEF Look, Start, Park, Resume, Fail, GoLive, Holders, Active, Running, NeedsCharge
<1>3. ASSUME NEW p \in Jobs PROVE Retries(p)' \subseteq Retries(p)
  BY DEF Look, Start, Park, Resume, Fail, GoLive, Retries, Born, Running, NeedsCharge
<1>. QED BY <1>1, <1>2, <1>3, CalmStep

LEMMA CountsKept == IInv /\ [Next]_vars => SlotsBounded' /\ RetriesBounded'
<1> SUFFICES ASSUME IInv, [Next]_vars PROVE SlotsBounded' /\ RetriesBounded'
  OBVIOUS
<1>1. ASSUME NEW p \in Jobs, NEW j \in Jobs, Rollback(p, j)
      PROVE  SlotsBounded' /\ RetriesBounded'
  <2>1. PICK row : /\ row = [Unborn EXCEPT !.state = "created", !.kind = "rollback",
                                           !.project = p]
                   /\ job' = [job EXCEPT ![j] = row]
    BY <1>1 DEF Rollback
  <2>2. row.kind = "rollback" /\ row.parent = None
    BY <2>1 DEF Unborn
  <2>3. job \in [Jobs -> Rows] /\ request' = request
    BY <1>1 DEF IInv, TypeOK, Rollback
  <2>4. Holders' \subseteq Holders /\ InFlight' \subseteq InFlight
    BY <2>1, <2>2, <2>3 DEF Holders, Active, InFlight
  <2>5. ASSUME NEW o \in Jobs
        PROVE  Retries(o)' \subseteq Retries(o) /\ Retrying(o)' \subseteq Retrying(o)
    BY <2>1, <2>2, <2>3 DEF Retries, Born, Retrying, InFlight
  <2>. QED BY <2>4, <2>5, CalmStep DEF IInv
<1>6. ASSUME NEW p \in Jobs, Purge(p) PROVE SlotsBounded' /\ RetriesBounded'
  <2>1. Holders' \subseteq Holders /\ InFlight' \subseteq InFlight
    BY <1>6 DEF Purge, Holders, Active, Running, Unborn, InFlight
  <2>2. ASSUME NEW o \in Jobs
        PROVE  Retries(o)' \subseteq Retries(o) /\ Retrying(o)' \subseteq Retrying(o)
    BY <1>6 DEF Purge, Retries, Born, Unborn, Retrying, InFlight
  <2>. QED BY <2>1, <2>2, CalmStep DEF IInv
<1>2. ASSUME UNCHANGED <<job, request>> PROVE SlotsBounded' /\ RetriesBounded'
  BY <1>2, CalmStep DEF IInv, Holders, Active, InFlight, Retries, Born, Retrying
<1>3. ASSUME NEW p \in Jobs, Delete(p) PROVE UNCHANGED <<job, request>>
  BY <1>3 DEF Delete
<1>4. ASSUME NEW n \in 0 .. MaxBonus, Refill(n) \/ Correct(n) PROVE UNCHANGED <<job, request>>
  BY <1>4 DEF Refill, Correct
<1>5. NewMonth \/ UNCHANGED vars => UNCHANGED <<job, request>>
  BY DEF NewMonth, vars
<1>. QED BY <1>1, <1>2, <1>3, <1>4, <1>5, <1>6, HandleCounts, JobCounts DEF Next

--------------------------------------------------------------------------------
(* Projects                                                                    *)

LEMMA PlacedKept == IInv /\ [Next]_vars => Placed'
<1> SUFFICES ASSUME IInv, [Next]_vars PROVE Placed'
  OBVIOUS
<1>. USE DEF IInv, TypeOK, Placed, Born, InFlight
<1>0. ASSUME NEW r \in Requests, Enter(r) PROVE Placed'
  <2>1. PICK q : /\ q = [Asked("entered", "generation", None, None, None)
                           EXCEPT !.balance = bonus]
                 /\ request' = [request EXCEPT ![r] = q] /\ job' = job
    BY <1>0 DEF Enter
  <2>2. q.step = "entered" /\ q.parent = None
    BY <2>1 DEF Asked
  <2>. QED BY <2>1, <2>2
<1>1. ASSUME NEW r \in Requests, NEW k \in Keys, AskCreate(r, k) PROVE Placed'
  <2>1. request[r] \in Asks \ {Idle} /\ request[r].parent = None
    BY <1>1 DEF AskCreate, Idle
  <2>2. PICK q : /\ q = [request[r] EXCEPT !.step = "counted", !.key = k]
                 /\ request' = [request EXCEPT ![r] = q] /\ job' = job
    BY <1>1 DEF AskCreate
  <2>3. q.parent = None /\ q.step = "counted"
    BY <2>1, <2>2 DEF Asks
  <2>. QED BY <2>2, <2>3
<1>2. ASSUME NEW r \in Requests, NEW k \in Keys, NEW p \in Jobs, AskEdit(r, k, p) PROVE Placed'
  BY <1>2 DEF AskEdit, Asked
<1>3. ASSUME NEW r \in Requests, NEW j \in Jobs, AskRetry(r, j) PROVE Placed'
  <2>1. job[j].project \in Jobs
    BY <1>3 DEF AskRetry
  <2>. QED BY <1>3, <2>1 DEF AskRetry, Asked
<1>4. ASSUME NEW r \in Requests, NEW j \in Jobs, Insert(r, j) PROVE Placed'
  <2>1. request[r] \in [step : Steps, kind : {"generation", "edit"}, key : Keys \cup {None},
                        project : Jobs \cup {None}, parent : Jobs \cup {None}, balance : Nat]
    BY <1>4 DEF Insert, Asks, Idle
  <2>2. NewRow(request[r], j).project \in Jobs
    BY <2>1 DEF NewRow
  <2>. QED BY <1>4, <2>2 DEF Insert, Idle
<1>5. ASSUME NEW r \in Requests, Weigh(r) PROVE Placed'
  <2>1. request[r] \in Asks \ {Idle} /\ r \in InFlight
    BY <1>5 DEF Weigh, Idle
  <2>2. CASE request' = [request EXCEPT ![r] = Idle]
    BY <1>5, <2>2 DEF Weigh, Idle
  <2>3. CASE request' = [request EXCEPT ![r] = [@ EXCEPT !.step = "passed", !.balance = 0]]
    <3>1. PICK q : /\ q = [request[r] EXCEPT !.step = "passed", !.balance = 0]
                   /\ request' = [request EXCEPT ![r] = q] /\ job' = job
      BY <1>5, <2>3 DEF Weigh
    <3>2. /\ q.parent = request[r].parent /\ q.project = request[r].project
          /\ q.step = "passed"
      BY <2>1, <3>1 DEF Asks
    <3>. QED BY <2>1, <3>1, <3>2
  <2>. QED BY <1>5, <2>2, <2>3 DEF Weigh
<1>6. ASSUME NEW r \in Requests, Clash(r) \/ Abort(r) PROVE Placed'
  BY <1>6 DEF Clash, Abort, Idle
<1>7. ASSUME NEW r \in Requests, Handle(r) PROVE Placed'
  BY <1>7, <1>0, <1>1, <1>2, <1>3, <1>4, <1>5, <1>6 DEF Handle
<1>8. ASSUME NEW p \in Jobs, NEW j \in Jobs, Rollback(p, j) PROVE Placed'
  BY <1>8 DEF Rollback, Unborn
<1>9. ASSUME NEW j \in Jobs,
             Look(j) \/ Start(j) \/ Park(j) \/ Resume(j) \/ Fail(j) \/ GoLive(j)
      PROVE  Placed'
  BY <1>9 DEF Look, Start, Park, Resume, Fail, GoLive, NeedsCharge, Running, Rows
<1>12. ASSUME NEW p \in Jobs, Purge(p) PROVE Placed'
  BY <1>12 DEF Purge, Unborn
<1>10. ASSUME UNCHANGED <<job, request>> PROVE Placed'
  BY <1>10
<1>11. /\ \A p \in Jobs : Delete(p) => UNCHANGED <<job, request>>
       /\ \A n \in 0 .. MaxBonus : Refill(n) \/ Correct(n) => UNCHANGED <<job, request>>
       /\ NewMonth \/ UNCHANGED vars => UNCHANGED <<job, request>>
  BY DEF Delete, Refill, Correct, NewMonth, vars
<1>. QED BY <1>7, <1>8, <1>9, <1>10, <1>11, <1>12 DEF Next

LEMMA Initially == Init => IInv
<1> SUFFICES ASSUME Init PROVE IInv
  OBVIOUS
<1>1. TypeOK
  BY UnbornIsRow, IdleIsAsk DEF Init, TypeOK
<1>2. Holders = {} /\ InFlight = {} /\ Born = {}
  BY DEF Init, Holders, Active, Running, Unborn, InFlight, Born, Idle
<1>3. \A p : Retries(p) = {} /\ Retrying(p) = {}
  BY <1>2 DEF Retries, Retrying
<1>4. Cardinality({}) = 0
  BY FS_EmptySet
<1>5. Placed
  BY <1>2 DEF Placed, Init, Idle
<1>6. Cardinality(Requests) \in Nat /\ Cardinality(Requests) # 0
  BY Finite, FS_EmptySet
<1>7. SlotsBounded
  BY <1>2, <1>4, <1>6 DEF SlotsBounded, Slack
<1>8. RetriesBounded
  <2>1. 0 + 0 < MaxRetries + Cardinality(Requests)
    BY <1>6
  <2>. QED BY <1>3, <1>4, <2>1 DEF RetriesBounded
<1>. QED BY <1>1, <1>5, <1>7, <1>8 DEF IInv

LEMMA Inductive == IInv /\ [Next]_vars => IInv'
  BY TypesKept, PlacedKept, CountsKept DEF IInv

--------------------------------------------------------------------------------
(* What is started                                                             *)

(* A job that has seen room in the month may charge it whatever has been used   *)
(* since.                                                                      *)
Roomy == {j \in Jobs : job[j].saw = "room"}

(* Only a generation that is still to be charged has looked, and an interview   *)
(* is answered after it.                                                       *)
Looked ==
  \A j \in Jobs : /\ job[j].saw # "nothing" => NeedsCharge(j) /\ job[j].kind = "generation"
                  /\ job[j].state = "created" => ~job[j].resumed

(* A balance to pay with was counted, and so was one that a request still holds. *)
Refilled == bonus >= Cost \/ Rich # {} => refills >= 1

(* What the generations may still take from the month. With a balance only the   *)
(* ones that saw room do, until it runs out; without one, all that are let in.   *)
Due == IF bonus >= Cost THEN Cardinality(Roomy) + Lag
                        ELSE Cardinality(Unpaid) + Cardinality(Coming)

Covered == used + Due < Monthly + Slack + refills * Lag

CInv == Looked /\ Refilled /\ Covered

Sizes ==
  /\ used \in Nat /\ bonus \in Nat /\ refills \in Nat /\ Slack \in Nat /\ Lag \in Nat
  /\ IsFiniteSet(Roomy) /\ IsFiniteSet(Unpaid) /\ IsFiniteSet(Coming)
  /\ Cardinality(Roomy) \in Nat /\ Cardinality(Unpaid) \in Nat
  /\ Cardinality(Coming) \in Nat /\ Due \in Nat

LEMMA Naturals == TypeOK => Sizes
<1>. SUFFICES ASSUME TypeOK PROVE Sizes
  OBVIOUS
<1>1. used \in Nat /\ bonus \in Nat /\ refills \in Nat
  BY DEF TypeOK
<1>2. Slack \in Nat /\ Lag \in Nat
  <2>1. Cardinality(Requests) \in Nat /\ Cardinality(Requests) # 0
    BY Finite, FS_EmptySet
  <2>2. Slack \in Nat
    BY <2>1 DEF Slack
  <2>. QED BY <2>1, <2>2 DEF Lag
<1>3. Roomy \subseteq Jobs /\ Unpaid \subseteq Jobs /\ Coming \subseteq Requests
  BY DEF Roomy, Unpaid, Coming, Paying, Rich, InFlight
<1>4. IsFiniteSet(Roomy) /\ IsFiniteSet(Unpaid) /\ IsFiniteSet(Coming)
  BY <1>3, FS_Subset
<1>5. /\ Cardinality(Roomy) \in Nat /\ Cardinality(Unpaid) \in Nat
      /\ Cardinality(Coming) \in Nat
  BY <1>4, FS_CardinalityType
<1>6. Due \in Nat
  <2>1. Cardinality(Unpaid) + Cardinality(Coming) \in Nat
    BY <1>5
  <2>2. Cardinality(Roomy) + Lag \in Nat
    BY <1>2, <1>5
  <2>. QED BY <2>1, <2>2 DEF Due
<1>. QED BY <1>1, <1>2, <1>4, <1>5, <1>6 DEF Sizes

(* All jobs that are to be charged hold a slot, and so does what was let in for   *)
(* the month alone; the requests that hold a balance come on top.               *)
Seated ==
  /\ Cardinality(Roomy) <= Cardinality(Unpaid)
  /\ Cardinality(Unpaid) + Cardinality(Coming) <= Lag
  /\ Due <= Slack \/ (refills >= 1 /\ Due <= Slack + Lag)

LEMMA DueIsSlots == IInv /\ Looked /\ Refilled => Seated
<1>. SUFFICES ASSUME IInv, Looked, Refilled PROVE Seated
  OBVIOUS
<1>0. /\ Cardinality(Roomy) \in Nat /\ Cardinality(Unpaid) \in Nat
      /\ Cardinality(Coming) \in Nat /\ Slack \in Nat /\ Lag \in Nat
  BY Naturals DEF IInv, Sizes
<1>1. Cardinality(Roomy) <= Cardinality(Unpaid)
  <2>1. Roomy \subseteq Unpaid
    BY DEF Roomy, Unpaid, Looked
  <2>. QED BY <2>1, Naturals, Bounded DEF IInv, Sizes
<1>2. /\ Cardinality(Unpaid) <= Cardinality(Holders)
      /\ Cardinality(Holders) \in Nat /\ Cardinality(InFlight) \in Nat
  <2>1. Unpaid \subseteq Holders
    BY DEF Unpaid, NeedsCharge, Holders, Active, Running, Looked
  <2>. QED BY <2>1, Finite, Bounded
<1>3. Cardinality(Holders) + Cardinality(InFlight) <= Slack
  BY DEF IInv, SlotsBounded
<1>4. Cardinality(Unpaid) + Cardinality(Coming) <= Lag
  <2>1. Coming \subseteq Requests
    BY DEF Coming, Paying, Rich, InFlight
  <2>2. Cardinality(Coming) <= Cardinality(Requests) /\ Cardinality(Requests) \in Nat
    BY <2>1, Bounded
  <2>. QED BY <1>0, <1>2, <1>3, <2>2 DEF Lag
<1>5. Rich = {} => Cardinality(Unpaid) + Cardinality(Coming) <= Slack
  <2>. SUFFICES ASSUME Rich = {} PROVE Cardinality(Unpaid) + Cardinality(Coming) <= Slack
    OBVIOUS
  <2>1. Coming \subseteq InFlight
    BY DEF Coming, Paying
  <2>2. Cardinality(Coming) <= Cardinality(InFlight)
    BY <2>1, Finite, Bounded
  <2>. QED BY <1>0, <1>2, <1>3, <2>2
<1>6. CASE bonus >= Cost
  <2>1. Due = Cardinality(Roomy) + Lag /\ refills >= 1
    BY <1>6 DEF Due, Refilled
  <2>2. Cardinality(Roomy) <= Slack
    BY <1>0, <1>1, <1>2, <1>3
  <2>. QED BY <1>0, <1>1, <1>4, <2>1, <2>2 DEF Seated
<1>7. CASE ~(bonus >= Cost)
  <2>1. Due = Cardinality(Unpaid) + Cardinality(Coming)
    BY <1>7 DEF Due
  <2>2. Rich # {} => refills >= 1
    BY DEF Refilled
  <2>. QED BY <1>0, <1>1, <1>4, <1>5, <2>1, <2>2 DEF Seated
<1>. QED BY <1>6, <1>7

(* Sums of what is used and what is due. *)
LEMMA Sums ==
  /\ \A u, d, v, e \in Nat : u = v /\ e <= d => v + e <= u + d
  /\ \A n, x, y, z \in Nat : n <= x /\ x < y + z => n < y + z
  /\ \A n, x, y, z, l \in Nat : n <= x + l /\ x < y + z => n < y + (z + l)
  /\ \A x, y \in Nat : x + y \in Nat
  OBVIOUS

(* The quota and the price of a generation are numbers. *)
LEMMA Prices == Monthly \in Nat /\ Cost \in Nat
  BY AdmissionAssumption

(* A step that takes no more from the month than it leaves due, finds the month *)
(* not used up, or begins with a new balance.                                   *)
LEMMA CoverStep ==
  ASSUME IInv, IInv', CInv, Looked', Refilled',
         \/ refills' = refills /\ used' + Due' <= used + Due
         \/ used' < Monthly
         \/ refills' = refills + 1 /\ used' + Due' <= used + Due + Lag
  PROVE  CInv'
<1>1. TypeOK /\ TypeOK'
  BY DEF IInv
<1>2. Sizes /\ Sizes'
  BY <1>1, Naturals, PTL
<1>3. Seated'
  BY DueIsSlots, PTL
<1>4. /\ used \in Nat /\ Due \in Nat /\ refills \in Nat /\ Slack \in Nat /\ Lag \in Nat
      /\ used' \in Nat /\ Due' \in Nat /\ refills' \in Nat /\ Slack' = Slack /\ Lag' = Lag
      /\ Due' <= Slack \/ (refills' >= 1 /\ Due' <= Slack + Lag)
  BY <1>2, <1>3 DEF Sizes, Seated, Slack, Lag
<1>5. used + Due < Monthly + Slack + refills * Lag
  BY DEF CInv, Covered
<1>6. \A m, n \in Nat : m * n \in Nat /\ (m + 1) * n = m * n + n
  OBVIOUS
<1>8. used + Due \in Nat /\ used' + Due' \in Nat /\ Monthly + Slack \in Nat /\ Lag \in Nat
  BY <1>4, Prices, Sums
<1>7. used' + Due' < Monthly + Slack + refills' * Lag
  <2>0. PICK t \in Nat : t = refills * Lag
    BY <1>4, <1>6
  <2>1. CASE refills' = refills /\ used' + Due' <= used + Due
    <3>1. refills' * Lag = t
      BY <2>0, <2>1
    <3>2. used + Due < Monthly + Slack + t
      BY <1>5, <2>0
    <3>3. used' + Due' < Monthly + Slack + t
      BY <1>8, <2>0, <2>1, <3>2, Sums
    <3>. QED BY <3>1, <3>3
  <2>2. CASE used' < Monthly
    <3>1. CASE Due' <= Slack
      <4>1. PICK u \in Nat : u = refills' * Lag
        BY <1>4, <1>6
      <4>. QED BY <1>4, <2>2, <3>1, <4>1
    <3>2. CASE refills' >= 1 /\ Due' <= Slack + Lag
      <4>1. PICK k \in Nat : refills' = k + 1
        <5>0. refills' \in Nat /\ refills' >= 1
          BY <1>4, <3>2
        <5>1. \A n \in Nat : n >= 1 => n - 1 \in Nat /\ n = (n - 1) + 1
          OBVIOUS
        <5>. QED BY <5>0, <5>1
      <4>2. PICK u \in Nat : u = k * Lag
        BY <1>4, <1>6
      <4>3. refills' * Lag = u + Lag
        BY <1>4, <1>6, <4>1, <4>2
      <4>. QED BY <1>4, <2>2, <3>2, <4>3
    <3>. QED BY <1>4, <3>1, <3>2
  <2>3. CASE refills' = refills + 1 /\ used' + Due' <= used + Due + Lag
    <3>1. refills' * Lag = t + Lag
      BY <1>4, <1>6, <2>0, <2>3
    <3>2. used + Due < Monthly + Slack + t
      BY <1>5, <2>0
    <3>3. used' + Due' < Monthly + Slack + (t + Lag)
      BY <1>8, <2>0, <2>3, <3>2, Sums
    <3>. QED BY <3>1, <3>3
  <2>. QED BY <2>1, <2>2, <2>3
<1>. QED BY <1>4, <1>7 DEF CInv, Covered

(* A step that charges nothing and lets no generation in. *)
LEMMA CalmCover ==
  ASSUME IInv, IInv', CInv, Looked', UNCHANGED <<used, bonus, refills>>, Roomy' \subseteq Roomy,
         bonus < Cost => Unpaid' \subseteq Unpaid /\ Coming' \subseteq Coming /\ Rich' \subseteq Rich
  PROVE  CInv'
<1>1. Sizes
  BY Naturals DEF IInv
<1>2. Refilled'
  <2>1. bonus >= Cost \/ Rich' \subseteq Rich
    BY <1>1 DEF Sizes
  <2>. QED BY <2>1 DEF CInv, Refilled
<1>3. Due' <= Due /\ Due' \in Nat
  <2>1. CASE bonus >= Cost
    <3>1. Cardinality(Roomy') <= Cardinality(Roomy) /\ Cardinality(Roomy') \in Nat
      BY <1>1, Bounded DEF Sizes
    <3>2. Due' = Cardinality(Roomy') + Lag /\ Due = Cardinality(Roomy) + Lag
      BY <2>1 DEF Due, Lag, Slack
    <3>. QED BY <1>1, <3>1, <3>2 DEF Sizes
  <2>2. CASE ~(bonus >= Cost)
    <3>1. Unpaid' \subseteq Unpaid /\ Coming' \subseteq Coming
      BY <2>2, <1>1 DEF Sizes
    <3>2. /\ Cardinality(Unpaid') <= Cardinality(Unpaid) /\ Cardinality(Unpaid') \in Nat
          /\ Cardinality(Coming') <= Cardinality(Coming) /\ Cardinality(Coming') \in Nat
      BY <1>1, <3>1, Bounded DEF Sizes
    <3>3. Cardinality(Unpaid') + Cardinality(Coming') <= Cardinality(Unpaid) + Cardinality(Coming)
          /\ Cardinality(Unpaid') + Cardinality(Coming') \in Nat
      BY <1>1, <3>2 DEF Sizes
    <3>. QED BY <2>2, <3>3 DEF Due
  <2>. QED BY <2>1, <2>2
<1>4. used' + Due' <= used + Due
  <2>1. \A a, b, c \in Nat : b <= c => a + b <= a + c
    OBVIOUS
  <2>. QED BY <1>1, <1>3, <2>1 DEF Sizes
<1>. QED BY <1>2, <1>4, CoverStep

LEMMA CalmRequest ==
  ASSUME IInv, IInv', CInv, UNCHANGED <<job, used, bonus, refills>>,
         bonus < Cost => Coming' \subseteq Coming /\ Rich' \subseteq Rich
  PROVE  CInv'
<1>1. Looked' /\ Roomy' = Roomy /\ Unpaid' = Unpaid
  BY DEF CInv, Looked, Roomy, Unpaid, NeedsCharge
<1>. QED BY <1>1, CalmCover

(* What a request may become without a claim of its own. *)
LEMMA AskCover ==
  ASSUME IInv, IInv', CInv, NEW r \in Requests, NEW q,
         request' = [request EXCEPT ![r] = q], UNCHANGED <<job, counters>>,
         \/ q = Idle
         \/ q.balance = 0 /\ (q.step # "passed" \/ q.kind = "edit" \/ q.parent # None)
         \/ request[r] # Idle /\ q.balance = request[r].balance /\ q.step # "passed"
         \/ r \in Rich /\ q.balance = 0
         \/ q.balance = bonus /\ q.step # "passed"
  PROVE  CInv'
<1>1. request'[r] = q /\ \A s \in Requests \ {r} : request'[s] = request[s]
  BY DEF IInv, TypeOK
<1>2. bonus \in Nat /\ Cost \in Nat \ {0}
  BY DEF IInv, TypeOK
<1>3. bonus < Cost => Rich' \subseteq Rich
  BY <1>1, <1>2 DEF Rich
<1>4. bonus < Cost => Coming' \subseteq Coming
  <2>1. Paying' \subseteq Paying \cup Rich
    BY <1>1, <1>2 DEF Paying, InFlight, Idle
  <2>. QED BY <1>3, <2>1 DEF Coming
<1>. QED BY <1>3, <1>4, CalmRequest DEF counters

(* The gate weighs the month of this moment and the balance of the entry. *)
LEMMA WeighCover ==
  ASSUME IInv, IInv', CInv, NEW r \in Requests, Weigh(r)
  PROVE  CInv'
<1>1. UNCHANGED <<job, counters>> /\ request[r].step = "counted"
      /\ request \in [Requests -> Asks]
  BY DEF Weigh, counters, IInv, TypeOK
<1>2. CASE request' = [request EXCEPT ![r] = Idle]
  BY <1>1, <1>2, AskCover
<1>3. CASE /\ request' = [request EXCEPT ![r] = [@ EXCEPT !.step = "passed", !.balance = 0]]
           /\ Payable(request[r])
  <2>1. request[r] \in [step : Steps, kind : {"generation", "edit"}, key : Keys \cup {None},
                        project : Jobs \cup {None}, parent : Jobs \cup {None}, balance : Nat]
        /\ request[r] # Idle
    BY <1>1 DEF Asks, Idle
  <2>2. PICK q : /\ q = [request[r] EXCEPT !.step = "passed", !.balance = 0]
                 /\ request' = [request EXCEPT ![r] = q]
    BY <1>3
  <2>3. q.balance = 0 /\ q.kind = request[r].kind
    BY <2>1, <2>2
  <2>4. CASE request[r].kind = "edit"
    BY <1>1, <2>2, <2>3, <2>4, AskCover
  <2>5. CASE used < Monthly
    <3>1. Looked'
      BY <1>1 DEF CInv, Looked, NeedsCharge
    <3>2. Rich' \subseteq Rich
      BY <1>1, <2>2, <2>3 DEF Rich, IInv, TypeOK
    <3>3. Refilled' /\ used' < Monthly
      BY <1>1, <2>5, <3>2 DEF CInv, Refilled, counters
    <3>. QED BY <3>1, <3>3, CoverStep
  <2>6. CASE request[r].balance >= Cost
    <3>1. r \in Rich
      BY <2>1, <2>6 DEF Rich
    <3>. QED BY <1>1, <2>2, <2>3, <3>1, AskCover
  <2>. QED BY <1>3, <2>4, <2>5, <2>6 DEF Payable
<1>. QED BY <1>2, <1>3 DEF Weigh

(* The request hands its claim over to its job. *)
LEMMA InsertCover ==
  ASSUME IInv, IInv', CInv, NEW r \in Requests, NEW j \in Jobs, Insert(r, j)
  PROVE  CInv'
<1>. DEFINE row == NewRow(request[r], j)
<1>1. /\ job' = [job EXCEPT ![j] = row] /\ request' = [request EXCEPT ![r] = Idle]
      /\ request[r].step = "passed" /\ UNCHANGED <<used, bonus, refills>>
      /\ job \in [Jobs -> Rows] /\ request \in [Requests -> Asks]
  BY DEF Insert, IInv, TypeOK, counters
<1>2. /\ row.saw = "nothing" /\ ~row.resumed /\ row.kind = request[r].kind
      /\ row.counted = (request[r].parent # None)
  BY DEF NewRow
<1>. HIDE DEF row
<1>3. job'[j] = row /\ \A i \in Jobs \ {j} : job'[i] = job[i]
  BY <1>1
<1>4. Looked'
  <2>1. ASSUME NEW i \in Jobs
        PROVE  /\ job'[i].saw # "nothing" => NeedsCharge(i)' /\ job'[i].kind = "generation"
               /\ job'[i].state = "created" => ~job'[i].resumed
    <3>1. CASE i = j
      BY <1>2, <1>3, <3>1
    <3>2. CASE i # j
      BY <1>3, <3>2 DEF CInv, Looked, NeedsCharge
    <3>. QED BY <3>1, <3>2
  <2>. QED BY <2>1 DEF Looked
<1>5. Roomy' \subseteq Roomy
  BY <1>2, <1>3 DEF Roomy
<1>6. /\ request[r] # Idle /\ r \notin Coming' /\ Coming' \subseteq Coming
      /\ Rich' \subseteq Rich
  BY <1>1 DEF Coming, Paying, Rich, InFlight, Idle
<1>7. CASE r \in Paying
  <2>1. Unpaid' \subseteq Unpaid \cup {j} /\ r \in Coming
    BY <1>3, <1>7 DEF Unpaid, NeedsCharge, Coming
  <2>2. Sizes /\ Refilled'
    BY <1>1, <1>6, Naturals DEF IInv, CInv, Refilled
  <2>3. Cardinality(Unpaid') + Cardinality(Coming') <= Cardinality(Unpaid) + Cardinality(Coming)
        /\ Cardinality(Unpaid') \in Nat /\ Cardinality(Coming') \in Nat
    <3>1. IsFiniteSet(Unpaid) /\ IsFiniteSet(Coming)
      BY <2>2 DEF Sizes
    <3>. QED BY <1>6, <2>1, <3>1, Moved
  <2>4. Cardinality(Roomy') <= Cardinality(Roomy) /\ Cardinality(Roomy') \in Nat
    BY <1>5, <2>2, Bounded DEF Sizes
  <2>5. Due' <= Due /\ Due' \in Nat
    <3>1. Cardinality(Unpaid') + Cardinality(Coming') \in Nat
      BY <2>3
    <3>2. Cardinality(Roomy') + Lag <= Cardinality(Roomy) + Lag /\ Cardinality(Roomy') + Lag \in Nat
      BY <2>2, <2>4 DEF Sizes
    <3>3. Lag' = Lag /\ bonus' = bonus
      BY <1>1 DEF Lag, Slack
    <3>. QED BY <2>3, <3>1, <3>2, <3>3 DEF Due
  <2>6. used' + Due' <= used + Due
    <3>1. \A a, b, c \in Nat : b <= c => a + b <= a + c
      OBVIOUS
    <3>. QED BY <1>1, <2>2, <2>5, <3>1 DEF Sizes
  <2>. QED BY <1>1, <1>4, <2>2, <2>6, CoverStep
<1>8. CASE r \notin Paying
  <2>1. request[r].kind # "generation" \/ request[r].parent # None
    BY <1>1, <1>6, <1>8 DEF Paying, InFlight
  <2>2. Unpaid' \subseteq Unpaid
    BY <1>2, <1>3, <2>1 DEF Unpaid, NeedsCharge
  <2>. QED BY <1>1, <1>4, <1>5, <1>6, <2>2, CalmCover
<1>. QED BY <1>7, <1>8

LEMMA HandleCover ==
  ASSUME IInv, IInv', CInv, NEW r \in Requests, Handle(r)
  PROVE  CInv'
<1>0. ASSUME Enter(r) PROVE CInv'
  <2>1. PICK q : /\ q = [Asked("entered", "generation", None, None, None)
                           EXCEPT !.balance = bonus]
                 /\ request' = [request EXCEPT ![r] = q]
    BY <1>0 DEF Enter
  <2>2. q.balance = bonus /\ q.step = "entered"
    BY <2>1 DEF Asked
  <2>. QED BY <1>0, <2>1, <2>2, AskCover DEF Enter
<1>1. ASSUME NEW k \in Keys, AskCreate(r, k) PROVE CInv'
  <2>1. request[r] \in Asks \ {Idle}
    BY <1>1 DEF AskCreate, Idle, IInv, TypeOK
  <2>2. PICK q : /\ q = [request[r] EXCEPT !.step = "counted", !.key = k]
                 /\ request' = [request EXCEPT ![r] = q]
    BY <1>1 DEF AskCreate
  <2>3. q.balance = request[r].balance /\ q.step = "counted"
    BY <2>1, <2>2 DEF Asks
  <2>. QED BY <1>1, <2>1, <2>2, <2>3, AskCover DEF AskCreate
<1>2. ASSUME NEW k \in Keys, NEW p \in Jobs, AskEdit(r, k, p) PROVE CInv'
  <2>1. /\ Asked("counted", "edit", k, p, None).step = "counted"
        /\ Asked("counted", "edit", k, p, None).balance = 0
    BY DEF Asked
  <2>. QED BY <1>2, <2>1, AskCover DEF AskEdit
<1>3. ASSUME NEW j \in Jobs, AskRetry(r, j) PROVE CInv'
  <2>1. /\ Asked("passed", "generation", None, job[j].project, j).parent # None
        /\ Asked("passed", "generation", None, job[j].project, j).balance = 0
    BY DEF Asked
  <2>. QED BY <1>3, <2>1, AskCover DEF AskRetry
<1>4. ASSUME Clash(r) \/ Abort(r) PROVE CInv'
  BY <1>4, AskCover DEF Clash, Abort
<1>. QED BY <1>0, <1>1, <1>2, <1>3, <1>4, WeighCover, InsertCover DEF Handle

LEMMA LookedKept ==
  ASSUME IInv, CInv, NEW j \in Jobs,
         Look(j) \/ Start(j) \/ Park(j) \/ Resume(j) \/ Fail(j) \/ GoLive(j)
  PROVE  Looked'
<1>1. job \in [Jobs -> Rows]
  BY DEF IInv, TypeOK
<1>2. \A i \in Jobs \ {j} : job'[i] = job[i]
  BY <1>1 DEF Look, Start, Park, Resume, Fail, GoLive
<1>3. /\ job[j].saw # "nothing" => NeedsCharge(j) /\ job[j].kind = "generation"
      /\ job[j].state = "created" => ~job[j].resumed
  BY DEF CInv, Looked
<1>4. /\ job'[j].saw # "nothing" => NeedsCharge(j)' /\ job'[j].kind = "generation"
      /\ job'[j].state = "created" => ~job'[j].resumed
  <2>1. CASE Look(j)
    BY <1>1, <1>3, <2>1 DEF Look, NeedsCharge, Rows
  <2>2. CASE Start(j) \/ Fail(j)
    BY <1>1, <2>2 DEF Start, Fail, Rows
  <2>3. CASE Park(j) \/ Resume(j) \/ GoLive(j)
    BY <1>1, <1>3, <2>3 DEF Park, Resume, GoLive, NeedsCharge, Rows
  <2>. QED BY <2>1, <2>2, <2>3
<1>5. ASSUME NEW i \in Jobs
      PROVE  /\ job'[i].saw # "nothing" => NeedsCharge(i)' /\ job'[i].kind = "generation"
             /\ job'[i].state = "created" => ~job'[i].resumed
  <2>1. CASE i = j
    BY <1>4, <2>1
  <2>2. CASE i # j
    BY <1>2, <2>2 DEF CInv, Looked, NeedsCharge
  <2>. QED BY <2>1, <2>2
<1>. QED BY <1>5 DEF Looked

LEMMA LookCover ==
  ASSUME IInv, IInv', CInv, NEW j \in Jobs, Look(j)
  PROVE  CInv'
<1>1. Looked' /\ UNCHANGED <<used, bonus, refills, request>> /\ job \in [Jobs -> Rows]
  BY LookedKept DEF Look, counters, IInv, TypeOK
<1>0. Rich' = Rich /\ Coming' = Coming
  BY <1>1 DEF Rich, Coming, Paying, InFlight
<1>2. CASE used < Monthly
  <2>1. Refilled'
    BY <1>0, <1>1 DEF CInv, Refilled
  <2>. QED BY <1>1, <1>2, <2>1, CoverStep
<1>3. CASE ~(used < Monthly)
  <2>1. job' = [job EXCEPT ![j].saw = "none"]
    BY <1>3 DEF Look
  <2>2. Roomy' \subseteq Roomy /\ Unpaid' \subseteq Unpaid
    BY <1>1, <2>1 DEF Roomy, Unpaid, NeedsCharge, Rows
  <2>. QED BY <1>0, <1>1, <2>2, CalmCover
<1>. QED BY <1>2, <1>3

LEMMA RestCover ==
  ASSUME IInv, IInv', CInv, NEW j \in Jobs, Park(j) \/ Resume(j) \/ Fail(j) \/ GoLive(j)
  PROVE  CInv'
<1>1. Looked' /\ UNCHANGED <<used, bonus, refills, request>> /\ job \in [Jobs -> Rows]
  BY LookedKept DEF Park, Resume, Fail, GoLive, counters, IInv, TypeOK
<1>2. Roomy' \subseteq Roomy /\ Rich' = Rich /\ Coming' = Coming
  BY <1>1 DEF Park, Resume, Fail, GoLive, Roomy, Rich, Coming, Paying, InFlight, Rows
<1>3. Unpaid' \subseteq Unpaid
  BY <1>1 DEF Park, Resume, Fail, GoLive, Unpaid, NeedsCharge, Rows
<1>. QED BY <1>1, <1>2, <1>3, CalmCover

(* A charge takes its job out of the ones that are due; a balance that runs out  *)
(* with it ends a round.                                                       *)
LEMMA StartCover ==
  ASSUME IInv, IInv', CInv, NEW j \in Jobs, Start(j)
  PROVE  CInv'
<1>1. Looked' /\ request' = request /\ job \in [Jobs -> Rows]
  BY LookedKept DEF Start, IInv, TypeOK
<1>2. /\ job'[j].state = "active" /\ job'[j].saw = "nothing"
      /\ \A i \in Jobs \ {j} : job'[i] = job[i]
  BY <1>1 DEF Start, Rows
<1>3. /\ Roomy' \subseteq Roomy \ {j} /\ Unpaid' \subseteq Unpaid \ {j}
      /\ Rich' = Rich /\ Coming' = Coming
  BY <1>1, <1>2 DEF Roomy, Unpaid, NeedsCharge, Rich, Coming, Paying, InFlight
<1>4. CASE UNCHANGED <<used, bonus, refills>>
  BY <1>1, <1>3, <1>4, CalmCover
<1>5. Sizes
  BY Naturals DEF IInv
<1>6. CASE /\ NeedsCharge(j) /\ job[j].saw = "none" /\ bonus >= Cost
           /\ bonus' = bonus - Cost /\ UNCHANGED <<used, edits, refills>>
  <2>0. Lag' = Lag /\ Slack' = Slack /\ IInv'
    BY DEF Lag, Slack
  <2>1. Refilled'
    BY <1>3, <1>5, <1>6 DEF CInv, Refilled, Sizes
  <2>2. Due = Cardinality(Roomy) + Lag
    BY <1>6 DEF Due
  <2>3. Due' <= Due /\ Due' \in Nat
    <3>1. CASE bonus' >= Cost
      <4>1. Cardinality(Roomy') <= Cardinality(Roomy) /\ Cardinality(Roomy') \in Nat
        BY <1>3, <1>5, Bounded DEF Sizes
      <4>2. Due' = Cardinality(Roomy') + Lag
        BY <2>0, <3>1 DEF Due
      <4>. QED BY <1>5, <2>2, <4>1, <4>2 DEF Sizes
    <3>2. CASE ~(bonus' >= Cost)
      <4>1. /\ Cardinality(Unpaid') <= Cardinality(Unpaid) /\ Cardinality(Unpaid') \in Nat
            /\ Cardinality(Coming') = Cardinality(Coming)
        BY <1>3, <1>5, Bounded DEF Sizes
      <4>2. Cardinality(Unpaid) + Cardinality(Coming) <= Lag
        BY DueIsSlots DEF CInv, Seated
      <4>3. Due' = Cardinality(Unpaid') + Cardinality(Coming')
        BY <3>2 DEF Due
      <4>. QED BY <1>5, <2>2, <4>1, <4>2, <4>3 DEF Sizes
    <3>. QED BY <3>1, <3>2
  <2>4. used' = used /\ used \in Nat /\ Due \in Nat /\ Due' \in Nat /\ Due' <= Due
    BY <1>5, <1>6, <2>3 DEF Sizes
  <2>5. used' + Due' <= used + Due
    BY <2>4, Sums
  <2>. QED BY <1>1, <1>6, <2>1, <2>5, CoverStep
<1>7. CASE /\ NeedsCharge(j)
           /\ job[j].saw = "room" \/ (job[j].saw = "none" /\ bonus < Cost)
           /\ used' = used + 1 /\ UNCHANGED <<edits, bonus, refills>>
  <2>1. Refilled' /\ Lag' = Lag
    BY <1>3, <1>7 DEF CInv, Refilled, Lag, Slack
  <2>2. job[j].saw # "nothing"
    BY <1>7
  <2>3. j \in Unpaid
    BY <2>2 DEF CInv, Looked, Unpaid
  <2>4. ASSUME NEW S, NEW T, IsFiniteSet(S), T \subseteq S \ {j}, j \in S
        PROVE  Cardinality(T) + 1 <= Cardinality(S) /\ Cardinality(T) \in Nat
    <3>1. IsFiniteSet(S \ {j}) /\ Cardinality(S \ {j}) = Cardinality(S) - 1
      BY <2>4, FS_RemoveElement
    <3>2. Cardinality(T) <= Cardinality(S \ {j}) /\ Cardinality(T) \in Nat
          /\ Cardinality(S \ {j}) \in Nat /\ Cardinality(S) \in Nat
      BY <2>4, <3>1, Bounded
    <3>. QED BY <3>1, <3>2
  <2>5. CASE bonus >= Cost
    <3>1. j \in Roomy
      BY <1>5, <1>7, <2>5 DEF Roomy, Sizes
    <3>2. Cardinality(Roomy') + 1 <= Cardinality(Roomy) /\ Cardinality(Roomy') \in Nat
      <4>1. IsFiniteSet(Roomy)
        BY <1>5 DEF Sizes
      <4>. QED BY <1>3, <2>4, <3>1, <4>1
    <3>3. Due' = Cardinality(Roomy') + Lag /\ Due = Cardinality(Roomy) + Lag
      BY <1>7, <2>1, <2>5 DEF Due
    <3>4. used' + Due' <= used + Due
      BY <1>5, <1>7, <3>2, <3>3 DEF Sizes
    <3>. QED BY <1>1, <1>7, <2>1, <3>4, CoverStep
  <2>6. CASE ~(bonus >= Cost)
    <3>1. Cardinality(Unpaid') + 1 <= Cardinality(Unpaid) /\ Cardinality(Unpaid') \in Nat
      <4>1. IsFiniteSet(Unpaid)
        BY <1>5 DEF Sizes
      <4>. QED BY <1>3, <2>3, <2>4, <4>1
    <3>2. /\ Due' = Cardinality(Unpaid') + Cardinality(Coming)
          /\ Due = Cardinality(Unpaid) + Cardinality(Coming)
      BY <1>3, <1>7, <2>6 DEF Due
    <3>3. used' + Due' <= used + Due
      BY <1>5, <1>7, <3>1, <3>2 DEF Sizes
    <3>. QED BY <1>1, <1>7, <2>1, <3>3, CoverStep
  <2>. QED BY <2>5, <2>6
<1>. QED BY <1>4, <1>6, <1>7 DEF Start, Charge, counters

(* The balance and the month. *)
LEMMA BalanceCover ==
  ASSUME IInv, IInv', CInv, NEW n \in 0 .. MaxBonus, Refill(n) \/ Correct(n)
  PROVE  CInv'
<1>1. UNCHANGED <<job, used, request>> /\ bonus' = n
  BY DEF Refill, Correct
<1>2. /\ Looked' /\ Roomy' = Roomy /\ Unpaid' = Unpaid /\ Coming' = Coming /\ Rich' = Rich
      /\ Lag' = Lag
  BY <1>1 DEF CInv, Looked, Roomy, Unpaid, NeedsCharge, Coming, Paying, Rich, InFlight, Lag, Slack
<1>3. Sizes /\ Seated
  BY Naturals, DueIsSlots DEF IInv, CInv
<1>4. n \in Nat /\ bonus \in Nat /\ refills \in Nat /\ Cost \in Nat
  BY <1>3 DEF Sizes
<1>5. CASE Refill(n) /\ bonus < Cost /\ n >= Cost
  <2>1. refills' = refills + 1
    BY <1>5 DEF Refill
  <2>2. Refilled'
    BY <1>4, <2>1 DEF Refilled
  <2>3. Due = Cardinality(Unpaid) + Cardinality(Coming) /\ Due' = Cardinality(Roomy) + Lag
    BY <1>1, <1>2, <1>4, <1>5 DEF Due
  <2>4. used' + Due' <= used + Due + Lag
    BY <1>1, <1>3, <2>3 DEF Sizes, Seated
  <2>. QED BY <1>2, <2>1, <2>2, <2>4, CoverStep
<1>6. CASE refills' = refills /\ (bonus >= Cost \/ n < Cost)
  <2>1. Refilled'
    BY <1>1, <1>2, <1>4, <1>6 DEF CInv, Refilled
  <2>2. Due' <= Due /\ Due' \in Nat
    <3>1. CASE bonus >= Cost <=> n >= Cost
      BY <1>1, <1>2, <1>3, <3>1 DEF Due, Sizes
    <3>2. CASE bonus >= Cost /\ n < Cost
      <4>1. Due = Cardinality(Roomy) + Lag /\ Due' = Cardinality(Unpaid) + Cardinality(Coming)
        BY <1>1, <1>2, <1>4, <3>2 DEF Due
      <4>. QED BY <1>3, <4>1 DEF Sizes, Seated
    <3>. QED BY <1>4, <1>6, <3>1, <3>2
  <2>3. used' + Due' <= used + Due
    BY <1>1, <1>3, <2>2 DEF Sizes
  <2>. QED BY <1>2, <1>6, <2>1, <2>3, CoverStep
<1>7. \/ Refill(n) /\ bonus < Cost /\ n >= Cost
      \/ refills' = refills /\ (bonus >= Cost \/ n < Cost)
  <2>1. CASE Refill(n)
    BY <1>4, <2>1 DEF Refill
  <2>2. CASE Correct(n)
    <3>1. refills' = refills /\ n \in 0 .. bonus - 1
      BY <2>2 DEF Correct
    <3>. QED BY <1>4, <3>1
  <2>. QED BY <2>1, <2>2
<1>. QED BY <1>5, <1>6, <1>7

LEMMA MonthCover == ASSUME IInv, IInv', CInv, NewMonth PROVE CInv'
<1>1. UNCHANGED <<job, request, bonus>> /\ used' = 0
      /\ refills' = IF bonus >= Cost \/ Rich # {} THEN 1 ELSE 0
  BY DEF NewMonth
<1>2. Looked' /\ Rich' = Rich
  BY <1>1 DEF CInv, Looked, NeedsCharge, Rich
<1>3. Refilled' /\ used' < Monthly
  BY <1>1, <1>2 DEF Refilled
<1>. QED BY <1>2, <1>3, CoverStep

(* Rows that are removed charge nothing any more. *)
LEMMA PurgeCover ==
  ASSUME IInv, IInv', CInv, NEW p \in Jobs, Purge(p)
  PROVE  CInv'
<1>1. UNCHANGED <<used, bonus, refills, request>> /\ job \in [Jobs -> Rows]
      /\ \A i \in Jobs : job'[i] = job[i] \/ job'[i] = Unborn
  BY DEF Purge, counters, IInv, TypeOK
<1>2. Unborn.saw = "nothing" /\ Unborn.state # "created"
  BY DEF Unborn
<1>3. Looked'
  <2>1. ASSUME NEW i \in Jobs
        PROVE  /\ job'[i].saw # "nothing" => NeedsCharge(i)' /\ job'[i].kind = "generation"
               /\ job'[i].state = "created" => ~job'[i].resumed
    BY <1>1, <1>2 DEF CInv, Looked, NeedsCharge
  <2>. QED BY <2>1 DEF Looked
<1>4. Roomy' \subseteq Roomy /\ Unpaid' \subseteq Unpaid
  BY <1>1, <1>2 DEF Roomy, Unpaid, NeedsCharge
<1>5. Coming' = Coming /\ Rich' = Rich
  BY <1>1 DEF Coming, Paying, Rich, InFlight
<1>. QED BY <1>1, <1>3, <1>4, <1>5, CalmCover

LEMMA RollbackCover ==
  ASSUME IInv, IInv', CInv, NEW p \in Jobs, NEW j \in Jobs, Rollback(p, j)
  PROVE  CInv'
<1>1. PICK row : /\ row = [Unborn EXCEPT !.state = "created", !.kind = "rollback",
                                         !.project = p]
                 /\ job' = [job EXCEPT ![j] = row]
  BY DEF Rollback
<1>2. row.kind = "rollback" /\ row.saw = "nothing" /\ ~row.resumed
  BY <1>1 DEF Unborn
<1>3. UNCHANGED <<used, bonus, refills, request>> /\ job \in [Jobs -> Rows]
  BY DEF Rollback, counters, IInv, TypeOK
<1>4. job'[j] = row /\ \A i \in Jobs \ {j} : job'[i] = job[i]
  BY <1>1, <1>3
<1>5. Looked'
  <2>1. ASSUME NEW i \in Jobs
        PROVE  /\ job'[i].saw # "nothing" => NeedsCharge(i)' /\ job'[i].kind = "generation"
               /\ job'[i].state = "created" => ~job'[i].resumed
    <3>1. CASE i = j
      BY <1>2, <1>4, <3>1
    <3>2. CASE i # j
      BY <1>4, <3>2 DEF CInv, Looked, NeedsCharge
    <3>. QED BY <3>1, <3>2
  <2>. QED BY <2>1 DEF Looked
<1>6. /\ Roomy' \subseteq Roomy /\ Unpaid' \subseteq Unpaid
      /\ Coming' = Coming /\ Rich' = Rich
  BY <1>2, <1>3, <1>4 DEF Roomy, Unpaid, NeedsCharge, Coming, Paying, Rich, InFlight
<1>. QED BY <1>3, <1>5, <1>6, CalmCover

LEMMA CoverKept == IInv /\ CInv /\ [Next]_vars => CInv'
<1>. SUFFICES ASSUME IInv, CInv, [Next]_vars PROVE CInv'
  OBVIOUS
<1>1. IInv'
  BY Inductive
<1>2. ASSUME UNCHANGED <<job, used, bonus, refills, request>> PROVE CInv'
  <2>1. Coming' = Coming /\ Rich' = Rich
    BY <1>2 DEF Coming, Paying, Rich, InFlight
  <2>. QED BY <1>1, <1>2, <2>1, CalmRequest
<1>3. ASSUME NEW p \in Jobs, Delete(p) PROVE CInv'
  BY <1>2, <1>3 DEF Delete, counters
<1>4. CASE UNCHANGED vars
  BY <1>2, <1>4 DEF vars
<1>. QED BY <1>1, <1>3, <1>4, HandleCover, LookCover, StartCover, RestCover, BalanceCover,
            MonthCover, RollbackCover, PurgeCover DEF Next

LEMMA InitCover == Init => CInv
<1>. SUFFICES ASSUME Init PROVE CInv
  OBVIOUS
<1>1. TypeOK
  BY Initially DEF IInv
<1>2. Rich = {} /\ Unpaid = {} /\ Paying = {}
  BY DEF Init, Unborn, Unpaid, NeedsCharge, Paying, Rich, InFlight, Idle
<1>3. ~(bonus >= Cost)
  BY DEF Init
<1>4. Looked /\ Refilled
  BY <1>2, <1>3 DEF Init, Unborn, Looked, Refilled
<1>5. Due = 0 /\ used = 0 /\ refills = 0
  BY <1>2, <1>3, FS_EmptySet DEF Init, Due, Coming
<1>6. 0 * Lag = 0 /\ Slack \in Nat
  BY <1>1, Naturals DEF Sizes
<1>7. used + Due < Monthly + Slack + refills * Lag
  BY <1>5, <1>6
<1>. QED BY <1>4, <1>7 DEF CInv, Covered

--------------------------------------------------------------------------------
(* Theorems                                                                    *)

(* Every row, request and counter is of its type. *)
THEOREM TypeCorrect == Spec => []TypeOK
<1>1. IInv => TypeOK
  BY DEF IInv
<1>. QED BY Initially, Inductive, <1>1, PTL DEF Spec

(* However many requests race through enforce_quota_gate, the jobs they start   *)
(* exceed the cap by less than the requests handled at a time.                 *)
THEOREM CapHolds == Spec => []SlotsBounded
<1>1. IInv => SlotsBounded
  BY DEF IInv
<1>. QED BY Initially, Inductive, <1>1, PTL DEF Spec

(* The free retries of a project exceed the limit of retry_failed_job by less   *)
(* than the requests handled at a time.                                        *)
THEOREM RetriesAreLimited == Spec => []RetriesBounded
<1>1. IInv => RetriesBounded
  BY DEF IInv
<1>. QED BY Initially, Inductive, <1>1, PTL DEF Spec

(* However the requests, the charges, refills and corrections interleave, and     *)
(* however old the balance is that a request was authenticated with, the month's *)
(* counter passes the quota by less than the slots, and by no more than the       *)
(* slots and the requests for every balance there was to spend (quota_gate       *)
(* step 4, count_generation_start).                                            *)
THEOREM StartsArePaid == Spec => []StartsCovered
<1>1. CInv /\ TypeOK => StartsCovered
  <2>. SUFFICES ASSUME CInv, TypeOK PROVE StartsCovered
    OBVIOUS
  <2>1. used + Due < Monthly + Slack + refills * Lag /\ Sizes
    BY Naturals DEF CInv, Covered
  <2>2. CASE bonus >= Cost
    <3>1. Due = Cardinality(Roomy) + Lag /\ refills >= 1
      BY <2>2 DEF Due, CInv, Refilled
    <3>2. PICK k \in Nat : refills = k + 1
      <4>1. refills - 1 \in Nat /\ refills = (refills - 1) + 1
        BY <2>1, <3>1 DEF Sizes
      <4>. QED BY <4>1
    <3>3. \A m, n \in Nat : m * n \in Nat /\ (m + 1) * n = m * n + n
      OBVIOUS
    <3>4. PICK t \in Nat : t = k * Lag
      BY <2>1, <3>3 DEF Sizes
    <3>5. refills * Lag = t + Lag
      BY <2>1, <3>2, <3>3, <3>4 DEF Sizes
    <3>6. used < Monthly + Slack + t
      BY <2>1, <3>1, <3>5 DEF Sizes
    <3>7. (refills - 1) * Lag = t
      <4>1. refills - 1 = k
        BY <3>2
      <4>. QED BY <3>4, <4>1
    <3>. QED BY <2>2, <3>6, <3>7 DEF StartsCovered
  <2>3. CASE ~(bonus >= Cost)
    <3>1. Due = Cardinality(Unpaid) + Cardinality(Coming)
      BY <2>3 DEF Due
    <3>2. used + Due = used + Cardinality(Unpaid) + Cardinality(Coming)
      BY <2>1, <3>1 DEF Sizes
    <3>. QED BY <2>1, <2>3, <3>2 DEF StartsCovered
  <2>. QED BY <2>2, <2>3
<1>2. IInv => TypeOK
  BY DEF IInv
<1>. QED BY Initially, Inductive, InitCover, CoverKept, <1>1, <1>2, PTL DEF Spec
================================================================================
