--------------------------- MODULE TokenLedgerProofs ---------------------------
(******************************************************************************)
(* For any purchases, users, requests at a time and repeated reports: the     *)
(* four channels implement Ledger, so that a balance is what the ledger says; *)
(* an answer tells the truth; and no report stops before its purchase counts. *)
(******************************************************************************)
EXTENDS TokenLedger, FiniteSetTheorems, TLAPS

USE TokenLedgerAssumption

(* A key is stored with its grant, unless it is one that has none. *)
KeysHaveGrants ==
  /\ \A p \in Purchases, u \in Users : <<p, u>> \in credits => p \in recorded
  /\ \A p \in recorded \ Ungranted : \E u \in Users : <<p, u>> \in credits
  /\ acked \subseteq recorded

(* What a request will answer is recorded by itself or has been before. *)
RequestsAreSound ==
  \A w \in Workers :
    /\ worker[w].pc = "listed" =>
         /\ worker[w].shown = worker[w].batch
         /\ Channel[worker[w].about] = "cloudpayments"
    /\ worker[w].pc = "ready" =>
         /\ worker[w].shown \subseteq worker[w].batch \cup recorded
         /\ Channel[worker[w].about] # "cloudpayments" =>
              worker[w].batch = {worker[w].about}

IInv == TypeOK /\ KeysHaveGrants /\ RequestsAreSound

LEMMA Initially == Init => IInv
  BY DEF Init, IInv, TypeOK, KeysHaveGrants, RequestsAreSound, Requests, Idle

LEMMA RequestTypes ==
  ASSUME TypeOK, NEW w \in Workers, worker[w].pc \in {"listed", "ready"}
  PROVE  /\ worker[w] # Idle
         /\ worker[w].about \in Purchases
         /\ worker[w].user \in Users
         /\ worker[w].shown \subseteq Purchases
         /\ worker[w].batch \subseteq Purchases
         /\ worker[w] = [pc |-> worker[w].pc, about |-> worker[w].about, user |-> worker[w].user,
                         shown |-> worker[w].shown, batch |-> worker[w].batch]
  BY DEF TypeOK, Requests, Idle

--------------------------------------------------------------------------------
LEMMA OutsideStep ==
  ASSUME IInv, NEW p \in Purchases, Show(p) \/ Age(p)
  PROVE  IInv'
<1>1. TypeOK'
  BY DEF IInv, TypeOK, Show, Age, books
<1>2. UNCHANGED <<credits, recorded, acked, worker>>
  BY DEF Show, Age, books
<1>. QED BY <1>1, <1>2 DEF IInv, KeysHaveGrants, RequestsAreSound

(* A request that begins, or is answered at once. *)
LEMMA StartStep ==
  ASSUME IInv, NEW p \in Purchases, NEW w \in Workers, Start(w, p)
  PROVE  IInv'
<1>1. UNCHANGED <<books, purchases>>
  BY DEF Start, LookUp, List, Present
<1>2. PICK u \in Users :
        \/ worker' = worker /\ pending' = pending \ {p}
             /\ (acked' = acked \/ (p \in recorded /\ acked' = acked \cup {p}))
        \/ /\ UNCHANGED <<pending, acked>>
           /\ \/ worker' = [worker EXCEPT ![w] = Ready(p, u)]
              \/ /\ Channel[p] = "cloudpayments"
                 /\ worker' = [worker EXCEPT ![w] = Listing(p, Creditable(Buyer[p]))]
  BY DEF Start, LookUp, List, Present, Answer
<1>3. CASE worker' = worker
  <2>1. TypeOK'
    BY <1>1, <1>2, <1>3 DEF IInv, TypeOK, books, purchases, Ready, Listing
  <2>2. KeysHaveGrants' /\ RequestsAreSound'
    BY <1>1, <1>2, <1>3 DEF IInv, TypeOK, KeysHaveGrants, RequestsAreSound, books
  <2>. QED BY <2>1, <2>2 DEF IInv
<1>4. CASE worker' # worker
  <2>0. UNCHANGED <<pending, acked>>
    BY <1>2, <1>4
  <2>1. PICK r : /\ worker' = [worker EXCEPT ![w] = r]
                 /\ r \in Requests
                 /\ r.pc = "listed" =>
                      r.shown = r.batch /\ Channel[r.about] = "cloudpayments"
                 /\ r.pc = "ready" => r.shown = {p} /\ r.batch = {p} /\ r.about = p
    <3>1. Ready(p, u) \in Requests /\ Listing(p, Creditable(Buyer[p])) \in Requests
      BY DEF Ready, Listing, Requests, Creditable, IInv, TypeOK
    <3>2. CASE worker' = [worker EXCEPT ![w] = Ready(p, u)]
      <4>1. /\ Ready(p, u).pc = "ready" /\ Ready(p, u).shown = {p}
            /\ Ready(p, u).batch = {p} /\ Ready(p, u).about = p
        BY DEF Ready
      <4>. QED BY <3>1, <3>2, <4>1
    <3>3. CASE /\ Channel[p] = "cloudpayments"
               /\ worker' = [worker EXCEPT ![w] = Listing(p, Creditable(Buyer[p]))]
      <4> DEFINE l == Listing(p, Creditable(Buyer[p]))
      <4>1. l.pc = "listed" /\ l.shown = l.batch /\ l.about = p
        BY DEF Listing
      <4>2. l \in Requests
        BY <3>1
      <4> HIDE DEF l
      <4>3. worker' = [worker EXCEPT ![w] = l]
        BY <3>3 DEF l
      <4>. QED BY <3>3, <4>1, <4>2, <4>3
    <3>. QED BY <1>2, <1>4, <3>2, <3>3
  <2>2. TypeOK'
    BY <1>1, <2>0, <2>1 DEF IInv, TypeOK, books, purchases
  <2>3. KeysHaveGrants'
    BY <1>1, <2>0 DEF IInv, KeysHaveGrants, books
  <2>4. RequestsAreSound'
    BY <1>1, <2>1 DEF IInv, TypeOK, RequestsAreSound, books
  <2>. QED BY <2>2, <2>3, <2>4 DEF IInv
<1>. QED BY <1>3, <1>4

LEMMA CheckStep ==
  ASSUME IInv, NEW w \in Workers, Check(w)
  PROVE  IInv'
<1>0. /\ worker[w].about \in Purchases /\ worker[w].shown \subseteq Purchases
      /\ worker[w].batch \subseteq Purchases /\ worker[w].shown = worker[w].batch
  BY RequestTypes DEF IInv, Check, RequestsAreSound
<1>1. UNCHANGED <<books, purchases>> /\ worker[w].pc = "listed"
  BY DEF Check
<1>2. CASE worker[w].batch \ recorded = {}
  <2>1. /\ pending' = pending \ {worker[w].about} /\ acked' = acked \cup worker[w].shown
        /\ worker' = [worker EXCEPT ![w] = Idle]
    BY <1>2 DEF Check, Answer
  <2>2. TypeOK'
    BY <1>0, <1>1, <2>1 DEF IInv, TypeOK, Requests, books, purchases
  <2>3. KeysHaveGrants'
    BY <1>0, <1>1, <1>2, <2>1 DEF IInv, KeysHaveGrants, books
  <2>4. RequestsAreSound'
    BY <1>1, <2>1 DEF IInv, TypeOK, RequestsAreSound, books, Idle
  <2>. QED BY <2>2, <2>3, <2>4 DEF IInv
<1>3. CASE worker[w].batch \ recorded # {}
  <2>1. /\ UNCHANGED <<pending, acked>>
        /\ worker' = [worker EXCEPT ![w].pc = "ready", ![w].batch = worker[w].batch \ recorded]
    BY <1>3 DEF Check
  <2>2. PICK r : /\ worker' = [worker EXCEPT ![w] = r]
                 /\ r = [worker[w] EXCEPT !.pc = "ready", !.batch = worker[w].batch \ recorded]
    BY <2>1
  <2>3. /\ r = [pc |-> "ready", about |-> worker[w].about, user |-> worker[w].user,
                shown |-> worker[w].shown, batch |-> worker[w].batch \ recorded]
        /\ worker[w].user \in Users
    <3>1. worker[w].user \in Users
      BY <1>1, RequestTypes DEF IInv
    <3>2. worker[w] = [pc |-> worker[w].pc, about |-> worker[w].about, user |-> worker[w].user,
                       shown |-> worker[w].shown, batch |-> worker[w].batch]
      BY <1>1, RequestTypes DEF IInv
    <3>3. /\ r.pc = "ready" /\ r.batch = worker[w].batch \ recorded
          /\ r = [pc |-> r.pc, about |-> worker[w].about, user |-> worker[w].user,
                  shown |-> worker[w].shown, batch |-> r.batch]
      BY <2>2, <3>2
    <3>. QED BY <3>1, <3>3
  <2>4. r \in Requests
    <3>1. worker[w].batch \ recorded \subseteq Purchases
      BY <1>0
    <3>. QED BY <1>0, <2>3, <3>1 DEF Requests
  <2>5. TypeOK'
    BY <1>1, <2>1, <2>2, <2>4 DEF IInv, TypeOK, books, purchases
  <2>6. KeysHaveGrants'
    BY <1>1, <2>1 DEF IInv, KeysHaveGrants, books
  <2>7. Channel[r.about] = "cloudpayments"
    BY <1>1, <2>3 DEF IInv, RequestsAreSound
  <2>8. RequestsAreSound'
    BY <1>0, <1>1, <2>2, <2>3, <2>7 DEF IInv, TypeOK, RequestsAreSound, books
  <2>. QED BY <2>5, <2>6, <2>8 DEF IInv
<1>. QED BY <1>2, <1>3

LEMMA CommitStep ==
  ASSUME IInv, NEW w \in Workers, Commit(w)
  PROVE  IInv'
<1>0. /\ worker[w].about \in Purchases /\ worker[w].user \in Users
      /\ worker[w].shown \subseteq worker[w].batch \cup recorded
      /\ worker[w].batch \subseteq Purchases
  BY RequestTypes DEF IInv, Commit, RequestsAreSound
<1>1. PICK u, packs :
        /\ u = worker[w].user /\ packs = worker[w].batch \ Ungranted
        /\ recorded' = recorded \cup worker[w].batch
        /\ credits' = credits \cup (packs \X {u})
        /\ balance' = [balance EXCEPT ![u] = @ + Cardinality(packs)]
        /\ pending' = pending \ {worker[w].about}
        /\ acked' = acked \cup (worker[w].shown \ Ignored)
        /\ worker' = [worker EXCEPT ![w] = Idle]
        /\ UNCHANGED <<other, purchases>>
  BY DEF Commit, Answer
<1>2. Cardinality(packs) \in Nat
  BY <1>0, <1>1, FS_Subset, FS_CardinalityType
<1>3. TypeOK'
  <2>1. balance' \in [Users -> Nat]
    BY <1>0, <1>1, <1>2 DEF IInv, TypeOK
  <2>2. credits' \subseteq Purchases \X Users
    BY <1>0, <1>1 DEF IInv, TypeOK
  <2>3. worker' \in [Workers -> Requests]
    BY <1>1 DEF IInv, TypeOK, Requests
  <2>4. recorded' \subseteq Purchases /\ pending' \subseteq Purchases
          /\ acked' \subseteq Purchases
    BY <1>0, <1>1 DEF IInv, TypeOK
  <2>. QED BY <1>1, <2>1, <2>2, <2>3, <2>4 DEF IInv, TypeOK, purchases
<1>4. KeysHaveGrants'
  <2>1. \A p \in Purchases, v \in Users : <<p, v>> \in credits' => p \in recorded'
    BY <1>1 DEF IInv, KeysHaveGrants
  <2>2. ASSUME NEW p \in recorded' \ Ungranted
        PROVE  \E v \in Users : <<p, v>> \in credits'
    <3>1. CASE p \in recorded
      BY <1>1, <3>1 DEF IInv, KeysHaveGrants
    <3>2. CASE p \in worker[w].batch
      BY <1>0, <1>1, <3>2
    <3>. QED BY <1>1, <3>1, <3>2
  <2>3. acked' \subseteq recorded'
    BY <1>0, <1>1 DEF IInv, KeysHaveGrants
  <2>. QED BY <2>1, <2>2, <2>3 DEF KeysHaveGrants
<1>5. RequestsAreSound'
  BY <1>1 DEF IInv, TypeOK, RequestsAreSound, Idle
<1>. QED BY <1>3, <1>4, <1>5 DEF IInv

LEMMA EndStep ==
  ASSUME IInv, NEW w \in Workers, RollBack(w) \/ Abort(w)
  PROVE  IInv'
<1>1. UNCHANGED <<books, purchases>> /\ worker' = [worker EXCEPT ![w] = Idle]
  BY DEF RollBack, Abort
<1>2. \/ UNCHANGED <<pending, acked>>
      \/ \E p \in recorded : pending' = pending \ {p} /\ acked' = acked \cup {p}
  <2>1. CASE Abort(w)
    BY <2>1 DEF Abort
  <2>2. CASE RollBack(w) /\ Channel[worker[w].about] = "cloudpayments"
    BY <2>2 DEF RollBack
  <2>3. CASE RollBack(w) /\ Channel[worker[w].about] # "cloudpayments"
    <3>1. worker[w].about \in recorded
      BY <2>3 DEF RollBack, Clash, IInv, RequestsAreSound
    <3>. QED BY <2>3, <3>1 DEF RollBack, Answer
  <2>. QED BY <2>1, <2>2, <2>3
<1>3. TypeOK'
  BY <1>1, <1>2 DEF IInv, TypeOK, Requests, books, purchases
<1>4. KeysHaveGrants'
  BY <1>1, <1>2 DEF IInv, KeysHaveGrants, books
<1>5. RequestsAreSound'
  BY <1>1 DEF IInv, TypeOK, RequestsAreSound, Idle, books
<1>. QED BY <1>3, <1>4, <1>5 DEF IInv

LEMMA ChangeStep ==
  ASSUME IInv, NEW u \in Users, NEW d \in Int, Change(u, d)
  PROVE  IInv'
<1>1. TypeOK'
  BY DEF IInv, TypeOK, Change, purchases
<1>2. UNCHANGED <<credits, recorded, acked, worker>>
  BY DEF Change
<1>. QED BY <1>1, <1>2 DEF IInv, KeysHaveGrants, RequestsAreSound

LEMMA Inductive == IInv /\ [Next]_vars => IInv'
<1> SUFFICES ASSUME IInv, [Next]_vars PROVE IInv'
  OBVIOUS
<1>1. CASE \E p \in Purchases : Show(p) \/ Age(p)
  BY <1>1, OutsideStep
<1>2. ASSUME NEW w \in Workers, Request(w) PROVE IInv'
  BY <1>2, StartStep, CheckStep, CommitStep, EndStep DEF Request
<1>3. ASSUME NEW u \in Users, Correct(u) \/ Charge(u) PROVE IInv'
  BY <1>3, ChangeStep DEF Correct, Charge
<1>4. CASE UNCHANGED vars
  BY <1>4 DEF vars, IInv, TypeOK, KeysHaveGrants, RequestsAreSound
<1>. QED BY <1>1, <1>2, <1>3, <1>4 DEF Next

LEMMA Invariance == Spec => []IInv
  BY Initially, Inductive, PTL DEF Spec

(* Type correctness for any number of users, purchases and requests.           *)
THEOREM TypeCorrect == Spec => []TypeOK
<1>1. IInv => TypeOK
  BY DEF IInv
<1>. QED BY Invariance, <1>1, PTL

(* `applied` and `duplicate` are answered for what is stored, and credited unless *)
(* its product is unknown or its event named nobody.                            *)
THEOREM AnswersAreTrue == Spec => []AcknowledgedIsCredited
<1>1. IInv => AcknowledgedIsCredited
  BY DEF IInv, KeysHaveGrants, AcknowledgedIsCredited
<1>. QED BY Invariance, <1>1, PTL

--------------------------------------------------------------------------------
(* An instance has a Cardinality of its own. *)
LEMMA SameCardinality == \A S : Abstract!Cardinality(S) = Cardinality(S)
  BY Zenon DEF Abstract!Cardinality, Cardinality

LEMMA StepImplements == IInv /\ [Next]_vars => [Abstract!Next]_(Abstract!vars)
<1> SUFFICES ASSUME IInv, Next PROVE [Abstract!Next]_(Abstract!vars)
  BY DEF vars, Abstract!vars
<1>1. ASSUME NEW w \in Workers, Commit(w) PROVE Abstract!Next
  <2>1. worker[w].user \in Users /\ worker[w].batch \ Ungranted \in SUBSET Purchases
    BY <1>1, RequestTypes DEF IInv, Commit
  <2>2. worker[w].batch \ Ungranted \subseteq Abstract!Fresh
    BY <1>1, <2>1 DEF Commit, Clash, IInv, KeysHaveGrants, Abstract!Fresh
  <2>3. Abstract!Credit(worker[w].user, worker[w].batch \ Ungranted)
    BY <1>1, <2>2, SameCardinality DEF Commit, Abstract!Credit
  <2>. QED BY <2>1, <2>2, <2>3 DEF Abstract!Next
<1>2. ASSUME NEW u \in Users, Correct(u) \/ Charge(u) PROVE Abstract!Next
  <2>1. PICK d \in {1, -1, -Cost} : Change(u, d)
    <3>1. CASE Correct(u)
      BY <3>1 DEF Correct
    <3>2. CASE Charge(u)
      BY <3>2 DEF Charge
    <3>. QED BY <1>2, <3>1, <3>2
  <2>2. Abstract!Change(u, d)
    BY <2>1 DEF Change, Abstract!Change
  <2>. QED BY <2>2 DEF Abstract!Next
<1>3. ASSUME NEW w \in Workers, Request(w), ~Commit(w) PROVE UNCHANGED books
  BY <1>3 DEF Request, Start, LookUp, Present, List, Check, RollBack, Abort
<1>4. ASSUME NEW p \in Purchases, Show(p) \/ Age(p) PROVE UNCHANGED books
  BY <1>4 DEF Show, Age
<1>. QED BY <1>1, <1>2, <1>3, <1>4 DEF Next, books, Abstract!vars

(* The channels, racing and repeating, implement the ledger.                   *)
THEOREM ChannelsImplementLedger == Spec => ImplementsLedger
<1>1. Init => Abstract!Init
  BY DEF Init, Abstract!Init
<1>. QED BY Invariance, StepImplements, <1>1, PTL DEF Spec, ImplementsLedger, Abstract!Spec

LEMMA ReportStep == IInv /\ [Next]_vars => [ReportStaysStep]_vars
<1> SUFFICES ASSUME IInv, Next, NEW p \in Purchases, Reported(p), p \notin pending',
                    p \notin old, p \notin Unknown \cap Of("storekit"),
                    p \notin Nameless \cap Of("cloudpayments")
             PROVE  p \in recorded' \cap Ungranted \/ \E u \in Users : <<p, u>> \in credits'
  BY DEF ReportStaysStep, vars, Reported
<1>0. p \in recorded => p \in recorded' \cap Ungranted \/ \E u \in Users : <<p, u>> \in credits'
  <2>1. p \in recorded => p \in Ungranted \/ \E u \in Users : <<p, u>> \in credits
    BY DEF IInv, KeysHaveGrants
  <2>2. credits \subseteq credits' /\ recorded \subseteq recorded'
    <3>1. CASE UNCHANGED <<credits, recorded>>
      BY <3>1
    <3>2. CASE \E w \in Workers : Commit(w)
      BY <3>2 DEF Commit
    <3>3. UNCHANGED <<credits, recorded>> \/ \E w \in Workers : Commit(w)
      BY DEF Next, Show, Age, books, Request, Start, LookUp, Present, List, Check, RollBack,
             Abort, Correct, Charge, Change
    <3>. QED BY <3>1, <3>2, <3>3
  <2>. QED BY <2>1, <2>2
<1>1. PICK w \in Workers : Request(w) /\ ~Abort(w)
  BY DEF Next, Show, Age, Correct, Charge, Change, Reported, Request, Abort
<1>2. ASSUME NEW q \in Purchases, Start(w, q) PROVE p \in recorded
  <2>1. q = p
    BY <1>2 DEF Start, LookUp, Present, List, Answer, Reported
  <2>2. CASE LookUp(w, p)
    BY <2>2 DEF LookUp, Answer, Reported
  <2>3. CASE List(w, p)
    BY <2>3 DEF List, Creditable, Answer, Reported, Of
  <2>4. ASSUME NEW u \in Users, Present(w, p, u) PROVE FALSE
    BY <2>4 DEF Present, Answer, Reported, Of
  <2>. QED BY <1>2, <2>1, <2>2, <2>3, <2>4 DEF Start
<1>3. ASSUME Check(w) PROVE p \in recorded
  <2>1. worker[w].batch \ recorded = {} /\ p = worker[w].about
    BY <1>3 DEF Check, Answer, Reported
  <2>2. About(w, p) /\ worker[w].shown = worker[w].batch /\ Channel[p] = "cloudpayments"
    BY <1>3, <2>1, RequestTypes DEF About, Check, IInv, RequestsAreSound
  <2>. QED BY <2>1, <2>2 DEF Reported
<1>4. ASSUME Commit(w)
      PROVE  p \in recorded' \cap Ungranted \/ \E u \in Users : <<p, u>> \in credits'
  <2>1. p = worker[w].about /\ worker[w].user \in Users
    BY <1>4, RequestTypes DEF Commit, Answer, Reported, IInv
  <2>2. p \in worker[w].batch \cup recorded
    <3>1. CASE Channel[p] = "cloudpayments"
      <4>1. About(w, p)
        BY <1>4, <2>1, RequestTypes DEF About, Commit, IInv
      <4>. QED BY <1>4, <3>1, <4>1 DEF Reported, Commit, IInv, RequestsAreSound
    <3>2. CASE Channel[p] # "cloudpayments"
      BY <1>4, <2>1, <3>2 DEF Commit, IInv, RequestsAreSound
    <3>. QED BY <3>1, <3>2
  <2>3. CASE p \in worker[w].batch
    BY <1>4, <2>1, <2>3 DEF Commit
  <2>. QED BY <1>0, <2>2, <2>3
<1>5. ASSUME RollBack(w) PROVE p \in recorded
  <2>1. p = worker[w].about /\ Channel[p] # "cloudpayments"
    BY <1>5 DEF RollBack, Answer, Reported
  <2>. QED BY <1>5, <2>1 DEF RollBack, Clash, IInv, RequestsAreSound
<1>. QED BY <1>0, <1>1, <1>2, <1>3, <1>4, <1>5 DEF Request

(* A report is repeated until its purchase is credited, or stored without a      *)
(* grant, but for the reports that a channel drops for good.                    *)
THEOREM ReportsStay == Spec => ReportStays
  BY Invariance, ReportStep, PTL DEF Spec, ReportStays

--------------------------------------------------------------------------------
(* What follows from implementing Ledger: each of its steps keeps the books.     *)

Books ==
  /\ balance \in [Users -> Int]
  /\ credits \subseteq Purchases \X Users
  /\ other \in [Users -> Int]
  /\ Abstract!BalanceIsLedger /\ Abstract!CreditedOnce

(* The packs of a user in a set of grants.                                      *)
Packs(set, u) == Abstract!CreditsOf(set, u)

LEMMA PacksCounted ==
  ASSUME NEW set, NEW u
  PROVE  /\ IsFiniteSet(Packs(set, u))
         /\ Cardinality(Packs(set, u)) \in Nat
  BY FS_Subset, FS_CardinalityType DEF Packs, Abstract!CreditsOf

(* A batch of new purchases adds its size to the packs of its user, and          *)
(* nothing to those of others.                                                  *)
LEMMA CreditCounts ==
  ASSUME credits \subseteq Purchases \X Users, NEW u \in Users,
         NEW batch \in SUBSET Purchases, batch \subseteq Abstract!Fresh,
         NEW v \in Users, NEW new, new = credits \cup (batch \X {u})
  PROVE  /\ v # u => Packs(new, v) = Packs(credits, v)
         /\ v = u => Cardinality(Packs(new, v))
                       = Cardinality(Packs(credits, v)) + Cardinality(batch)
         /\ Cardinality(batch) \in Nat
<1>1. v # u => Packs(new, v) = Packs(credits, v)
  BY DEF Packs, Abstract!CreditsOf
<1>2. Packs(new, u) = Packs(credits, u) \cup batch
  BY DEF Packs, Abstract!CreditsOf
<1>3. Packs(credits, u) \cap batch = {}
  BY DEF Packs, Abstract!CreditsOf, Abstract!Fresh
<1>4. IsFiniteSet(Packs(credits, u)) /\ IsFiniteSet(batch)
  BY PacksCounted, FS_Subset
<1>5. Cardinality(Packs(credits, u) \cap batch) = 0
  BY <1>3, FS_EmptySet
<1>6. Cardinality(batch) \in Nat /\ Cardinality(Packs(credits, u)) \in Nat
  BY <1>4, FS_CardinalityType
<1>7. Cardinality(Packs(new, u)) = Cardinality(Packs(credits, u)) + Cardinality(batch)
  <2>1. Cardinality(Packs(credits, u) \cup batch)
          = Cardinality(Packs(credits, u)) + Cardinality(batch)
              - Cardinality(Packs(credits, u) \cap batch)
    BY <1>4, FS_Union
  <2>2. Cardinality(Packs(new, u)) = Cardinality(Packs(credits, u) \cup batch)
    BY <1>2
  <2>3. \A a, b, n \in Nat : \A c : c = 0 => a + b - c = a + b
    OBVIOUS
  <2>. QED BY <2>1, <2>2, <2>3, <1>5, <1>6
<1>. QED BY <1>1, <1>6, <1>7

LEMMA BooksInitially == Init => Books
<1> SUFFICES ASSUME Init PROVE Books
  OBVIOUS
<1>1. \A u \in Users : Cardinality(Packs(credits, u)) = 0
  <2>1. \A u \in Users : Packs(credits, u) = {}
    BY DEF Init, Packs, Abstract!CreditsOf
  <2>. QED BY <2>1, FS_EmptySet
<1>2. Abstract!BalanceIsLedger
  BY <1>1, SameCardinality DEF Init, Packs, Abstract!BalanceIsLedger
<1>. QED BY <1>2 DEF Init, Books, Abstract!CreditedOnce

LEMMA BooksOfCredit ==
  ASSUME Books, NEW u \in Users, NEW batch \in SUBSET Purchases, batch \subseteq Abstract!Fresh,
         Abstract!Credit(u, batch)
  PROVE  Books'
<1>0. /\ batch \subseteq Abstract!Fresh
      /\ credits' = credits \cup (batch \X {u})
      /\ balance' = [balance EXCEPT ![u] = @ + Cardinality(batch)]
      /\ UNCHANGED other
  BY SameCardinality DEF Abstract!Credit
<1>1. \A v \in Users :
        /\ v # u => Packs(credits', v) = Packs(credits, v)
        /\ v = u => Cardinality(Packs(credits', v))
                      = Cardinality(Packs(credits, v)) + Cardinality(batch)
  BY <1>0, CreditCounts DEF Books
<1>2. Cardinality(batch) \in Nat
  BY FS_Subset, FS_CardinalityType
<1>3. /\ balance' \in [Users -> Int] /\ other' \in [Users -> Int]
      /\ credits' \subseteq Purchases \X Users
  BY <1>0, <1>2 DEF Books
<1>4. ASSUME NEW v \in Users PROVE balance'[v] = Cardinality(Packs(credits', v)) + other'[v]
  <2>1. balance[v] = Cardinality(Packs(credits, v)) + other[v]
    BY SameCardinality DEF Books, Packs, Abstract!BalanceIsLedger
  <2>2. other[v] \in Int /\ Cardinality(Packs(credits, v)) \in Nat
    BY PacksCounted DEF Books
  <2>3. CASE v = u
    <3>1. balance'[v] = balance[v] + Cardinality(batch) /\ other'[v] = other[v]
      BY <1>0, <2>3 DEF Books
    <3>. QED BY <1>1, <1>2, <2>1, <2>2, <2>3, <3>1
  <2>4. CASE v # u
    BY <1>0, <1>1, <2>1, <2>4 DEF Books
  <2>. QED BY <2>3, <2>4
<1>5. Abstract!BalanceIsLedger'
  BY <1>4, SameCardinality DEF Packs, Abstract!BalanceIsLedger, Abstract!CreditsOf
<1>6. Abstract!CreditedOnce'
  BY <1>0 DEF Books, Abstract!CreditedOnce, Abstract!Fresh
<1>. QED BY <1>3, <1>5, <1>6 DEF Books

LEMMA BooksOfChange ==
  ASSUME Books, NEW u \in Users, NEW d \in {1, -1, -Cost}, Abstract!Change(u, d)
  PROVE  Books'
<1>1. d \in Int
  OBVIOUS
<1>2. /\ balance' = [balance EXCEPT ![u] = @ + d] /\ other' = [other EXCEPT ![u] = @ + d]
      /\ UNCHANGED credits
  BY DEF Abstract!Change
<1>3. balance' \in [Users -> Int] /\ other' \in [Users -> Int]
  BY <1>1, <1>2 DEF Books
<1>4. ASSUME NEW v \in Users PROVE balance'[v] = Cardinality(Packs(credits, v)) + other'[v]
  <2>1. balance[v] = Cardinality(Packs(credits, v)) + other[v]
    BY SameCardinality DEF Books, Packs, Abstract!BalanceIsLedger
  <2>2. Cardinality(Packs(credits, v)) \in Nat
    BY PacksCounted
  <2>. QED BY <1>1, <1>2, <2>1, <2>2 DEF Books
<1>5. Abstract!BalanceIsLedger'
  BY <1>2, <1>4, SameCardinality DEF Packs, Abstract!BalanceIsLedger, Abstract!CreditsOf
<1>. QED BY <1>2, <1>3, <1>5 DEF Books, Abstract!CreditedOnce

LEMMA BooksStep == IInv /\ Books /\ [Next]_vars => Books'
<1> SUFFICES ASSUME IInv, Books, [Next]_vars PROVE Books'
  OBVIOUS
<1>1. [Abstract!Next]_(Abstract!vars)
  BY StepImplements
<1>2. CASE UNCHANGED Abstract!vars
  BY <1>2
  DEF Abstract!vars, Books, Abstract!BalanceIsLedger, Abstract!CreditedOnce, Abstract!CreditsOf
<1>3. Abstract!Fresh \subseteq Purchases
  BY DEF Abstract!Fresh
<1>. QED BY <1>1, <1>2, <1>3, BooksOfCredit, BooksOfChange DEF Abstract!Next

(* A balance is the packs credited plus all other changes: no update of it is     *)
(* ever lost (grant_tokens and the relative UPDATE of _apply_balance_delta).      *)
THEOREM BalancesAddUp == Spec => []Abstract!BalanceIsLedger
<1>1. Books => Abstract!BalanceIsLedger
  BY DEF Books
<1>. QED BY Invariance, BooksInitially, BooksStep, <1>1, PTL DEF Spec

(* No purchase is credited to two users, whoever presents its transaction.        *)
THEOREM OneCreditPerPurchase == Spec => []Abstract!CreditedOnce
<1>1. Books => Abstract!CreditedOnce
  BY DEF Books
<1>. QED BY Invariance, BooksInitially, BooksStep, <1>1, PTL DEF Spec

(* No balance is ever negative: the UPDATE that would make it so is not done.      *)
THEOREM NoDebt == Spec => []Abstract!NeverNegative
<1>1. TypeOK => Abstract!NeverNegative
  BY DEF TypeOK, Abstract!NeverNegative
<1>. QED BY TypeCorrect, <1>1, PTL
================================================================================
