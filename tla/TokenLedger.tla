------------------------------ MODULE TokenLedger ------------------------------
(******************************************************************************)
(* Token packs: four channels that report purchases again and again, and the  *)
(* requests that credit them. An Adapty webhook and an operator's grant look  *)
(* their key up first; a StoreKit transaction, which any user may present,    *)
(* relies on the primary key alone; a CloudPayments callback only asks the    *)
(* aggregator for the buyer's payments and credits all new ones in one        *)
(* transaction. Every channel commits the key, the grant and the relative     *)
(* UPDATE of the balance together; a unique key that clashes rolls it back.   *)
(* A report may name nobody, or a product nobody knows: Adapty's is stored    *)
(* and never credited, the others are answered and forgotten.                 *)
(******************************************************************************)
EXTENDS FiniteSets, Integers

CONSTANTS
  Users,
  Workers,      \* requests handled at a time
  Purchases,
  Channel,      \* the channel of each purchase
  Buyer,        \* the user a webhook, a callback or a grant names; the aggregator
                \* may list a payment as his although its callback names nobody
  Unknown,      \* purchases of a product that is not in TOKEN_PACK_PRODUCTS
  Nameless,     \* purchases whose report names no user, or none of the users
  Cost,         \* GENERATION_COST_TOKENS
  MaxOther      \* bound: corrections in favour of a user

Channels == {"adapty", "storekit", "cloudpayments", "operator"}

ASSUME TokenLedgerAssumption ==
  /\ IsFiniteSet(Purchases)
  /\ Channel \in [Purchases -> Channels]
  /\ Buyer \in [Purchases -> Users]
  /\ \A p \in Unknown : Channel[p] # "operator"
  /\ \A p \in Nameless : Channel[p] \in {"adapty", "cloudpayments"}
  /\ Unknown \subseteq Purchases /\ Nameless \subseteq Purchases
  /\ Cost \in Nat
  /\ MaxOther \in Nat

VARIABLES
  balance, credits, other,  \* as in Ledger
  recorded,  \* purchases whose key is stored: billing_events, store_transactions,
             \* cloudpayments_payments, credit_grants of an operator
  worker,    \* what each request is doing
  listed,    \* payments the aggregator lists as paid
  old,       \* payments past the freshness window
  pending,   \* reports repeated until they are answered
  acked      \* purchases answered `applied` or `duplicate`

vars == <<balance, credits, other, recorded, worker, listed, old, pending, acked>>
purchases == <<listed, old>>
books == <<balance, credits, other, recorded>>

Of(channel) == {p \in Purchases : Channel[p] = channel}

(* Events stored with processed_at NULL, and all that is stored without a grant. *)
Ignored == Of("adapty") \cap (Unknown \cup Nameless)
Ungranted == Unknown \cup Ignored

(* `shown` is what the answer will speak for; `batch` what is to be credited. *)
Idle == [pc |-> "idle"]
Listing(p, set) == [pc |-> "listed", about |-> p, user |-> Buyer[p], shown |-> set, batch |-> set]
Ready(p, u) == [pc |-> "ready", about |-> p, user |-> u, shown |-> {p}, batch |-> {p}]

Init ==
  /\ balance = [u \in Users |-> 0]
  /\ credits = {}
  /\ other = [u \in Users |-> 0]
  /\ recorded = {}
  /\ worker = [w \in Workers |-> Idle]
  /\ listed = {}
  /\ old = {}
  /\ pending = Purchases
  /\ acked = {}

--------------------------------------------------------------------------------
(* Outside: the purchases are made, and each is reported from the beginning;   *)
(* the aggregator's list may lag behind its callbacks, and a payment gets old. *)
Show(p) ==
  /\ p \in Of("cloudpayments") \ listed
  /\ listed' = listed \cup {p}
  /\ UNCHANGED <<books, worker, old, pending, acked>>

Age(p) ==
  /\ p \in listed \ old
  /\ old' = old \cup {p}
  /\ UNCHANGED <<books, worker, listed, pending, acked>>

--------------------------------------------------------------------------------
(* A 2xx answer to a report of p; `done` is what it says is credited. *)
Answer(p, done) ==
  /\ pending' = pending \ {p}
  /\ acked' = acked \cup done

(* handle_webhook of Adapty and grant_credits: the key is looked up, before the  *)
(* user is; a repeat of whatever is stored is a `duplicate`.                    *)
LookUp(w, p) ==
  /\ worker[w] = Idle
  /\ Channel[p] \in {"adapty", "operator"}
  /\ \/ /\ p \in recorded
        /\ Answer(p, {p})
        /\ UNCHANGED worker
     \/ /\ p \notin recorded
        /\ worker' = [worker EXCEPT ![w] = Ready(p, Buyer[p])]
        /\ UNCHANGED <<pending, acked>>
  /\ UNCHANGED <<books, purchases>>

(* apply_tokens_purchase: the user is the one who presents the transaction. *)
Present(w, p, u) ==
  /\ worker[w] = Idle
  /\ Channel[p] = "storekit"
  /\ \/ /\ p \in Unknown
        /\ Answer(p, {})
        /\ UNCHANGED worker
     \/ /\ p \notin Unknown
        /\ worker' = [worker EXCEPT ![w] = Ready(p, u)]
        /\ UNCHANGED <<pending, acked>>
  /\ UNCHANGED <<books, purchases>>

Creditable(u) == {p \in listed \ old : Buyer[p] = u}

(* handle_webhook of CloudPayments: the callback is a trigger, the list counts.  *)
(* One that names nobody is answered 200 all the same.                          *)
List(w, p) ==
  /\ worker[w] = Idle
  /\ Channel[p] = "cloudpayments"
  /\ \/ /\ p \in Nameless \/ Creditable(Buyer[p]) = {}
        /\ Answer(p, {})
        /\ UNCHANGED worker
     \/ /\ p \notin Nameless /\ Creditable(Buyer[p]) # {}
        /\ worker' = [worker EXCEPT ![w] = Listing(p, Creditable(Buyer[p]))]
        /\ UNCHANGED <<pending, acked>>
  /\ UNCHANGED <<books, purchases>>

(* credit_payment, _already_processed of each payment. *)
Check(w) ==
  LET new == worker[w].batch \ recorded IN
  /\ worker[w].pc = "listed"
  /\ \/ /\ new = {}
        /\ Answer(worker[w].about, worker[w].shown)
        /\ worker' = [worker EXCEPT ![w] = Idle]
     \/ /\ new # {}
        /\ worker' = [worker EXCEPT ![w].pc = "ready", ![w].batch = new]
        /\ UNCHANGED <<pending, acked>>
  /\ UNCHANGED <<books, purchases>>

(* Mutant of Clash: the keys are not unique, the look-up alone protects. *)
ClashNever(w) == FALSE

(* A unique key of the batch is stored already. *)
Clash(w) == worker[w].batch \cap recorded # {}

(* Keys, grants and balance in one transaction. An event that is stored without  *)
(* a grant is answered `ignored`.                                               *)
Commit(w) ==
  LET u == worker[w].user
      packs == worker[w].batch \ Ungranted IN
  /\ worker[w].pc = "ready"
  /\ ~Clash(w)
  /\ recorded' = recorded \cup worker[w].batch
  /\ credits' = credits \cup (packs \X {u})
  /\ balance' = [balance EXCEPT ![u] = @ + Cardinality(packs)]
  /\ Answer(worker[w].about, worker[w].shown \ Ignored)
  /\ worker' = [worker EXCEPT ![w] = Idle]
  /\ UNCHANGED <<other, purchases>>

(* Mutant of RollBack: a callback that loses is answered `duplicate` as well. *)
RollBackAnswered(w) ==
  /\ worker[w].pc = "ready"
  /\ Clash(w)
  /\ worker' = [worker EXCEPT ![w] = Idle]
  /\ Answer(worker[w].about, worker[w].shown)
  /\ UNCHANGED <<books, purchases>>

(* The loser of a race is rolled back. One purchase: it is a duplicate. A     *)
(* callback fails, and is repeated, as its other payments are not credited.   *)
RollBack(w) ==
  /\ worker[w].pc = "ready"
  /\ Clash(w)
  /\ worker' = [worker EXCEPT ![w] = Idle]
  /\ IF Channel[worker[w].about] = "cloudpayments"
       THEN UNCHANGED <<pending, acked>>
       ELSE Answer(worker[w].about, {worker[w].about})
  /\ UNCHANGED <<books, purchases>>

(* Mutant of Abort: a failure is answered 200, as a malformed body is. *)
AbortAnswered(w) ==
  /\ worker[w] # Idle
  /\ worker' = [worker EXCEPT ![w] = Idle]
  /\ Answer(worker[w].about, {})
  /\ UNCHANGED <<books, purchases>>

(* The process dies, or the database fails: 5xx or silence, the report stays. *)
Abort(w) ==
  /\ worker[w] # Idle
  /\ worker' = [worker EXCEPT ![w] = Idle]
  /\ UNCHANGED <<books, purchases, pending, acked>>

--------------------------------------------------------------------------------
(* _apply_balance_delta without a key, and _try_decrement_credit: the guard   *)
(* is in the UPDATE, on the balance it changes.                               *)
Change(u, d) ==
  /\ balance[u] + d >= 0
  /\ balance' = [balance EXCEPT ![u] = @ + d]
  /\ other' = [other EXCEPT ![u] = @ + d]
  /\ UNCHANGED <<credits, recorded, worker, purchases, pending, acked>>

Correct(u) == \E d \in {1, -1} : other[u] + d <= MaxOther /\ Change(u, d)

Charge(u) == Change(u, -Cost)

Start(w, p) == LookUp(w, p) \/ List(w, p) \/ \E u \in Users : Present(w, p, u)

Request(w) ==
  \/ \E p \in Purchases : Start(w, p)
  \/ Check(w)
  \/ Commit(w)
  \/ RollBack(w)
  \/ Abort(w)

Next ==
  \/ \E p \in Purchases : Show(p) \/ Age(p)
  \/ \E w \in Workers : Request(w)
  \/ \E u \in Users : Correct(u) \/ Charge(u)

Spec == Init /\ [][Next]_vars

--------------------------------------------------------------------------------
Requests ==
  {Idle} \cup [pc : {"listed", "ready"}, about : Purchases, user : Users,
               shown : SUBSET Purchases, batch : SUBSET Purchases]

(* Every variable has its type, and a request speaks for what it credits. *)
TypeOK ==
  /\ balance \in [Users -> Nat]
  /\ credits \subseteq Purchases \X Users
  /\ other \in [Users -> Int]
  /\ worker \in [Workers -> Requests]
  /\ \A S \in {recorded, listed, old, pending, acked} : S \subseteq Purchases

Abstract == INSTANCE Ledger WITH Deltas <- {1, -1, -Cost}

(* The channels together are the ledger: a purchase adds one pack to one       *)
(* balance, once, whichever requests race or repeat, and no balance goes below *)
(* zero (the primary keys, grant_tokens and _apply_balance_delta).             *)
ImplementsLedger == Abstract!Spec

(* An answer tells the truth: what has been answered `applied` or `duplicate`,  *)
(* and is not repeated any more, is stored, and its pack is on somebody's        *)
(* balance unless its product is unknown or its event named nobody.             *)
AcknowledgedIsCredited ==
  \A p \in acked :
    p \in recorded /\ (p \in Ungranted \/ \E u \in Users : <<p, u>> \in credits)

(* `duplicate` is meant for events that have been processed (the comment at      *)
(* webhook_handler.py:215). It does not hold: the repeat of an event stored for  *)
(* an unknown user or product is a `duplicate` too, and nothing reads it again.  *)
DuplicateMeansProcessed == \A p \in acked : \E u \in Users : <<p, u>> \in credits

About(w, p) == worker[w] # Idle /\ worker[w].about = p

(* A report that is still repeated and that no request serves with a list      *)
(* read too early.                                                             *)
Reported(p) ==
  /\ p \in pending
  /\ Channel[p] = "cloudpayments" =>
       p \in listed /\ \A w \in Workers : About(w, p) => p \in worker[w].shown

ReportStaysStep ==
  \A p \in Purchases :
    Reported(p) /\ p \notin pending' =>
      \/ \E u \in Users : <<p, u>> \in credits'
      \/ p \in recorded' \cap Ungranted
      \/ p \in old
      \/ p \in Unknown \cap Of("storekit")
      \/ p \in Nameless \cap Of("cloudpayments")

(* A report is repeated until its purchase is credited, or at least stored if    *)
(* it cannot be: neither a lost race, nor a crash, nor a callback that served    *)
(* other payments first makes a channel stop too early. Dropped for good are     *)
(* only old payments, unknown products of StoreKit, and callbacks of             *)
(* CloudPayments that name nobody (the answers of the four handlers).           *)
ReportStays == [][ReportStaysStep]_vars
================================================================================
