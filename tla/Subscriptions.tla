----------------------------- MODULE Subscriptions -----------------------------
(******************************************************************************)
(* The cached subscription of one user and everybody who writes it: webhooks  *)
(* of the provider (duplicated, reordered, lost), grants of administrators,   *)
(* StoreKit and CloudPayments, the periodic and the lazy getProfile resync,   *)
(* which await the provider between their read and their write, and the grace *)
(* sweeper, which takes the user's sites down under a row lock.               *)
(*                                                                            *)
(* Every writer but the sweeper reads the row without a lock and saves the    *)
(* columns whose value it changed (the sessions do not flush before commit),  *)
(* so two of them may each keep a part of what the other has written.         *)
(******************************************************************************)
EXTENDS FiniteSets, Naturals

CONSTANTS
  Handlers,   \* webhook deliveries and grants handled at a time
  Resyncs,    \* getProfile resyncs at a time, periodic or lazy
  MaxEvents   \* bound: events the provider sends

ASSUME SubscriptionsAssumption == MaxEvents \in Nat

VARIABLES
  row,       \* the row of subscriptions
  ledger,    \* keys of billing_events
  handler,   \* what each handler is doing
  resync,    \* what each resync is doing
  sweep,     \* the sweeper, which holds the row while it is not idle; torn: sites down
  profile,   \* the provider's truth
  sent,      \* events the provider has sent
  mail       \* events still delivered again and again; a stored one is answered `duplicate`

vars == <<row, ledger, handler, resync, sweep, profile, sent, mail>>

Statuses == {"active", "grace", "billing_issue", "expired"}
(* grace_until: NULL, in the future, in the past. *)
Deadlines == {"none", "running", "past"}
Rows == [here : BOOLEAN, status : Statuses, level : {"free", "pro"},
         due : Deadlines, fresh : BOOLEAN]

Profiles == {"active", "inactive", "absent"}
(* Types with the same effect are one: `paid` is started, renewed and access   *)
(* level updated to active, `ended` is expired, refunded and updated by refund. *)
ActiveEvents == {"paid", "in_grace"}
InactiveEvents == {"ended", "inactive", "billing_issue"}
(* Events that change no right: will_renew, and the consciously ignored types. *)
NeutralEvents == {"cancelled", "ignored"}
Events == [id : 1..MaxEvents, type : ActiveEvents \cup InactiveEvents \cup NeutralEvents]

NoRow == [here |-> FALSE, status |-> "active", level |-> "free",
          due |-> "none", fresh |-> TRUE]
Idle == [pc |-> "idle", event |-> [id |-> 0, type |-> "grant"], snap |-> NoRow]
Resting == [pc |-> "idle", snap |-> NoRow, profile |-> "absent"]

--------------------------------------------------------------------------------
(* What a writer assigns, column by column; a column it leaves out is kept.   *)

Active == [status |-> "active", level |-> "pro", due |-> "none", fresh |-> TRUE]

(* apply_webhook_event, apply_admin_grant, apply_storekit_subscription. The   *)
(* deadline of subscription_expired counts from expires_at and may be over.   *)
Assigned(type) ==
  CASE type \in {"paid", "grant"} -> {Active}
    [] type = "in_grace" -> {[Active EXCEPT !.status = "grace"]}
    [] type = "ended" ->
         {[status |-> "grace", due |-> d, fresh |-> TRUE] : d \in {"running", "past"}}
    [] type = "billing_issue" ->
         {[status |-> "billing_issue", due |-> "none", fresh |-> TRUE]}
    [] type = "cancelled" -> {[fresh |-> TRUE]}
    [] type \in {"inactive", "ignored"} -> {<<>>}

(* Mutant of Resynced: the level of an inactive profile is written.            *)
ResyncedFree(snap, answer) ==
  IF answer = "active" THEN Active ELSE [level |-> "free", fresh |-> TRUE]

(* apply_profile_resync: an inactive profile ends a subscription that is not  *)
(* in grace and has no billing issue, as the row read says.                   *)
Resynced(snap, answer) ==
  CASE answer = "active" -> Active
    [] answer = "inactive" /\ snap.status \in {"active", "expired"} ->
         [status |-> "expired", fresh |-> TRUE]
    [] OTHER -> [fresh |-> TRUE]

(* The UPDATE of a commit: an assigned column is written if it differs from   *)
(* the row read. A time stamp always differs.                                 *)
Written(set, snap, f) ==
  f \in DOMAIN set /\ (set[f] # snap[f] \/ f = "fresh" \/ (f = "due" /\ set[f] # "none"))

Saved(set, snap) ==
  IF snap.here THEN [f \in DOMAIN row |-> IF Written(set, snap, f) THEN set[f] ELSE row[f]]
  ELSE [f \in DOMAIN row |-> IF f = "here" THEN TRUE
                             ELSE IF f \in DOMAIN set THEN set[f] ELSE NoRow[f]]

(* get_subscription by two first writers: both insert, user_id is unique. *)
InsertClash(snap) == ~snap.here /\ row.here

(* Mutant of Unlocked: the sweeper's SELECT takes no lock. *)
UnlockedAlways == TRUE

(* The sweeper's SELECT ... FOR UPDATE holds the row: an UPDATE waits. *)
Unlocked == sweep = "idle"

(* The row as a transaction reads it. A save compares grace_until with NULL   *)
(* only, and never compares synced_at.                                        *)
Read == [row EXCEPT !.fresh = TRUE, !.due = IF @ = "none" THEN "none" ELSE "running"]

--------------------------------------------------------------------------------
(* The provider: rights change and an event is sent; deliveries get lost.     *)
Send(type) ==
  /\ sent < MaxEvents
  /\ sent' = sent + 1
  /\ mail' = mail \cup {[id |-> sent + 1, type |-> type]}
  /\ UNCHANGED <<row, ledger, handler, resync, sweep>>

Provider ==
  \/ \E type \in ActiveEvents : Send(type) /\ profile' = "active"
  \/ \E type \in InactiveEvents :
       Send(type) /\ profile # "absent" /\ profile' = "inactive"
  \/ \E type \in NeutralEvents : Send(type) /\ profile # "absent" /\ profile' = profile

Drop ==
  /\ \E m \in mail : mail' = mail \ {m}
  /\ UNCHANGED <<row, ledger, handler, resync, sweep, profile, sent>>

--------------------------------------------------------------------------------
(* A delivery: the key is looked up and the row is read ...                   *)
Receive(h) ==
  /\ handler[h].pc = "idle"
  /\ \E m \in mail :
       /\ m.id \notin ledger
       /\ handler' = [handler EXCEPT ![h] = [pc |-> "loaded", event |-> m, snap |-> Read]]
  /\ UNCHANGED <<row, ledger, resync, sweep, profile, sent, mail>>

(* ... and one transaction inserts the key and saves the row. Any unique key  *)
(* that clashes rolls it back, and the answer is `duplicate`.                 *)
Apply(h) ==
  LET m == handler[h].event
      snap == handler[h].snap IN
  /\ handler[h].pc = "loaded"
  /\ m.type # "grant"
  /\ handler' = [handler EXCEPT ![h] = Idle]
  /\ \/ /\ m.id \in ledger \/ (m.type # "ignored" /\ InsertClash(snap))
        /\ UNCHANGED <<row, ledger, mail>>
     \/ /\ m.id \notin ledger
        /\ ledger' = ledger \cup {m.id}
        /\ mail' = mail \ {m}
        /\ \/ m.type = "ignored" /\ row' = row
           \/ /\ m.type # "ignored" /\ ~InsertClash(snap) /\ Unlocked
              /\ \E set \in Assigned(m.type) : row' = Saved(set, snap)
  /\ UNCHANGED <<resync, sweep, profile, sent>>

(* A grant by an administrator, the CRM, StoreKit or CloudPayments.           *)
StartGrant(h) ==
  /\ handler[h].pc = "idle"
  /\ handler' = [handler EXCEPT ![h] = [Idle EXCEPT !.pc = "loaded", !.snap = Read]]
  /\ UNCHANGED <<row, ledger, resync, sweep, profile, sent, mail>>

Grant(h) ==
  /\ handler[h].pc = "loaded"
  /\ handler[h].event.type = "grant"
  /\ handler' = [handler EXCEPT ![h] = Idle]
  /\ IF InsertClash(handler[h].snap) THEN row' = row
     ELSE Unlocked /\ \E set \in Assigned("grant") : row' = Saved(set, handler[h].snap)
  /\ UNCHANGED <<ledger, resync, sweep, profile, sent, mail>>

(* The database fails or the process dies before the commit.                  *)
Abort(h) ==
  /\ handler[h].pc = "loaded"
  /\ handler' = [handler EXCEPT ![h] = Idle]
  /\ UNCHANGED <<row, ledger, resync, sweep, profile, sent, mail>>

--------------------------------------------------------------------------------
(* Resync. The periodic one takes stale rows and those in grace or with a     *)
(* billing issue; the lazy one, at the gate and in billing/me, stale rows.    *)
ResyncLoad(a) ==
  /\ resync[a].pc = "idle"
  /\ row.here
  /\ ~row.fresh \/ row.status \in {"grace", "billing_issue"}
  /\ resync' = [resync EXCEPT ![a] = [@ EXCEPT !.pc = "asking", !.snap = Read]]
  /\ UNCHANGED <<row, ledger, handler, sweep, profile, sent, mail>>

(* get_profile answers with the provider's truth of this moment.              *)
Answer(a) ==
  /\ resync[a].pc = "asking"
  /\ resync' = [resync EXCEPT ![a] = [@ EXCEPT !.pc = "answered", !.profile = profile]]
  /\ UNCHANGED <<row, ledger, handler, sweep, profile, sent, mail>>

Rest(a) == resync' = [resync EXCEPT ![a] = Resting]

(* Mutant of ResyncSave: the session is closed without a commit. *)
ResyncSaveUncommitted(a) ==
  /\ resync[a].pc = "answered"
  /\ Rest(a)
  /\ UNCHANGED <<row, ledger, handler, sweep, profile, sent, mail>>

(* The commit. A lazy resync that found no profile does not commit.           *)
ResyncSave(a) ==
  /\ resync[a].pc = "answered"
  /\ Rest(a)
  /\ \/ resync[a].profile = "absent" /\ row' = row
     \/ /\ Unlocked
        /\ row' = Saved(Resynced(resync[a].snap, resync[a].profile), resync[a].snap)
  /\ UNCHANGED <<ledger, handler, sweep, profile, sent, mail>>

(* A refused, limited or failed call: the periodic pass skips the row, the    *)
(* gate fails open on what it has read. Or the process dies.                  *)
NoAnswer(a) ==
  /\ resync[a].pc # "idle"
  /\ Rest(a)
  /\ UNCHANGED <<row, ledger, handler, sweep, profile, sent, mail>>

--------------------------------------------------------------------------------
(* The sweeper: lock the rows whose grace is over, take the sites down,       *)
(* expire the rows. A crash releases the lock with the transaction.           *)
SweepLock ==
  /\ sweep = "idle"
  /\ row.here /\ row.status = "grace" /\ row.due = "past"
  /\ sweep' = "locked"
  /\ UNCHANGED <<row, ledger, handler, resync, profile, sent, mail>>

SweepTeardown ==
  /\ sweep = "locked"
  /\ sweep' = "torn"
  /\ UNCHANGED <<row, ledger, handler, resync, profile, sent, mail>>

(* Mutant of SweepExpire: the sites are down, the row is left in its grace. *)
SweepExpireSitesOnly ==
  /\ sweep = "torn"
  /\ sweep' = "idle"
  /\ UNCHANGED <<row, ledger, handler, resync, profile, sent, mail>>

SweepExpire ==
  /\ sweep = "torn"
  /\ sweep' = "idle"
  /\ row' = [row EXCEPT !.status = "expired", !.due = "none"]
  /\ UNCHANGED <<ledger, handler, resync, profile, sent, mail>>

SweepCrash ==
  /\ sweep # "idle"
  /\ sweep' = "idle"
  /\ UNCHANGED <<row, ledger, handler, resync, profile, sent, mail>>

--------------------------------------------------------------------------------
(* Time: synced_at gets older than BILLING_RESYNC_INTERVAL_S, grace ends.     *)
Age ==
  /\ row.here /\ row.fresh
  /\ row' = [row EXCEPT !.fresh = FALSE]
  /\ UNCHANGED <<ledger, handler, resync, sweep, profile, sent, mail>>

GraceEnds ==
  /\ row.due = "running"
  /\ row' = [row EXCEPT !.due = "past"]
  /\ UNCHANGED <<ledger, handler, resync, sweep, profile, sent, mail>>

--------------------------------------------------------------------------------
Init ==
  /\ row = NoRow
  /\ ledger = {}
  /\ handler = [h \in Handlers |-> Idle]
  /\ resync = [a \in Resyncs |-> Resting]
  /\ sweep = "idle"
  /\ profile = "absent"
  /\ sent = 0
  /\ mail = {}

Webhook(h) == Receive(h) \/ Apply(h) \/ StartGrant(h) \/ Grant(h) \/ Abort(h)

Resync(a) == ResyncLoad(a) \/ Answer(a) \/ ResyncSave(a) \/ NoAnswer(a)

Sweep == SweepLock \/ SweepTeardown \/ SweepExpire \/ SweepCrash

Next ==
  \/ Provider \/ Drop
  \/ \E h \in Handlers : Webhook(h)
  \/ \E a \in Resyncs : Resync(a)
  \/ Sweep
  \/ Age \/ GraceEnds

Spec == Init /\ [][Next]_vars

(* Beat runs the resync and the sweeper, time passes, and the provider        *)
(* answers again and again, as do commits: crashes do not repeat for ever.    *)
FairSpec ==
  /\ Spec
  /\ WF_vars(Age)
  /\ \A a \in Resyncs :
       SF_vars(ResyncLoad(a)) /\ SF_vars(Answer(a)) /\ SF_vars(ResyncSave(a))
  /\ SF_vars(SweepLock) /\ SF_vars(SweepTeardown) /\ SF_vars(SweepExpire)

--------------------------------------------------------------------------------
TypeOK ==
  /\ row \in Rows
  /\ ledger \subseteq 1..MaxEvents
  /\ handler \in [Handlers -> [pc : {"idle", "loaded"},
                               event : Events \cup {Idle.event}, snap : Rows]]
  /\ resync \in [Resyncs -> [pc : {"idle", "asking", "answered"}, snap : Rows, profile : Profiles]]
  /\ sweep \in {"idle", "locked", "torn"}
  /\ profile \in Profiles
  /\ sent \in 0..MaxEvents
  /\ mail \subseteq Events

(* Only a user whose grace is over at that very moment loses the sites: no    *)
(* renewal, grant or resync gets in between the sweeper's look at the row and *)
(* the teardowns (SELECT ... FOR UPDATE, _sweep_subscriptions).               *)
TornDownAfterGrace ==
  [][sweep # "torn" /\ sweep' = "torn" =>
       row.here /\ row.status = "grace" /\ row.due = "past"]_vars

(* No event, grant or resync, however late, duplicated or torn between two    *)
(* writers, takes the paid level from a row: rights end by status alone       *)
(* (preserve-on-missing, apply_webhook_event).                                *)
LevelKept == [][row.here /\ row.level = "pro" => row'.level = "pro"]_vars

(* Whatever webhooks were lost, reordered or applied by halves, a user whom   *)
(* the provider keeps calling active ends up active: getProfile resync is the *)
(* fallback (run_periodic_resync).                                            *)
ResyncHeals == <>[](profile = "active" /\ row.here) => <>[](row.status = "active")

(* A grace that is over is acted on: expired with the sites down, or renewed. *)
GraceIsSettled == (row.here /\ row.status = "grace" /\ row.due = "past")
                    ~> (row.status # "grace" \/ row.due # "past")

(* "A resync does not overwrite a fresher webhook state" (resync.py:8): a     *)
(* resync that read the row before a webhook leaves the webhook's status.     *)
ResyncKeepsNewer ==
  [][\A a \in Resyncs :
       (resync[a].pc = "answered" /\ resync'[a].pc = "idle"
          /\ resync[a].snap.status # row.status /\ row.fresh)
         => row'.status = row.status]_vars
================================================================================
