---------------------------- MODULE Subscriptions ----------------------------
(***************************************************************************)
(* The subscriptions of one organization: the nightly job that expires and *)
(* cancels them, and the administrators who edit, bill and replace them at *)
(* the same time.                                                          *)
(*                                                                         *)
(* No statement here takes a lock or repeats in its WHERE what an earlier  *)
(* read found, so every statement is a step of its own.  Time is relative: *)
(* `left` counts the days to currentPeriodEnd, and a log entry or          *)
(* updatedAt is known by its age, which stops at the grace period; the     *)
(* nights go on for ever.                                                  *)
(***************************************************************************)
EXTENDS Integers, FiniteSets, FiniteSetsExt

CONSTANTS Ids,          \* 1..n: subscription rows, in the order of createdAt
          MaxPeriod,    \* days a period may have left
          GraceDays,    \* config.subscriptions.gracePeriodDays
          None,         \* no payment under way
          Statuses,     \* statuses an administrator may write
          PlanStatuses, \* TRIALING for the plan FREE, ACTIVE for the others
          Ops           \* what administrators do in this run

SubscriptionStatus ==
    {"ACTIVE", "TRIALING", "PENDING_PAYMENT", "PAST_DUE", "EXPIRED", "CANCELLED"}

ASSUME SubscriptionsAssumption ==
    /\ Ids \subseteq Nat /\ Ids # {} /\ MaxPeriod \in Nat /\ GraceDays \in Nat \ {0}
    /\ Statuses \subseteq SubscriptionStatus /\ PlanStatuses \subseteq {"TRIALING", "ACTIVE"}
    /\ Ops \subseteq {"create", "update", "cancel", "remove", "plan"}

VARIABLES subs,      \* subscriptions: id -> row
          paying,    \* subscription whose paid invoice was just inserted
          plan,      \* progress of OrganizationsRepository.update
          job        \* progress of the nightly job

vars == <<subs, paying, plan, job>>
-----------------------------------------------------------------------------
Row(status, left) ==
    [status |-> status, left |-> left, expiredLogs |-> {}, untouched |-> 0]

\* An UPDATE of columns of a row; updatedAt moves with it.
WriteRow(s, row) == [subs EXCEPT ![s] = [row EXCEPT !.untouched = 0]]

SetStatus(s, status) == WriteRow(s, [subs[s] EXCEPT !.status = status])

Idle == [pc |-> "idle"]

Exists(s) == s \in DOMAIN subs

Due(s) ==
    /\ subs[s].left = 0
    /\ subs[s].status \in {"ACTIVE", "TRIALING", "PENDING_PAYMENT", "PAST_DUE"}

\* updatedAt is looked at only in an expired row without an entry in the log.
Forgotten(row) == row.status = "EXPIRED" /\ row.expiredLogs = {}

\* The oldest entry of the log counts, and updatedAt when there is none.
GraceExceeded(s) ==
    /\ subs[s].status = "EXPIRED"
    /\ IF Forgotten(subs[s]) THEN subs[s].untouched = GraceDays
       ELSE Max(subs[s].expiredLogs) = GraceDays

-----------------------------------------------------------------------------
\* A new organization starts with a trial, or with the plan it was created with.
Init ==
    /\ \E status \in PlanStatuses : subs = [s \in {Min(Ids)} |-> Row(status, MaxPeriod)]
    /\ paying = None
    /\ plan = Idle /\ job = Idle

\* Midnight: everything is a day older, and the job is started.
NextNight ==
    /\ job.pc = "idle"
    /\ subs' = [s \in DOMAIN subs |->
                  LET older(age) == IF age < GraceDays THEN age + 1 ELSE age
                  IN [subs[s] EXCEPT !.left = IF @ = 0 THEN 0 ELSE @ - 1,
                                     !.untouched = IF Forgotten(subs[s]) THEN older(@) ELSE 0,
                                     !.expiredLogs = {older(age) : age \in @}]]
    /\ job' = [pc |-> "started"]
    /\ UNCHANGED <<paying, plan>>

-----------------------------------------------------------------------------
\* SubscriptionsService.  No edit depends on more than the row's existence, and a
\* second cancellation changes nothing.  isPaused is left out: neither the job nor the
\* guard reads it, it only keeps an administrator from billing.
NextId == CHOOSE s \in Ids : \A t \in DOMAIN subs : t < s

RoomForOne == \E s \in Ids : \A t \in DOMAIN subs : t < s

Insert(s, row) == [t \in DOMAIN subs \union {s} |-> IF t = s THEN row ELSE subs[t]]

Edit(op) == op \in Ops /\ UNCHANGED <<paying, plan, job>>

Create ==
    /\ Edit("create")
    /\ RoomForOne
    /\ \E status \in Statuses, left \in 0..MaxPeriod : subs' = Insert(NextId, Row(status, left))

Update(s) ==
    /\ Edit("update")
    /\ \E status \in Statuses \union {subs[s].status}, left \in 0..MaxPeriod :
         subs' = WriteRow(s, [subs[s] EXCEPT !.status = status, !.left = left])

Cancel(s) ==
    /\ Edit("cancel")
    /\ subs[s].status # "CANCELLED"
    /\ subs' = SetStatus(s, "CANCELLED")

\* The paid invoices are counted before the DELETE, and one inserted in between is
\* seen by its foreign key; but any invoice may have been deleted again.
RemoveRow(s) ==
    /\ Edit("remove")
    /\ paying # s
    /\ subs' = [t \in DOMAIN subs \ {s} |-> subs[t]]

-----------------------------------------------------------------------------
\* InvoicesService.create for a paid invoice: the row, and then, in a statement of
\* its own, the status of the subscription, whatever has become of it; the period
\* is left alone.  Other invoices touch nothing here.
InsertPaidInvoice(s) ==
    /\ paying = None
    /\ paying' = s
    /\ UNCHANGED <<subs, plan, job>>

Activate ==
    /\ paying # None
    /\ subs' = SetStatus(paying, "ACTIVE")
    /\ paying' = None
    /\ UNCHANGED <<plan, job>>

CrashBeforeActivate ==
    /\ paying # None
    /\ paying' = None
    /\ UNCHANGED <<subs, plan, job>>

-----------------------------------------------------------------------------
\* OrganizationsService.updatePlan: the rows of the old plan and the row of the
\* new one, outside any transaction.
PlanExpire ==
    /\ "plan" \in Ops /\ plan.pc = "idle" /\ RoomForOne
    /\ subs' = [s \in DOMAIN subs |->
                  IF subs[s].status \in {"ACTIVE", "TRIALING"}
                  THEN [subs[s] EXCEPT !.status = "EXPIRED", !.untouched = 0] ELSE subs[s]]
    /\ plan' = [pc |-> "expired"]
    /\ UNCHANGED <<paying, job>>

PlanCreate ==
    /\ plan.pc = "expired" /\ RoomForOne
    /\ \E status \in PlanStatuses : subs' = Insert(NextId, Row(status, MaxPeriod))
    /\ plan' = Idle
    /\ UNCHANGED <<paying, job>>

PlanCrash ==
    /\ plan.pc # "idle" /\ plan' = Idle
    /\ UNCHANGED <<subs, paying, job>>

-----------------------------------------------------------------------------
\* SubscriptionLifecycleService: what is due is read once, then written row by
\* row, whatever has happened to the rows meanwhile.
JobStep(j) == job' = j /\ UNCHANGED <<paying, plan>>

\* Mutant: a subscription is expired, and its owner warned, only once.
ListDueOnce ==
    /\ job.pc = "started"
    /\ JobStep([pc |-> "expiring",
                todo |-> {s \in DOMAIN subs : Due(s) /\ subs[s].expiredLogs = {}}])
    /\ UNCHANGED subs

ListDue ==
    /\ job.pc = "started"
    /\ JobStep([pc |-> "expiring", todo |-> {s \in DOMAIN subs : Due(s)}])
    /\ UNCHANGED subs

ExpireOne(s) ==
    /\ job.pc = "expiring" /\ s \in job.todo /\ Exists(s)
    /\ subs' = WriteRow(s, [subs[s] EXCEPT !.status = "EXPIRED", !.expiredLogs = @ \union {0}])
    /\ JobStep([job EXCEPT !.todo = @ \ {s}])

\* Mutant: without an entry in the log nothing is cancelled.
ListExceededLogged ==
    /\ job.pc = "expiring" /\ job.todo = {}
    /\ JobStep([pc |-> "cancelling",
                todo |-> {s \in DOMAIN subs : subs[s].expiredLogs # {} /\ GraceExceeded(s)}])
    /\ UNCHANGED subs

ListExceeded ==
    /\ job.pc = "expiring" /\ job.todo = {}
    /\ JobStep([pc |-> "cancelling", todo |-> {s \in DOMAIN subs : GraceExceeded(s)}])
    /\ UNCHANGED subs

CancelOne(s) ==
    /\ job.pc = "cancelling" /\ s \in job.todo /\ Exists(s)
    /\ subs' = SetStatus(s, "CANCELLED")
    /\ JobStep([job EXCEPT !.todo = @ \ {s}])

JobEnds ==
    /\ job.pc = "cancelling" /\ job.todo = {}
    /\ JobStep(Idle) /\ UNCHANGED subs

\* The UPDATE of a row that is gone throws, and the rest of the night is skipped.
JobMissesRow ==
    /\ job.pc \in {"expiring", "cancelling"} /\ \E s \in job.todo : ~Exists(s)
    /\ JobStep(Idle) /\ UNCHANGED subs

\* Any other failed statement, or a restart, ends the night's run as well.
JobFails ==
    /\ job.pc # "idle"
    /\ JobStep(Idle) /\ UNCHANGED subs

-----------------------------------------------------------------------------
EditRow(s) == Update(s) \/ Cancel(s) \/ RemoveRow(s)

Payment == (\E s \in DOMAIN subs : InsertPaidInvoice(s)) \/ Activate \/ CrashBeforeActivate

PlanChange == PlanExpire \/ PlanCreate \/ PlanCrash

Job ==
    \/ ListDue \/ ListExceeded \/ JobEnds \/ JobMissesRow \/ JobFails
    \/ \E s \in Ids : ExpireOne(s) \/ CancelOne(s)

Next ==
    \/ NextNight \/ Job
    \/ Create \/ PlanChange \/ Payment
    \/ \E s \in DOMAIN subs : EditRow(s)

Spec == Init /\ [][Next]_vars

\* Nights follow nights and the job does not fail every night at the same row;
\* administrators owe nothing.
FairSpec ==
    /\ Spec
    /\ WF_vars(NextNight) /\ SF_vars(ListDue) /\ SF_vars(ListExceeded) /\ WF_vars(JobEnds) /\ WF_vars(JobMissesRow)
    /\ \A s \in Ids : SF_vars(ExpireOne(s)) /\ SF_vars(CancelOne(s))

-----------------------------------------------------------------------------
TypeOK ==
    /\ DOMAIN subs \subseteq Ids
    /\ \A s \in DOMAIN subs :
         subs[s] \in [status : SubscriptionStatus, left : 0..MaxPeriod,
                      expiredLogs : SUBSET (0..GraceDays), untouched : 0..GraceDays]
    /\ job.pc \in {"idle", "started", "expiring", "cancelling"}

Lapsed(s) == Exists(s) /\ Due(s)

\* Every subscription whose period is over is expired, cancelled, renewed or
\* deleted, although the job may fail, and other rows vanish under it.
DueIsExpired == \A s \in Ids : Lapsed(s) ~> ~Lapsed(s)

Resting(s) == Exists(s) /\ subs[s].status = "EXPIRED"

\* An expired subscription does not stay so: after the grace period the job
\* cancels it.  Only someone who keeps editing it can put that off, and only when
\* the log has no entry for it, for every edit restarts the days since updatedAt.
ExpiredIsResolved ==
    \A s \in Ids : <>[][~(Exists(s) /\ Update(s))]_vars => (Resting(s) ~> ~Resting(s))

\* The job cancels a subscription with an entry in its log only when the first one is the
\* grace period old, whoever edits, pays for or replaces subscriptions meanwhile.
FirstExpiryCounts ==
    [][\A s \in DOMAIN subs :
         CancelOne(s) /\ subs[s].expiredLogs # {} => Max(subs[s].expiredLogs) = GraceDays]_vars

\* The job cancels an expired subscription only when its last expiry is the
\* grace period old: false for one that expires again.
GraceIsGranted ==
    [][\A s \in DOMAIN subs :
         CancelOne(s) /\ Resting(s) /\ subs[s].expiredLogs # {} => Min(subs[s].expiredLogs) = GraceDays]_vars
=============================================================================
