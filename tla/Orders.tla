------------------------------- MODULE Orders -------------------------------
(***************************************************************************)
(* Membership orders (backend/common/auth.py, common/payment.py, their     *)
(* routes in commercial_api.py and admin_api.py). A handler has no await,  *)
(* so a server process runs one at a time; of two processes on one         *)
(* database, one may write between what the other read and what it then    *)
(* writes: every read and every transaction is a step.                     *)
(***************************************************************************)
EXTENDS Integers, FiniteSets

CONSTANTS
  Orders,      \* ids of orders
  Users,       \* who orders
  Plans,       \* MEMBERSHIP_PLANS
  Procs,       \* server processes
  None,
  MaxUses,     \* max_uses of the coupon
  MaxPayments  \* bound: deliveries of the webhook

ASSUME NoneIsNew == None \notin Orders \cup Users \cup Plans
ASSUME OrdersFinite == IsFiniteSet(Orders)
ASSUME UsesInNat == MaxUses \in Nat \ {0} /\ MaxPayments \in Nat

VARIABLES
  order,     \* rows in orders
  coupon,    \* used_count of the coupon
  member,    \* users.membership, "free" or a plan
  auto,      \* config payment_auto_activate
  handler,   \* what each process is doing and what it has read
  seen,      \* history: the order's status when the right amount was first recorded
  grants,    \* history: times each order opened a membership
  raced,     \* history: a handler wrote after another had since it read
  deliveries \* webhook deliveries so far

vars == <<order, coupon, member, auto, handler, seen, grants, raced, deliveries>>

Statuses == {"pending", "paid", "approved", "rejected", "expired"}
Open == {"pending", "paid"}
Closed == {"approved", "rejected", "expired"}
Amounts == {"right", "wrong"}
NoOrder == [status |-> "none", user |-> None, plan |-> None, coupon |-> FALSE, age |-> 0]
Idle == [op |-> "idle", order |-> None, user |-> None, plan |-> None, status |-> "none",
         coupon |-> FALSE, ok |-> FALSE, dirty |-> FALSE]

TypeOK ==
  /\ order \in [Orders -> [status : Statuses \cup {"none"}, user : Users \cup {None},
                           plan : Plans \cup {None}, coupon : BOOLEAN, age : 0..2]]
  /\ coupon \in Nat /\ member \in [Users -> Plans \cup {"free"}] /\ auto \in BOOLEAN
  /\ handler \in [Procs -> [op : {"idle", "expired", "checked", "clear", "voucher", "review", "webhook"},
                            order : Orders \cup {None}, user : Users \cup {None},
                            plan : Plans \cup {None}, status : Statuses \cup {"none"},
                            coupon : BOOLEAN, ok : BOOLEAN, dirty : BOOLEAN]]
  /\ seen \in [Orders -> Statuses \cup {"none"}]
  /\ grants \in [Orders -> Nat] /\ raced \in BOOLEAN /\ deliveries \in 0..MaxPayments

Init ==
  /\ order = [o \in Orders |-> NoOrder] /\ coupon = 0
  /\ member = [u \in Users |-> "free"] /\ auto \in BOOLEAN
  /\ handler = [p \in Procs |-> Idle]
  /\ seen = [o \in Orders |-> "none"]
  /\ grants = [o \in Orders |-> 0] /\ raced = FALSE /\ deliveries = 0

OpenOf(u) == {o \in Orders : order[o].user = u /\ order[o].status \in Open}

-----------------------------------------------------------------------------
(* Reading and writing.                                                    *)

Reads(p, h) == handler' = [handler EXCEPT ![p] = h]

\* A transaction of p for these users: who has read their rows, or a coupon that
\* is counted now, goes on with what was there before.
Touches(h, users) == h.user \in users \/ (h.coupon /\ coupon' # coupon)
Commits(p, users, next) ==
  /\ handler' = [q \in Procs |-> IF q = p THEN next
                                 ELSE [handler[q] EXCEPT !.dirty = @ \/ Touches(handler[q], users)]]
  /\ raced' = (raced \/ handler[p].dirty)
Sets(o, status) == order' = [order EXCEPT ![o].status = status]
Grants(o) ==
  /\ member' = [member EXCEPT ![order[o].user] = order[o].plan]
  /\ grants' = [grants EXCEPT ![o] = @ + 1]
NoGrant == UNCHANGED <<member, grants>>

-----------------------------------------------------------------------------
(* expire_stale_orders: one statement, run before orders are listed or made. *)

StaleByAge(o) == order[o].status # "none" /\ order[o].age >= 1
Stale(o) == \/ order[o].status = "pending" /\ order[o].age >= 1   \* 7 days
            \/ order[o].status = "paid" /\ order[o].age >= 2      \* 14 days
StaleSet == {o \in Orders : Stale(o)}
Expired == [o \in Orders |-> IF Stale(o) THEN [order[o] EXCEPT !.status = "expired"] ELSE order[o]]

List(p) ==
  /\ handler[p] = Idle /\ StaleSet # {} /\ order' = Expired
  /\ UNCHANGED coupon /\ Commits(p, {order[o].user : o \in StaleSet}, Idle)
  /\ NoGrant /\ UNCHANGED <<auto, seen, deliveries>>

-----------------------------------------------------------------------------
(* create_order.                                                           *)

CreateBegins(p, u, plan, coded) ==
  /\ handler[p] = Idle /\ order' = Expired /\ UNCHANGED coupon
  /\ Commits(p, {order[o].user : o \in StaleSet},
             [Idle EXCEPT !.op = "expired", !.user = u, !.plan = plan, !.coupon = coded])
  /\ NoGrant /\ UNCHANGED <<auto, seen, deliveries>>

\* validate_coupon, if a code was given: it must not be used up.
Usable == coupon < MaxUses
ValidateCoupon(p) ==
  /\ handler[p].op = "expired"
  /\ Reads(p, IF handler[p].coupon => Usable THEN [handler[p] EXCEPT !.op = "checked"] ELSE Idle)
  /\ UNCHANGED <<order, coupon, member, auto, seen, grants, raced, deliveries>>

\* One order of a user may be open.
BlockedByPending(u) == \E o \in Orders : order[o].user = u /\ order[o].status = "pending"
Blocked(u) == OpenOf(u) # {}
CheckOpen(p) ==
  /\ handler[p].op = "checked"
  /\ Reads(p, IF Blocked(handler[p].user) THEN Idle ELSE [handler[p] EXCEPT !.op = "clear"])
  /\ UNCHANGED <<order, coupon, member, auto, seen, grants, raced, deliveries>>

Insert(p, o) ==
  /\ handler[p].op = "clear" /\ order[o].status = "none"
  /\ order' = [order EXCEPT ![o] = [status |-> "pending", user |-> handler[p].user, age |-> 0,
                                    plan |-> handler[p].plan, coupon |-> handler[p].coupon]]
  /\ coupon' = IF handler[p].coupon THEN coupon + 1 ELSE coupon
  /\ Commits(p, {handler[p].user}, Idle)
  /\ NoGrant /\ UNCHANGED <<auto, seen, deliveries>>

-----------------------------------------------------------------------------
(* submit_voucher, review_order and mark_order_paid read the row, and write  *)
(* its status without looking at it again.                                   *)

Takes(p, op, o, ok) ==
  /\ handler[p] = Idle
  /\ Reads(p, [Idle EXCEPT !.op = op, !.order = o, !.user = order[o].user,
                           !.status = order[o].status, !.ok = ok])
  /\ UNCHANGED <<order, coupon, member, auto, seen, grants, raced, deliveries>>

TakeVoucher(p, o) == order[o].status = "pending" /\ Takes(p, "voucher", o, TRUE)

Voucher(p) ==
  /\ handler[p].op = "voucher" /\ Sets(handler[p].order, "paid")
  /\ UNCHANGED coupon /\ Commits(p, {handler[p].user}, Idle)
  /\ NoGrant /\ UNCHANGED <<auto, seen, deliveries>>

ReviewableAny(o) == order[o].status # "none"
Reviewable(o) == order[o].status = "paid"
TakeReview(p, o, approve) == Reviewable(o) /\ Takes(p, "review", o, approve)

Approve(p) ==
  /\ handler[p].op = "review" /\ handler[p].ok
  /\ Sets(handler[p].order, "approved") /\ Grants(handler[p].order)
  /\ UNCHANGED coupon /\ Commits(p, {handler[p].user}, Idle)
  /\ UNCHANGED <<auto, seen, deliveries>>

\* A rejected order gives its coupon use back.
GivenBackNever(o) == coupon
GivenBack(o) == IF order[o].coupon /\ coupon > 0 THEN coupon - 1 ELSE coupon
Reject(p) ==
  /\ handler[p].op = "review" /\ ~handler[p].ok
  /\ Sets(handler[p].order, "rejected") /\ coupon' = GivenBack(handler[p].order)
  /\ Commits(p, {handler[p].user}, Idle)
  /\ NoGrant /\ UNCHANGED <<auto, seen, deliveries>>

\* The webhook: an approved order is answered as it is, a rejected one with 409. The
\* payment channel may report at any time, again, and first one amount, then another.
Payable(o) == order[o].status \notin {"none", "approved", "rejected"}
TakeWebhook(p, o, amount) ==
  /\ deliveries < MaxPayments /\ Payable(o)
  /\ handler[p] = Idle /\ deliveries' = deliveries + 1
  /\ Reads(p, [Idle EXCEPT !.op = "webhook", !.order = o, !.user = order[o].user,
                           !.status = order[o].status, !.ok = amount = "right"])
  /\ UNCHANGED <<order, coupon, member, auto, seen, grants, raced>>

Records(p) ==
  /\ handler[p].op = "webhook" /\ UNCHANGED coupon
  /\ seen' = [seen EXCEPT ![handler[p].order] = IF handler[p].ok /\ @ = "none" THEN handler[p].status ELSE @]
  /\ Commits(p, {handler[p].user}, Idle)
  /\ UNCHANGED <<auto, deliveries>>

\* Pending, the amount right and automatic activation on: the membership opens.
FulfilsAny(h) == h.ok /\ auto
Fulfils(h) == h.status = "pending" /\ h.ok /\ auto
Activate(p) ==
  /\ Fulfils(handler[p]) /\ Records(p)
  /\ Sets(handler[p].order, "approved") /\ Grants(handler[p].order)

\* Pending otherwise: left to a reviewer.
LeaveToReview(p) ==
  /\ handler[p].status = "pending" /\ ~Fulfils(handler[p]) /\ Records(p)
  /\ Sets(handler[p].order, "paid") /\ NoGrant

\* Any other status: only the payment's reference is noted.
NoteOnly(p) == handler[p].status # "pending" /\ Records(p) /\ NoGrant /\ UNCHANGED order

-----------------------------------------------------------------------------
(* Time.                                                                   *)

Age(o) ==
  /\ order[o].status \in Open /\ order[o].age < 2
  /\ order' = [order EXCEPT ![o].age = @ + 1]
  /\ UNCHANGED <<coupon, member, auto, handler, seen, grants, raced, deliveries>>

Step(p) ==
  \/ ValidateCoupon(p) \/ CheckOpen(p) \/ \E o \in Orders : Insert(p, o)
  \/ Voucher(p) \/ Approve(p) \/ Reject(p)
  \/ Activate(p) \/ LeaveToReview(p) \/ NoteOnly(p)

Request(p) ==
  \/ List(p)
  \/ \E u \in Users, plan \in Plans, coded \in BOOLEAN : CreateBegins(p, u, plan, coded)
  \/ \E o \in Orders :
       \/ TakeVoucher(p, o) \/ \E amount \in Amounts : TakeWebhook(p, o, amount)
       \/ \E approve \in BOOLEAN : TakeReview(p, o, approve)

Next ==
  \/ \E p \in Procs : Step(p) \/ Request(p)
  \/ \E o \in Orders : Age(o)

Spec == Init /\ [][Next]_vars

-----------------------------------------------------------------------------
(* Properties.                                                             *)

\* A user has one open order at most, unless two processes overlapped on it.
OneOpenOrder == raced \/ \A u \in Users : Cardinality(OpenOf(u)) <= 1

\* The coupon's count is the number of orders that used it and were not rejected,
\* and never above its limit, unless two processes overlapped. An order that
\* expired keeps its use.
Using == {o \in Orders : order[o].coupon /\ order[o].status # "rejected"}
CouponCountsOrders == raced \/ (coupon = Cardinality(Using) /\ coupon <= MaxUses)

\* An order opens a membership exactly once, with its approval: not again when the
\* webhook is delivered again, nor for an order that was rejected or expired; unless
\* two processes overlapped.
GrantedWithApproval ==
  raced \/ \A o \in Orders : grants[o] = IF order[o].status = "approved" THEN 1 ELSE 0

\* A payment of the right amount that is reported while its order is pending stays
\* served: no review, expiry, voucher, repeated report or report of another amount
\* takes the order back, unless automatic activation is off or two processes overlapped.
PaidInTimeIsServed ==
  raced \/ ~auto \/ \A o \in Orders : seen[o] = "pending" => order[o].status = "approved"

\* Approved, rejected and expired orders keep their status, unless two processes
\* overlapped.
DecidedStays ==
  [][\A o \in Orders : order[o].status \in Closed =>
                         order'[o].status = order[o].status \/ raced']_vars
=============================================================================
