---------------------------- MODULE OrdersProofs ----------------------------
(* Theorems about Orders for every value of its constants: whatever the     *)
(* number of orders, users and server processes.                            *)
EXTENDS Orders, FiniteSetTheorems, TLAPS

OrderRow == [status : Statuses \cup {"none"}, user : Users \cup {None},
             plan : Plans \cup {None}, coupon : BOOLEAN, age : 0..2]
HandlerRow == [op : {"idle", "expired", "checked", "clear", "voucher", "review", "webhook"},
               order : Orders \cup {None}, user : Users \cup {None},
               plan : Plans \cup {None}, status : Statuses \cup {"none"},
               coupon : BOOLEAN, ok : BOOLEAN, dirty : BOOLEAN]

(* What a handler works on exists, and an order that exists is somebody's.  *)
OrderNamed(o) == order[o].status # "none" => order[o].user \in Users /\ order[o].plan \in Plans
HandlerNamed(h) ==
  /\ h.op \in {"voucher", "review", "webhook"} =>
       h.order \in Orders /\ order[h.order].status # "none" /\ h.user = order[h.order].user
  /\ h.op \in {"expired", "checked", "clear"} => h.user \in Users /\ h.plan \in Plans

Typed ==
  /\ order \in [Orders -> OrderRow] /\ coupon \in Nat
  /\ member \in [Users -> Plans \cup {"free"}] /\ auto \in BOOLEAN
  /\ handler \in [Procs -> HandlerRow]
  /\ seen \in [Orders -> Statuses \cup {"none"}]
  /\ grants \in [Orders -> Nat] /\ raced \in BOOLEAN /\ deliveries \in 0..MaxPayments
  /\ \A o \in Orders : OrderNamed(o)
  /\ \A p \in Procs : HandlerNamed(handler[p])

LEMMA TypedIsTypeOK == Typed => TypeOK
BY DEF Typed, TypeOK, OrderRow, HandlerRow

LEMMA StatusFacts ==
  /\ {"pending", "paid", "approved", "rejected", "expired"} \subseteq Statuses
  /\ Open \subseteq Statuses /\ Closed \subseteq Statuses /\ "none" \notin Statuses
BY DEF Statuses, Open, Closed

LEMMA IdleType == Idle \in HandlerRow
BY DEF Idle, HandlerRow, Statuses

\* Every write to the rows of orders that a handler makes.
LEMMA RowTypes ==
  ASSUME order \in [Orders -> OrderRow]
  PROVE  /\ Expired \in [Orders -> OrderRow]
         /\ \A o \in Orders, s \in Statuses : [order EXCEPT ![o].status = s] \in [Orders -> OrderRow]
         /\ \A o \in Orders : order[o].age < 2 => [order EXCEPT ![o].age = @ + 1] \in [Orders -> OrderRow]
BY DEF Expired, OrderRow, Statuses

-----------------------------------------------------------------------------
(* What a step may do to the rows, and what that leaves of a handler.       *)

\* Orders stay who they are; whose status changes is among the users.
Writes(users) ==
  \A o \in Orders :
    /\ order[o].status # "none" =>
         /\ order'[o].status # "none"
         /\ order'[o].user = order[o].user /\ order'[o].plan = order[o].plan
    /\ order'[o].status # order[o].status => order'[o].user \in users

\* What a handler has read still holds, unless another has written since.
HandlerSound(p) ==
  /\ handler[p].op = "voucher" => handler[p].status = "pending"
  /\ handler[p].op = "review" => handler[p].status = "paid"
  /\ handler[p].op = "webhook" => handler[p].status \in {"pending", "paid", "expired"}
  /\ ~handler[p].dirty =>
       /\ handler[p].op \in {"voucher", "review", "webhook"} =>
            order[handler[p].order].status = handler[p].status
       /\ handler[p].op = "clear" => OpenOf(handler[p].user) = {}
       /\ handler[p].op \in {"checked", "clear"} /\ handler[p].coupon => coupon < MaxUses

\* How a commit of p leaves the handler of q.
LEMMA CommitHandlers ==
  ASSUME Typed, NEW p \in Procs, NEW users, NEW next \in HandlerRow, Commits(p, users, next)
  PROVE  /\ handler' \in [Procs -> HandlerRow] /\ raced' \in BOOLEAN
         /\ handler'[p] = next
         /\ \A q \in Procs \ {p} :
              /\ handler'[q].op = handler[q].op /\ handler'[q].order = handler[q].order
              /\ handler'[q].user = handler[q].user /\ handler'[q].plan = handler[q].plan
              /\ handler'[q].status = handler[q].status /\ handler'[q].ok = handler[q].ok
              /\ handler'[q].coupon = handler[q].coupon
              /\ handler[q].dirty \/ Touches(handler[q], users) <=> handler'[q].dirty
<1> DEFINE Left(q) == [handler[q] EXCEPT !.dirty = handler[q].dirty \/ Touches(handler[q], users)]
<1>h. handler \in [Procs -> HandlerRow] /\ raced \in BOOLEAN
  BY DEF Typed
<1>1. handler' = [q \in Procs |-> IF q = p THEN next ELSE Left(q)]
  BY <1>h DEF Commits
<1>2. ASSUME NEW q \in Procs
      PROVE  /\ Left(q) \in HandlerRow
             /\ Left(q).op = handler[q].op /\ Left(q).order = handler[q].order
             /\ Left(q).user = handler[q].user /\ Left(q).plan = handler[q].plan
             /\ Left(q).status = handler[q].status /\ Left(q).ok = handler[q].ok
             /\ Left(q).coupon = handler[q].coupon
             /\ handler[q].dirty \/ Touches(handler[q], users) <=> Left(q).dirty
  <2>1. handler[q] \in HandlerRow
    BY <1>h
  <2>2. (handler[q].dirty \/ Touches(handler[q], users)) \in BOOLEAN
    OBVIOUS
  <2>3. QED
    BY ZenonT(60), <2>1, <2>2 DEF HandlerRow
<1>3. raced' \in BOOLEAN
  BY Zenon DEF Commits
<1>4. QED
  <2> HIDE DEF Left
  <2>1. QED
    BY <1>1, <1>2, <1>3

\* A handler that another one's commit did not mark finds what it had read.
LEMMA CommitSound ==
  ASSUME Typed, NEW p \in Procs, NEW users, NEW next \in HandlerRow, Commits(p, users, next),
         Writes(users), NEW q \in Procs, q # p, HandlerSound(q)
  PROVE  HandlerSound(q)' /\ HandlerNamed(handler[q])'
<1>h. /\ handler'[q].op = handler[q].op /\ handler'[q].order = handler[q].order
      /\ handler'[q].user = handler[q].user /\ handler'[q].plan = handler[q].plan
      /\ handler'[q].status = handler[q].status /\ handler'[q].ok = handler[q].ok
      /\ handler'[q].coupon = handler[q].coupon
      /\ handler[q].dirty \/ Touches(handler[q], users) <=> handler'[q].dirty
  BY CommitHandlers
<1>t. HandlerNamed(handler[q]) /\ order \in [Orders -> OrderRow]
  BY DEF Typed
<1>n. HandlerNamed(handler[q])'
  BY <1>h, <1>t DEF HandlerNamed, Writes
<1>s. ~handler'[q].dirty /\ handler[q].op \in {"voucher", "review", "webhook"} =>
        order'[handler[q].order].status = handler[q].status
  BY <1>h, <1>t DEF HandlerSound, HandlerNamed, Writes, Touches
<1>o. ~handler'[q].dirty /\ handler[q].op = "clear" => OpenOf(handler[q].user)' = {}
  <2>1. SUFFICES ASSUME ~handler'[q].dirty, handler[q].op = "clear",
                        NEW o \in Orders, order'[o].user = handler[q].user, order'[o].status \in Open
                 PROVE  FALSE
    BY <1>h DEF OpenOf
  <2>2. OpenOf(handler[q].user) = {} /\ handler[q].user \notin users
    BY <1>h, <2>1 DEF HandlerSound, Touches
  <2>3. order'[o].status = order[o].status
    BY <2>1, <2>2 DEF Writes
  <2>4. order[o].status # "none"
    BY <2>1, <2>3 DEF Open
  <2>5. order[o].user = handler[q].user
    BY <2>1, <2>4 DEF Writes
  <2>6. QED
    BY <2>1, <2>2, <2>3, <2>5 DEF OpenOf
<1>c. ~handler'[q].dirty /\ handler[q].op \in {"checked", "clear"} /\ handler[q].coupon => coupon' < MaxUses
  BY <1>h DEF HandlerSound, Touches
<1>q. QED
  <2>1. HandlerSound(q)'
    BY <1>h, <1>s, <1>o, <1>c DEF HandlerSound
  <2>2. QED
    BY <1>n, <2>1

OrdersTyped == order \in [Orders -> OrderRow] /\ \A o \in Orders : OrderNamed(o)
AllSound == \A p \in Procs : HandlerSound(p)

LEMMA SetWrites ==
  ASSUME Typed, NEW p \in Procs, handler[p].op \in {"voucher", "review", "webhook"},
         NEW s \in Statuses, order' = [order EXCEPT ![handler[p].order].status = s]
  PROVE  Writes({handler[p].user}) /\ OrdersTyped'
<1>1. PICK o \in Orders : o = handler[p].order /\ order[o].status # "none" /\ handler[p].user = order[o].user
  BY DEF Typed, HandlerNamed
<1>2. order \in [Orders -> OrderRow] /\ \A q \in Orders : OrderNamed(q)
  BY DEF Typed
<1>3. order' = [order EXCEPT ![o].status = s] /\ order' \in [Orders -> OrderRow]
  BY <1>1, <1>2, RowTypes
<1>4. \A q \in Orders : order'[q].user = order[q].user /\ order'[q].plan = order[q].plan
                       /\ (q # o => order'[q] = order[q]) /\ order'[o].status = s
  BY <1>2, <1>3 DEF OrderRow
<1>5. QED
  BY <1>1, <1>2, <1>3, <1>4, StatusFacts DEF Writes, OrdersTyped, OrderNamed

LEMMA ExpireWrites ==
  ASSUME Typed, order' = Expired
  PROVE  /\ Writes({order[o].user : o \in StaleSet}) /\ OrdersTyped'
         /\ \A o \in Orders : order'[o].status = order[o].status \/
                               (order[o].status \in Open /\ order'[o].status = "expired")
         /\ \A o \in Orders : order'[o].user = order[o].user /\ order'[o].coupon = order[o].coupon
<1>2. order \in [Orders -> OrderRow] /\ \A q \in Orders : OrderNamed(q)
  BY DEF Typed
<1>3. order' \in [Orders -> OrderRow]
  BY <1>2, RowTypes
<1>4. \A q \in Orders : /\ order'[q].user = order[q].user /\ order'[q].plan = order[q].plan
                        /\ order'[q].coupon = order[q].coupon
                        /\ order'[q].status = IF Stale(q) THEN "expired" ELSE order[q].status
  BY <1>2 DEF OrderRow, Expired
<1>5. \A q \in Orders : Stale(q) => order[q].status \in Open /\ q \in StaleSet
  BY DEF Stale, StaleSet, Open
<1>6. QED
  BY <1>2, <1>3, <1>4, <1>5, StatusFacts DEF Writes, OrdersTyped, OrderNamed

LEMMA InsertWrites ==
  ASSUME Typed, NEW p \in Procs, handler[p].op = "clear", NEW o \in Orders, order[o].status = "none",
         order' = [order EXCEPT ![o] = [status |-> "pending", user |-> handler[p].user, age |-> 0,
                                        plan |-> handler[p].plan, coupon |-> handler[p].coupon]]
  PROVE  Writes({handler[p].user}) /\ OrdersTyped'
<1>1. handler[p].user \in Users /\ handler[p].plan \in Plans /\ handler[p].coupon \in BOOLEAN
  BY DEF Typed, HandlerNamed, HandlerRow
<1>2. order \in [Orders -> OrderRow] /\ \A q \in Orders : OrderNamed(q)
  BY DEF Typed
<1>3. [status |-> "pending", user |-> handler[p].user, age |-> 0,
       plan |-> handler[p].plan, coupon |-> handler[p].coupon] \in OrderRow
  BY <1>1, StatusFacts DEF OrderRow
<1>4. order' \in [Orders -> OrderRow]
  BY <1>2, <1>3
<1>5. order'[o].status = "pending" /\ order'[o].user = handler[p].user /\ order'[o].plan = handler[p].plan
  BY <1>2
<1>6. \A q \in Orders \ {o} : order'[q] = order[q]
  BY <1>2
<1>7. QED
  BY <1>1, <1>2, <1>4, <1>5, <1>6 DEF Writes, OrdersTyped, OrderNamed

LEMMA GrantTypes ==
  ASSUME Typed, NEW o \in Orders, order[o].status # "none", Grants(o)
  PROVE  member' \in [Users -> Plans \cup {"free"}] /\ grants' \in [Orders -> Nat]
BY DEF Typed, Grants, OrderNamed

\* A commit after which p is idle, or begins to create an order.
LEMMA CommitKeeps ==
  ASSUME Typed, AllSound, NEW p \in Procs, NEW users, NEW next \in HandlerRow,
         next.op \in {"idle", "expired"}, HandlerNamed(next)',
         Commits(p, users, next), Writes(users), OrdersTyped', coupon' \in Nat,
         UNCHANGED auto, deliveries' \in 0..MaxPayments,
         member' \in [Users -> Plans \cup {"free"}], grants' \in [Orders -> Nat],
         seen' \in [Orders -> Statuses \cup {"none"}]
  PROVE  Typed' /\ AllSound'
<1>1. handler' \in [Procs -> HandlerRow] /\ raced' \in BOOLEAN /\ handler'[p] = next
  BY CommitHandlers
<1>2. ASSUME NEW q \in Procs PROVE HandlerSound(q)' /\ HandlerNamed(handler[q])'
  <2>1. CASE q = p
    BY <1>1, <2>1 DEF HandlerSound, HandlerNamed
  <2>2. CASE q # p
    BY <2>2, CommitSound DEF AllSound
  <2>3. QED
    BY <2>1, <2>2
<1>3. QED
  BY <1>1, <1>2 DEF Typed, AllSound, OrdersTyped

\* A step of p that only reads.
LEMMA ReadKeeps ==
  ASSUME Typed, AllSound, NEW p \in Procs, NEW h \in HandlerRow, Reads(p, h),
         UNCHANGED <<order, coupon, member, auto, seen, grants, raced>>,
         deliveries' \in 0..MaxPayments, HandlerNamed(h), HandlerSound(p)'
  PROVE  Typed' /\ AllSound'
<1>1. handler' \in [Procs -> HandlerRow] /\ handler'[p] = h /\ \A q \in Procs \ {p} : handler'[q] = handler[q]
  BY DEF Typed, Reads
<1>2. ASSUME NEW q \in Procs, q # p PROVE HandlerSound(q)' /\ HandlerNamed(handler[q])'
  <2>1. OpenOf(handler[q].user)' = OpenOf(handler[q].user)
    BY <1>1, <1>2 DEF OpenOf
  <2>2. HandlerSound(q) /\ HandlerNamed(handler[q]) /\ handler'[q] = handler[q]
    BY <1>1, <1>2 DEF Typed, AllSound
  <2>3. HandlerNamed(handler[q])'
    BY <2>2 DEF HandlerNamed
  <2>4. HandlerSound(q)'
    BY <2>1, <2>2 DEF HandlerSound
  <2>5. QED
    BY <2>3, <2>4
<1>3. HandlerNamed(handler[p])'
  BY <1>1 DEF HandlerNamed
<1>4. QED
  BY <1>1, <1>2, <1>3 DEF Typed, AllSound, OrderNamed

LEMMA RequestKeeps ==
  ASSUME Typed, AllSound, NEW p \in Procs, Request(p)
  PROVE  Typed' /\ AllSound'
<1>t. /\ order \in [Orders -> OrderRow] /\ handler \in [Procs -> HandlerRow]
      /\ deliveries \in 0..MaxPayments
      /\ coupon \in Nat /\ member \in [Users -> Plans \cup {"free"}] /\ grants \in [Orders -> Nat]
      /\ seen \in [Orders -> Statuses \cup {"none"}]
      /\ \A o \in Orders : OrderNamed(o)
  BY DEF Typed
<1>i. HandlerNamed(Idle)' /\ Idle.op = "idle"
  BY DEF HandlerNamed, Idle
<1>1. CASE List(p)
  <2>1. Writes({order[o].user : o \in StaleSet}) /\ OrdersTyped'
    BY <1>1, ExpireWrites DEF List
  <2>2. QED
    BY <1>1, <1>t, <1>i, <2>1, IdleType, CommitKeeps DEF List, NoGrant
<1>2. ASSUME NEW u \in Users, NEW plan \in Plans, NEW coded \in BOOLEAN, CreateBegins(p, u, plan, coded)
      PROVE  Typed' /\ AllSound'
  <2> DEFINE h == [Idle EXCEPT !.op = "expired", !.user = u, !.plan = plan, !.coupon = coded]
  <2>1. Writes({order[o].user : o \in StaleSet}) /\ OrdersTyped'
    BY <1>2, ExpireWrites DEF CreateBegins
  <2>2. h \in HandlerRow /\ h.op = "expired" /\ h.user = u /\ h.plan = plan
    BY <1>2, IdleType DEF Idle, HandlerRow
  <2>3. HandlerNamed(h)'
    BY <1>2, <2>2 DEF HandlerNamed
  <2>4. Commits(p, {order[o].user : o \in StaleSet}, h)
    BY <1>2 DEF CreateBegins
  <2> HIDE DEF h
  <2>5. QED
    BY <1>2, <1>t, <2>1, <2>2, <2>3, <2>4, CommitKeeps DEF CreateBegins, NoGrant
<1>3. ASSUME NEW o \in Orders, NEW op \in {"voucher", "review", "webhook"}, NEW ok \in BOOLEAN,
             order[o].status # "none",
             op = "voucher" => order[o].status = "pending",
             op = "review" => order[o].status = "paid",
             op = "webhook" => Payable(o),
             Reads(p, [Idle EXCEPT !.op = op, !.order = o, !.user = order[o].user,
                                   !.status = order[o].status, !.ok = ok]),
             UNCHANGED <<order, coupon, member, auto, seen, grants, raced>>,
             deliveries' \in 0..MaxPayments
      PROVE  Typed' /\ AllSound'
  <2> DEFINE h == [Idle EXCEPT !.op = op, !.order = o, !.user = order[o].user,
                               !.status = order[o].status, !.ok = ok]
  <2>1. order[o].user \in Users /\ order[o].status \in Statuses \cup {"none"}
    BY <1>3, <1>t DEF OrderNamed, OrderRow
  <2>2. /\ h \in HandlerRow /\ h.op = op /\ h.order = o /\ h.user = order[o].user
        /\ h.status = order[o].status /\ (h.ok <=> ok)
    BY <1>3, <2>1, IdleType DEF Idle, HandlerRow
  <2>3. HandlerNamed(h)
    BY <1>3, <2>2 DEF HandlerNamed
  <2>4. Reads(p, h)
    BY <1>3
  <2> HIDE DEF h
  <2>5. handler'[p] = h
    BY <1>t, <2>4 DEF Reads
  <2>6. HandlerSound(p)'
    BY <1>3, <2>1, <2>2, <2>5 DEF HandlerSound, Payable, Statuses
  <2>7. QED
    BY <1>3, <2>2, <2>3, <2>4, <2>6, ReadKeeps
<1>4. ASSUME NEW o \in Orders, TakeVoucher(p, o) PROVE Typed' /\ AllSound'
  BY <1>3, <1>4, <1>t DEF TakeVoucher, Takes
<1>5. ASSUME NEW o \in Orders, NEW approve \in BOOLEAN, TakeReview(p, o, approve)
      PROVE  Typed' /\ AllSound'
  BY <1>3, <1>5, <1>t DEF TakeReview, Takes, Reviewable
<1>6. ASSUME NEW o \in Orders, NEW amount \in Amounts, TakeWebhook(p, o, amount)
      PROVE  Typed' /\ AllSound'
  <2>1. (amount = "right") \in BOOLEAN
    OBVIOUS
  <2>2. deliveries' \in 0..MaxPayments
    BY <1>6, <1>t, UsesInNat DEF TakeWebhook
  <2>3. QED
    BY <1>3, <1>6, <2>1, <2>2 DEF TakeWebhook, Payable
<1>7. QED
  BY <1>1, <1>2, <1>4, <1>5, <1>6 DEF Request

LEMMA StepKeeps ==
  ASSUME Typed, AllSound, NEW p \in Procs, Step(p)
  PROVE  Typed' /\ AllSound'
<1>t. /\ order \in [Orders -> OrderRow] /\ handler \in [Procs -> HandlerRow]
      /\ deliveries \in 0..MaxPayments
      /\ coupon \in Nat /\ member \in [Users -> Plans \cup {"free"}] /\ grants \in [Orders -> Nat]
      /\ seen \in [Orders -> Statuses \cup {"none"}]
      /\ HandlerNamed(handler[p]) /\ HandlerSound(p)
  BY DEF Typed, AllSound
<1>i. HandlerNamed(Idle)' /\ HandlerNamed(Idle) /\ Idle.op = "idle"
  BY DEF HandlerNamed, Idle
<1>o. handler[p].op \in {"voucher", "review", "webhook"} =>
        handler[p].order \in Orders /\ order[handler[p].order].status # "none"
  BY <1>t DEF HandlerNamed
<1>n. UNCHANGED order => Writes({handler[p].user}) /\ OrdersTyped'
  BY DEF Typed, Writes, OrdersTyped, OrderNamed
<1>1. CASE ValidateCoupon(p)
  <2> DEFINE h == [handler[p] EXCEPT !.op = "checked"]
  <2>1. /\ h \in HandlerRow /\ h.op = "checked" /\ h.user = handler[p].user
        /\ h.plan = handler[p].plan /\ h.coupon = handler[p].coupon
    BY <1>t DEF HandlerRow
  <2>2. HandlerNamed(h)
    BY <1>1, <1>t, <2>1 DEF ValidateCoupon, HandlerNamed
  <2>3. (handler[p].coupon => Usable) => Reads(p, h)
    BY <1>1 DEF ValidateCoupon
  <2>4. ~(handler[p].coupon => Usable) => Reads(p, Idle)
    BY <1>1 DEF ValidateCoupon
  <2> HIDE DEF h
  <2>5. CASE handler[p].coupon => Usable
    <3>1. handler'[p] = h
      BY <1>t, <2>3, <2>5 DEF Reads
    <3>2. HandlerSound(p)'
      BY <1>1, <2>1, <2>5, <3>1 DEF HandlerSound, Usable, ValidateCoupon
    <3>3. QED
      BY <1>1, <1>t, <2>1, <2>2, <2>3, <2>5, <3>2, ReadKeeps DEF ValidateCoupon
  <2>6. CASE ~(handler[p].coupon => Usable)
    <3>1. handler'[p] = Idle
      BY <1>t, <2>4, <2>6 DEF Reads
    <3>2. HandlerSound(p)'
      BY <3>1 DEF HandlerSound, Idle
    <3>3. QED
      BY <1>1, <1>t, <1>i, <2>4, <2>6, <3>2, IdleType, ReadKeeps DEF ValidateCoupon
  <2>7. QED
    BY <2>5, <2>6
<1>2. CASE CheckOpen(p)
  <2> DEFINE h == [handler[p] EXCEPT !.op = "clear"]
  <2>1. /\ h \in HandlerRow /\ h.op = "clear" /\ h.user = handler[p].user
        /\ h.plan = handler[p].plan /\ h.coupon = handler[p].coupon /\ h.dirty = handler[p].dirty
    BY <1>t DEF HandlerRow
  <2>2. HandlerNamed(h)
    BY <1>2, <1>t, <2>1 DEF CheckOpen, HandlerNamed
  <2>3. ~Blocked(handler[p].user) => Reads(p, h)
    BY <1>2 DEF CheckOpen
  <2>4. Blocked(handler[p].user) => Reads(p, Idle)
    BY <1>2 DEF CheckOpen
  <2> HIDE DEF h
  <2>5. CASE ~Blocked(handler[p].user)
    <3>1. handler'[p] = h
      BY <1>t, <2>3, <2>5 DEF Reads
    <3>2. OpenOf(handler[p].user)' = {}
      BY <1>2, <2>1, <2>5, <3>1 DEF Blocked, OpenOf, CheckOpen
    <3>3. HandlerSound(p)'
      BY <1>2, <1>t, <2>1, <3>1, <3>2 DEF HandlerSound, CheckOpen
    <3>4. QED
      BY <1>2, <1>t, <2>1, <2>2, <2>3, <2>5, <3>3, ReadKeeps DEF CheckOpen
  <2>6. CASE Blocked(handler[p].user)
    <3>1. handler'[p] = Idle
      BY <1>t, <2>4, <2>6 DEF Reads
    <3>2. HandlerSound(p)'
      BY <3>1 DEF HandlerSound, Idle
    <3>3. QED
      BY <1>2, <1>t, <1>i, <2>4, <2>6, <3>2, IdleType, ReadKeeps DEF CheckOpen
  <2>7. QED
    BY <2>5, <2>6
<1>3. ASSUME NEW o \in Orders, Insert(p, o) PROVE Typed' /\ AllSound'
  <2>1. Writes({handler[p].user}) /\ OrdersTyped'
    BY <1>3, InsertWrites DEF Insert
  <2>2. QED
    BY <1>3, <1>t, <1>i, <2>1, IdleType, CommitKeeps DEF Insert, NoGrant
<1>4. CASE Voucher(p)
  <2>1. Writes({handler[p].user}) /\ OrdersTyped'
    BY <1>4, StatusFacts, SetWrites DEF Voucher, Sets
  <2>2. QED
    BY <1>4, <1>t, <1>i, <2>1, IdleType, CommitKeeps DEF Voucher, NoGrant
<1>5. CASE Approve(p)
  <2>1. Writes({handler[p].user}) /\ OrdersTyped'
    BY <1>5, StatusFacts, SetWrites DEF Approve, Sets
  <2>2. member' \in [Users -> Plans \cup {"free"}] /\ grants' \in [Orders -> Nat]
    BY <1>5, <1>o, GrantTypes DEF Approve
  <2>3. QED
    BY <1>5, <1>t, <1>i, <2>1, <2>2, IdleType, CommitKeeps DEF Approve
<1>6. CASE Reject(p)
  <2>1. Writes({handler[p].user}) /\ OrdersTyped'
    BY <1>6, StatusFacts, SetWrites DEF Reject, Sets
  <2>2. coupon' \in Nat
    BY <1>6, <1>t DEF Reject, GivenBack
  <2>3. QED
    BY <1>6, <1>t, <1>i, <2>1, <2>2, IdleType, CommitKeeps DEF Reject, NoGrant
<1>7. ASSUME Records(p), Writes({handler[p].user}), OrdersTyped',
             member' \in [Users -> Plans \cup {"free"}], grants' \in [Orders -> Nat]
      PROVE  Typed' /\ AllSound'
  <2>1. seen' \in [Orders -> Statuses \cup {"none"}]
    BY <1>7, <1>t DEF Records, HandlerRow
  <2>2. QED
    BY <1>7, <1>t, <1>i, <2>1, IdleType, CommitKeeps DEF Records
<1>8. CASE Activate(p)
  <2>1. Writes({handler[p].user}) /\ OrdersTyped'
    BY <1>8, StatusFacts, SetWrites DEF Activate, Records, Sets
  <2>2. member' \in [Users -> Plans \cup {"free"}] /\ grants' \in [Orders -> Nat]
    BY <1>8, <1>o, GrantTypes DEF Activate, Records
  <2>3. QED
    BY <1>7, <1>8, <2>1, <2>2 DEF Activate
<1>9. CASE LeaveToReview(p)
  <2>1. Writes({handler[p].user}) /\ OrdersTyped'
    BY <1>9, StatusFacts, SetWrites DEF LeaveToReview, Records, Sets
  <2>2. QED
    BY <1>7, <1>9, <1>t, <2>1 DEF LeaveToReview, NoGrant
<1>10. CASE NoteOnly(p)
  BY <1>7, <1>10, <1>n, <1>t DEF NoteOnly, NoGrant
<1>11. QED
  BY <1>1, <1>2, <1>3, <1>4, <1>5, <1>6, <1>8, <1>9, <1>10 DEF Step

LEMMA TypedInvariant == Spec => [](Typed /\ AllSound)
<1>1. Init => Typed /\ AllSound
  <2> SUFFICES ASSUME Init PROVE Typed /\ AllSound
    OBVIOUS
  <2>1. order \in [Orders -> OrderRow] /\ \A o \in Orders : OrderNamed(o)
    BY DEF Init, NoOrder, OrderRow, OrderNamed
  <2>2. handler \in [Procs -> HandlerRow] /\ \A p \in Procs : handler[p] = Idle
    BY IdleType DEF Init
  <2>3. raced \in BOOLEAN /\ auto \in BOOLEAN
    BY Zenon DEF Init
  <2>4. /\ coupon \in Nat /\ member \in [Users -> Plans \cup {"free"}]
        /\ seen \in [Orders -> Statuses \cup {"none"}]
        /\ grants \in [Orders -> Nat] /\ deliveries \in 0..MaxPayments
    BY UsesInNat DEF Init
  <2>5. \A p \in Procs : HandlerNamed(handler[p]) /\ HandlerSound(p)
    BY <2>2 DEF HandlerNamed, HandlerSound, Idle
  <2>6. QED
    BY <2>1, <2>2, <2>3, <2>4, <2>5 DEF Typed, AllSound
<1>2. ASSUME Typed, AllSound, Next PROVE Typed' /\ AllSound'
  <2>t. order \in [Orders -> OrderRow] /\ handler \in [Procs -> HandlerRow]
    BY <1>2 DEF Typed
  <2>1. ASSUME NEW o \in Orders, Age(o) PROVE Typed' /\ AllSound'
    <3>1. order' \in [Orders -> OrderRow]
      BY <2>1, <2>t, RowTypes DEF Age
    <3>2. \A q \in Orders : order'[q].status = order[q].status /\ order'[q].user = order[q].user
                           /\ order'[q].plan = order[q].plan
      BY <2>1, <2>t DEF Age, OrderRow
    <3>3. \A u : OpenOf(u)' = OpenOf(u)
      BY <3>2 DEF OpenOf
    <3>4. UNCHANGED <<coupon, member, auto, handler, seen, grants, raced, deliveries>>
      BY <2>1 DEF Age
    <3>5. \A p \in Procs : HandlerNamed(handler[p])'
      BY <1>2, <3>2, <3>4 DEF HandlerNamed, Typed
    <3>6. \A p \in Procs : HandlerSound(p)'
      <4>1. SUFFICES ASSUME NEW p \in Procs PROVE HandlerSound(p)'
        OBVIOUS
      <4>2. HandlerSound(p) /\ HandlerNamed(handler[p]) /\ handler' = handler /\ coupon' = coupon
        BY <1>2, <3>4 DEF AllSound, Typed
      <4>3. OpenOf(handler[p].user)' = OpenOf(handler[p].user)
        BY <3>3, <4>2
      <4>4. QED
        BY <3>2, <4>2, <4>3 DEF HandlerSound, HandlerNamed
    <3>7. \A q \in Orders : OrderNamed(q)'
      BY <1>2, <3>2 DEF Typed, OrderNamed
    <3>8. QED
      BY <1>2, <3>1, <3>4, <3>5, <3>6, <3>7 DEF Typed, AllSound
  <2>2. QED
    BY <1>2, <2>1, RequestKeeps, StepKeeps DEF Next
<1>3. ASSUME Typed, AllSound, UNCHANGED vars PROVE Typed' /\ AllSound'
  <2>1. Typed'
    BY <1>3 DEF vars, Typed, OrderNamed, HandlerNamed
  <2>2. AllSound'
    BY <1>3 DEF vars, AllSound, HandlerSound, OpenOf
  <2>3. QED
    BY <2>1, <2>2
<1>4. QED
  BY <1>1, <1>2, <1>3, PTL DEF Spec

\* Every state has the types of TypeOK: a status among the five, a handler that has
\* read one row, a count of uses that is a number.
THEOREM TypeCorrect == Spec => []TypeOK
BY TypedInvariant, TypedIsTypeOK, PTL

-----------------------------------------------------------------------------
(* The four things that a step which nothing raced can do to the orders.    *)

SameRow(o) == /\ order'[o].status = order[o].status
              /\ order'[o].user = order[o].user /\ order'[o].coupon = order[o].coupon

Stays == (\A o \in Orders : SameRow(o)) /\ UNCHANGED <<coupon, grants>>

Expires ==
  /\ \A o \in Orders : /\ order'[o].user = order[o].user /\ order'[o].coupon = order[o].coupon
                       /\ \/ order'[o].status = order[o].status
                          \/ order[o].status \in Open /\ order'[o].status = "expired"
  /\ UNCHANGED <<coupon, grants>>

Opens(o) ==
  /\ order[o].status = "none" /\ order'[o].status = "pending"
  /\ OpenOf(order'[o].user) = {}
  /\ order'[o].coupon \in BOOLEAN /\ (order'[o].coupon => coupon < MaxUses)
  /\ coupon' = IF order'[o].coupon THEN coupon + 1 ELSE coupon
  /\ (\A q \in Orders \ {o} : SameRow(q)) /\ UNCHANGED grants

Turns(o) ==
  /\ order[o].status \in Open /\ order'[o].user = order[o].user /\ order'[o].coupon = order[o].coupon
  /\ \A q \in Orders \ {o} : SameRow(q)
  /\ \/ order'[o].status = "paid" /\ UNCHANGED <<coupon, grants>>
     \/ /\ order'[o].status = "approved" /\ grants' = [grants EXCEPT ![o] = @ + 1]
        /\ UNCHANGED coupon
     \/ order'[o].status = "rejected" /\ coupon' = GivenBack(o) /\ UNCHANGED grants

Shape == Stays \/ Expires \/ \E o \in Orders : Opens(o) \/ Turns(o)

LEMMA SetRow ==
  ASSUME Typed, NEW o \in Orders, NEW s \in Statuses, order' = [order EXCEPT ![o].status = s]
  PROVE  /\ order'[o].user = order[o].user /\ order'[o].coupon = order[o].coupon
         /\ order'[o].status = s
         /\ \A q \in Orders \ {o} : SameRow(q)
BY DEF Typed, OrderRow, SameRow

LEMMA StepShape ==
  ASSUME Typed, AllSound, NEW p \in Procs, Step(p), ~raced'
  PROVE  Shape
<1>t. /\ order \in [Orders -> OrderRow] /\ handler \in [Procs -> HandlerRow]
      /\ HandlerNamed(handler[p]) /\ HandlerSound(p)
  BY DEF Typed, AllSound
<1>s. UNCHANGED <<order, coupon, grants>> => Shape
  BY DEF Shape, Stays, SameRow
<1>c. ASSUME NEW users, NEW next, Commits(p, users, next) PROVE ~handler[p].dirty
  BY <1>c DEF Commits
<1>o. ASSUME ~handler[p].dirty, handler[p].op \in {"voucher", "review", "webhook"}
      PROVE  handler[p].order \in Orders /\ order[handler[p].order].status = handler[p].status
  BY <1>t, <1>o DEF HandlerNamed, HandlerSound
<1>1. CASE ValidateCoupon(p) \/ CheckOpen(p)
  BY <1>1, <1>s DEF ValidateCoupon, CheckOpen
<1>2. ASSUME NEW o \in Orders, Insert(p, o) PROVE Shape
  <2>1. ~handler[p].dirty
    BY <1>2, <1>c DEF Insert
  <2>2. /\ order'[o].status = "pending" /\ order'[o].user = handler[p].user
        /\ order'[o].coupon = handler[p].coupon
        /\ \A q \in Orders \ {o} : order'[q] = order[q]
    BY <1>2, <1>t DEF Insert
  <2>3. OpenOf(handler[p].user) = {} /\ (handler[p].coupon => coupon < MaxUses)
    BY <1>2, <1>t, <2>1 DEF Insert, HandlerSound
  <2>4. handler[p].coupon \in BOOLEAN
    BY <1>t DEF HandlerRow
  <2>5. Opens(o)
    BY <1>2, <2>2, <2>3, <2>4 DEF Insert, Opens, SameRow, NoGrant
  <2>6. QED
    BY <2>5 DEF Shape
<1>3. CASE Voucher(p)
  <2>1. ~handler[p].dirty /\ handler[p].op = "voucher"
    BY <1>3, <1>c DEF Voucher
  <2>2. PICK o \in Orders : o = handler[p].order /\ order[o].status = "pending"
    BY <1>o, <1>t, <2>1 DEF HandlerSound
  <2>3. Turns(o)
    BY <1>3, <2>2, SetRow, StatusFacts DEF Voucher, Sets, Turns, Open, NoGrant
  <2>4. QED
    BY <2>3 DEF Shape
<1>4. CASE Approve(p) \/ Reject(p)
  <2>1. ~handler[p].dirty /\ handler[p].op = "review"
    BY <1>4, <1>c DEF Approve, Reject
  <2>2. PICK o \in Orders : o = handler[p].order /\ order[o].status = "paid"
    BY <1>o, <1>t, <2>1 DEF HandlerSound
  <2>3. Turns(o)
    BY <1>4, <2>2, SetRow, StatusFacts DEF Approve, Reject, Sets, Grants, Turns, Open, NoGrant
  <2>4. QED
    BY <2>3 DEF Shape
<1>5. CASE Activate(p) \/ LeaveToReview(p)
  <2>1. ~handler[p].dirty /\ handler[p].op = "webhook" /\ handler[p].status = "pending"
    BY <1>5, <1>c DEF Activate, LeaveToReview, Records, Fulfils
  <2>2. PICK o \in Orders : o = handler[p].order /\ order[o].status = "pending"
    BY <1>o, <2>1
  <2>3. Turns(o)
    BY <1>5, <2>2, SetRow, StatusFacts DEF Activate, LeaveToReview, Records, Sets, Grants, Turns, Open, NoGrant
  <2>4. QED
    BY <2>3 DEF Shape
<1>6. CASE NoteOnly(p)
  BY <1>6, <1>s DEF NoteOnly, Records, NoGrant
<1>7. QED
  BY <1>1, <1>2, <1>3, <1>4, <1>5, <1>6 DEF Step

LEMMA NextShape ==
  ASSUME Typed, AllSound, Next, ~raced'
  PROVE  Shape
<1>s. UNCHANGED <<order, coupon, grants>> => Shape
  BY DEF Shape, Stays, SameRow
<1>1. ASSUME NEW p \in Procs, Request(p) PROVE Shape
  <2>1. CASE order' = Expired
    <3>1. UNCHANGED <<coupon, grants>>
      BY <1>1, <2>1 DEF Request, List, CreateBegins, TakeVoucher, TakeReview, TakeWebhook, Takes, NoGrant
    <3>2. Expires
      BY <2>1, <3>1, ExpireWrites DEF Expires
    <3>3. QED
      BY <3>2 DEF Shape
  <2>2. CASE order' # Expired
    BY <1>1, <1>s, <2>2 DEF Request, List, CreateBegins, TakeVoucher, TakeReview, TakeWebhook, Takes
  <2>3. QED
    BY <2>1, <2>2
<1>2. ASSUME NEW o \in Orders, Age(o) PROVE Shape
  <2>1. \A q \in Orders : SameRow(q)
    BY <1>2 DEF Age, Typed, OrderRow, SameRow
  <2>2. QED
    BY <1>2, <2>1 DEF Age, Shape, Stays
<1>3. QED
  BY <1>1, <1>2, StepShape DEF Next

-----------------------------------------------------------------------------
(* What these shapes keep.                                                  *)

GrantedOnce == \A o \in Orders : grants[o] = IF order[o].status = "approved" THEN 1 ELSE 0
OneEach ==
  \A o, q \in Orders :
    order[o].status \in Open /\ order[q].status \in Open /\ order[o].user = order[q].user => o = q
Counted ==
  /\ \A o \in Orders : order[o].status = "none" => ~order[o].coupon
  /\ coupon = Cardinality(Using) /\ coupon <= MaxUses

LEMMA ShapeKeepsGrants ==
  ASSUME Typed, GrantedOnce, Shape
  PROVE  GrantedOnce'
<1>g. grants \in [Orders -> Nat]
  BY DEF Typed
<1>1. CASE Stays
  BY <1>1 DEF Stays, SameRow, GrantedOnce
<1>2. CASE Expires
  BY <1>2 DEF Expires, GrantedOnce, Open
<1>3. ASSUME NEW o \in Orders, Opens(o) PROVE GrantedOnce'
  BY <1>3 DEF Opens, SameRow, GrantedOnce
<1>4. ASSUME NEW o \in Orders, Turns(o) PROVE GrantedOnce'
  <2>1. grants[o] = 0
    BY <1>4 DEF Turns, GrantedOnce, Open
  <2>2. grants'[o] = IF order'[o].status = "approved" THEN 1 ELSE 0
    BY <1>4, <1>g, <2>1 DEF Turns
  <2>3. \A q \in Orders \ {o} : grants'[q] = grants[q] /\ order'[q].status = order[q].status
    BY <1>4, <1>g DEF Turns, SameRow
  <2>4. QED
    BY <2>2, <2>3 DEF GrantedOnce
<1>5. QED
  BY <1>1, <1>2, <1>3, <1>4 DEF Shape

LEMMA ShapeKeepsOneEach ==
  ASSUME OneEach, Shape
  PROVE  OneEach'
<1>1. CASE Stays
  BY <1>1 DEF Stays, SameRow, OneEach
<1>2. CASE Expires
  BY <1>2 DEF Expires, OneEach, Open
<1>3. ASSUME NEW o \in Orders, Opens(o) PROVE OneEach'
  <2>1. \A q \in Orders \ {o} : SameRow(q) /\ ~(order[q].user = order'[o].user /\ order[q].status \in Open)
    BY <1>3 DEF Opens, OpenOf
  <2>2. QED
    BY <1>3, <2>1 DEF SameRow, OneEach
<1>4. ASSUME NEW o \in Orders, Turns(o) PROVE OneEach'
  BY <1>4 DEF Turns, SameRow, OneEach
<1>5. QED
  BY <1>1, <1>2, <1>3, <1>4 DEF Shape

LEMMA ShapeKeepsCount ==
  ASSUME Typed, Counted, Shape
  PROVE  Counted'
<1>f. IsFiniteSet(Using) /\ coupon \in Nat /\ MaxUses \in Nat /\ order \in [Orders -> OrderRow]
  BY OrdersFinite, UsesInNat, FS_Subset DEF Using, Typed
<1>u. ASSUME Using' = Using, UNCHANGED coupon,
             \A o \in Orders : order'[o].status = "none" => ~order'[o].coupon
      PROVE  Counted'
  BY <1>u DEF Counted
<1>1. CASE Stays
  BY <1>1, <1>u DEF Stays, SameRow, Counted, Using
<1>2. CASE Expires
  <2>1. Using' = Using
    BY <1>2 DEF Expires, Using, Open
  <2>2. QED
    BY <1>2, <1>u, <2>1 DEF Expires, Counted, Open
<1>3. ASSUME NEW o \in Orders, Opens(o) PROVE Counted'
  <2>1. o \notin Using
    BY <1>3 DEF Opens, Counted, Using
  <2>2. \A q \in Orders : order'[q].status = "none" => ~order'[q].coupon
    BY <1>3 DEF Opens, SameRow, Counted
  <2>3. CASE order'[o].coupon
    <3>1. Using' = Using \cup {o}
      BY <1>3, <2>3 DEF Opens, SameRow, Using
    <3>2. Cardinality(Using') = Cardinality(Using) + 1
      BY <1>f, <2>1, <3>1, FS_AddElement
    <3>3. coupon' = coupon + 1 /\ coupon < MaxUses
      BY <1>3, <2>3 DEF Opens
    <3>4. QED
      BY <1>f, <2>2, <3>2, <3>3 DEF Counted
  <2>4. CASE ~order'[o].coupon
    <3>1. Using' = Using
      BY <1>3, <2>1, <2>4 DEF Opens, SameRow, Using
    <3>2. QED
      BY <1>3, <1>u, <2>2, <2>4, <3>1 DEF Opens
  <2>5. QED
    BY <2>3, <2>4
<1>4. ASSUME NEW o \in Orders, Turns(o) PROVE Counted'
  <2>1. \A q \in Orders : order'[q].status = "none" => ~order'[q].coupon
    BY <1>4 DEF Turns, SameRow, Counted
  <2>2. order[o].status # "rejected"
    BY <1>4 DEF Turns, Open
  <2>3. CASE order'[o].status = "rejected" /\ order[o].coupon
    <3>1. Using' = Using \ {o} /\ o \in Using
      BY <1>4, <2>2, <2>3 DEF Turns, SameRow, Using
    <3>2. Cardinality(Using') = Cardinality(Using) - 1
      BY <1>f, <3>1, FS_RemoveElement
    <3>3. Cardinality(Using') \in Nat
      BY <1>f, <3>1, FS_RemoveElement, FS_CardinalityType
    <3>4. coupon > 0 /\ coupon' = coupon - 1
      BY <1>4, <1>f, <2>3, <3>2, <3>3 DEF Turns, GivenBack, Counted
    <3>5. QED
      BY <1>f, <2>1, <3>2, <3>4 DEF Counted
  <2>4. CASE ~(order'[o].status = "rejected" /\ order[o].coupon)
    <3>1. Using' = Using
      BY <1>4, <2>2, <2>4 DEF Turns, SameRow, Using
    <3>2. UNCHANGED coupon
      BY <1>4, <2>4 DEF Turns, GivenBack
    <3>3. QED
      BY <1>u, <2>1, <3>1, <3>2
  <2>5. QED
    BY <2>3, <2>4
<1>5. QED
  BY <1>1, <1>2, <1>3, <1>4 DEF Shape

LEMMA RacedStays ==
  ASSUME Next, raced
  PROVE  raced'
<1>1. ASSUME NEW p \in Procs, NEW users, NEW next, Commits(p, users, next) PROVE raced'
  BY <1>1 DEF Commits
<1>2. ASSUME NEW p \in Procs, Step(p) PROVE raced'
  <2>1. CASE ValidateCoupon(p) \/ CheckOpen(p)
    BY <2>1 DEF ValidateCoupon, CheckOpen
  <2>2. CASE \E o \in Orders : Insert(p, o)
    BY <1>1, <2>2 DEF Insert
  <2>3. CASE Voucher(p) \/ Approve(p) \/ Reject(p)
    BY <1>1, <2>3 DEF Voucher, Approve, Reject
  <2>4. CASE Activate(p) \/ LeaveToReview(p) \/ NoteOnly(p)
    BY <1>1, <2>4 DEF Activate, LeaveToReview, NoteOnly, Records
  <2>5. QED
    BY <1>2, <2>1, <2>2, <2>3, <2>4 DEF Step
<1>3. ASSUME NEW p \in Procs, Request(p) PROVE raced'
  <2>1. CASE List(p)
    BY <1>1, <2>1 DEF List
  <2>2. ASSUME NEW u \in Users, NEW plan \in Plans, NEW coded \in BOOLEAN, CreateBegins(p, u, plan, coded)
        PROVE  raced'
    BY <1>1, <2>2 DEF CreateBegins
  <2>3. ASSUME NEW o \in Orders, TakeVoucher(p, o) \/ \E approve \in BOOLEAN : TakeReview(p, o, approve)
        PROVE  raced'
    BY <2>3 DEF TakeVoucher, TakeReview, Takes
  <2>4. ASSUME NEW o \in Orders, NEW amount \in Amounts, TakeWebhook(p, o, amount)
        PROVE  raced'
    BY <2>4 DEF TakeWebhook
  <2>5. QED
    BY <1>3, <2>1, <2>2, <2>3, <2>4 DEF Request
<1>4. ASSUME NEW o \in Orders, Age(o) PROVE raced'
  BY <1>4 DEF Age
<1>5. QED
  BY <1>2, <1>3, <1>4 DEF Next

Settled == raced \/ (GrantedOnce /\ OneEach /\ Counted)

LEMMA SettledInvariant == Spec => []Settled
<1>1. Init => Settled
  <2> SUFFICES ASSUME Init PROVE GrantedOnce /\ OneEach /\ Counted
    BY DEF Settled
  <2>1. \A o \in Orders : order[o] = NoOrder /\ grants[o] = 0
    BY DEF Init
  <2>2. GrantedOnce /\ OneEach
    BY <2>1 DEF GrantedOnce, OneEach, NoOrder, Open
  <2>3. Using = {}
    BY <2>1 DEF Using, NoOrder
  <2>4. Counted
    BY <2>1, <2>3, FS_EmptySet, UsesInNat DEF Counted, NoOrder, Init
  <2>5. QED
    BY <2>2, <2>4
<1>2. ASSUME Typed, AllSound, Settled, Next PROVE Settled'
  <2>1. CASE raced'
    BY <2>1 DEF Settled
  <2>2. CASE ~raced'
    <3>1. GrantedOnce /\ OneEach /\ Counted
      BY <1>2, <2>2, RacedStays DEF Settled
    <3>2. Shape
      BY <1>2, <2>2, NextShape
    <3>3. QED
      BY <1>2, <3>1, <3>2, ShapeKeepsGrants, ShapeKeepsOneEach, ShapeKeepsCount DEF Settled
  <2>3. QED
    BY <2>1, <2>2
<1>3. ASSUME Settled, UNCHANGED vars PROVE Settled'
  BY <1>3 DEF Settled, GrantedOnce, OneEach, Counted, Using, vars
<1>4. QED
  BY <1>1, <1>2, <1>3, TypedInvariant, PTL DEF Spec

\* Whatever the webhook, the reviewers and the clock do, an approved order has opened
\* its membership once and no other order has opened one, unless handlers raced.
THEOREM MembershipOpensOnce == Spec => []GrantedWithApproval
<1>1. Settled => GrantedWithApproval
  BY DEF Settled, GrantedOnce, GrantedWithApproval
<1>2. QED
  BY <1>1, SettledInvariant, PTL

\* A user has one open order at most, unless handlers raced.
THEOREM OrdersAreOne == Spec => []OneOpenOrder
<1>1. ASSUME OneEach, NEW u \in Users PROVE Cardinality(OpenOf(u)) <= 1
  <2>1. \A o, q \in OpenOf(u) : o = q
    BY <1>1 DEF OneEach, OpenOf
  <2>2. CASE OpenOf(u) = {}
    BY <2>2, FS_EmptySet
  <2>3. CASE OpenOf(u) # {}
    <3>1. PICK o : o \in OpenOf(u)
      BY <2>3
    <3>2. OpenOf(u) = {o}
      BY <2>1, <3>1
    <3>3. Cardinality({o}) = 1
      BY FS_Singleton
    <3>4. QED
      BY <3>2, <3>3
  <2>4. QED
    BY <2>2, <2>3
<1>2. Settled => OneOpenOrder
  BY <1>1 DEF Settled, OneOpenOrder
<1>3. QED
  BY <1>2, SettledInvariant, PTL

\* The coupon's count is the number of orders that use it, and within its limit,
\* unless handlers raced.
THEOREM CouponIsCounted == Spec => []CouponCountsOrders
<1>1. Settled => CouponCountsOrders
  BY DEF Settled, Counted, CouponCountsOrders
<1>2. QED
  BY <1>1, SettledInvariant, PTL

\* A decided order keeps its status, unless handlers raced.
THEOREM DecisionsStay == Spec => DecidedStays
<1>1. ASSUME Typed, AllSound, Next, NEW o \in Orders, order[o].status \in Closed, ~raced'
      PROVE  order'[o].status = order[o].status
  <2>1. order[o].status # "none" /\ order[o].status \notin Open
    BY <1>1 DEF Closed, Open
  <2>2. QED
    BY <1>1, <2>1, NextShape DEF Shape, Stays, Expires, Opens, Turns, SameRow
<1>2. ASSUME Typed, AllSound, [Next]_vars
      PROVE  [\A o \in Orders : order[o].status \in Closed =>
                                order'[o].status = order[o].status \/ raced']_vars
  BY <1>1, <1>2
<1>3. QED
  BY <1>2, TypedInvariant, PTL DEF Spec, DecidedStays

\* A first report of the right amount finds its order pending and serves it.
LEMMA SeenMoves ==
  ASSUME Typed, AllSound, Next, NEW o \in Orders, seen'[o] # seen[o]
  PROVE  auto /\ seen'[o] = "pending" => order'[o].status = "approved"
<1>1. PICK p \in Procs : Records(p) /\ (Activate(p) \/ LeaveToReview(p) \/ NoteOnly(p))
  BY DEF Next, Step, Request, List, CreateBegins, TakeVoucher, TakeReview, TakeWebhook, Takes,
     ValidateCoupon, CheckOpen, Insert, Voucher, Approve, Reject, Activate, LeaveToReview, NoteOnly,
     Age
<1>2. seen \in [Orders -> Statuses \cup {"none"}] /\ order \in [Orders -> OrderRow]
  BY DEF Typed
<1>3. o = handler[p].order /\ handler[p].ok /\ seen'[o] = handler[p].status
  BY <1>1, <1>2 DEF Records
<1>4. ASSUME auto, seen'[o] = "pending" PROVE order'[o].status = "approved"
  <2>1. Fulfils(handler[p])
    BY <1>3, <1>4 DEF Fulfils
  <2>2. Activate(p)
    BY <1>1, <1>3, <1>4, <2>1 DEF LeaveToReview, NoteOnly
  <2>3. QED
    BY <1>2, <1>3, <2>2 DEF Activate, Sets, OrderRow
<1>5. QED
  BY <1>4

\* A right payment reported while its order is pending keeps its order approved, unless
\* automatic activation is off or handlers raced.
THEOREM PaymentsAreServed == Spec => []PaidInTimeIsServed
<1>1. Init => PaidInTimeIsServed
  BY DEF Init, PaidInTimeIsServed
<1>2. ASSUME Typed, AllSound, PaidInTimeIsServed, Next PROVE PaidInTimeIsServed'
  <2>1. UNCHANGED auto
    BY <1>2 DEF Next, Step, Request, List, CreateBegins, TakeVoucher, TakeReview, TakeWebhook,
       Takes, ValidateCoupon, CheckOpen, Insert, Voucher, Approve, Reject, Activate, LeaveToReview,
       NoteOnly, Records, Age
  <2>2. ASSUME ~raced', auto', NEW o \in Orders, seen'[o] = "pending"
        PROVE  order'[o].status = "approved"
    <3>1. CASE seen'[o] = seen[o]
      <4>1. order[o].status = "approved"
        BY <1>2, <2>1, <2>2, <3>1, RacedStays DEF PaidInTimeIsServed
      <4>2. QED
        BY <1>2, <2>2, <4>1, NextShape DEF Shape, Stays, Expires, Opens, Turns, SameRow, Open
    <3>2. CASE seen'[o] # seen[o]
      BY <1>2, <2>1, <2>2, <3>2, SeenMoves
    <3>3. QED
      BY <3>1, <3>2
  <2>3. QED
    BY <2>2 DEF PaidInTimeIsServed
<1>3. ASSUME PaidInTimeIsServed, UNCHANGED vars PROVE PaidInTimeIsServed'
  BY <1>3 DEF PaidInTimeIsServed, vars
<1>4. QED
  BY <1>1, <1>2, <1>3, TypedInvariant, PTL DEF Spec
=============================================================================
