-------------------------------- MODULE Inbox -------------------------------
(***************************************************************************)
(* notification-rpc: the notifications of a user's orders                  *)
(* (notification.go, its repository and server). How an order's event gets *)
(* here is the subject of EventDelivery; here it arrives at some time,     *)
(* once. A notification's ID is the ID of its order.                       *)
(***************************************************************************)
EXTENDS Checkout

VARIABLE readAt     \* notifications: their read_at, 0 for NULL

Delivered == DOMAIN readAt

notificationError ==
  [ErrInvalidArgument |-> "InvalidArgument", ErrNotificationNotFound |-> "NotFound"]

Deliver(id) ==
  /\ id \in DOMAIN orders \ Delivered
  /\ readAt' = [n \in Delivered \cup {id} |-> IF n = id THEN 0 ELSE readAt[n]]
  /\ UNCHANGED <<requests, products, orders>>

OwnNotes(u) == {id \in Delivered : orders[id].user = u}

(* Page 0 is refused here, not replaced. *)
ListNotifications(r, page) ==
  IF page < 1
    THEN Fail(r, notificationError, "ErrInvalidArgument")
    ELSE Set(r, [requests[r] EXCEPT !.step = "rows", !.got = {page}])

gatewayListNotifications(r) ==
  /\ At(r, "listNotifications", "call")
  /\ ListNotifications(r, AskedPage(Arg(r).page))
  /\ UNCHANGED <<products, orders, readAt>>

(* COUNT and SELECT, of the owner's rows only. *)
ListOwned(r) ==
  /\ At(r, "listNotifications", "rows")
  /\ Answer(r, 200)
  /\ UNCHANGED <<products, orders, readAt>>

(* COALESCE(read_at, ?): the first reading stays, and a second one changes  *)
(* no row, which is answered as not found. Time is the request's serial.    *)
ReadTimeLast(id, time) == time
ReadTime(id, time) == IF readAt[id] = 0 THEN time ELSE readAt[id]

MarkReadOwned(r, id, time) ==
  IF id \in OwnNotes(requests[r].user) /\ ReadTime(id, time) # readAt[id]
    THEN readAt' = [readAt EXCEPT ![id] = ReadTime(id, time)] /\ Written(r, 200)
    ELSE Fail(r, notificationError, "ErrNotificationNotFound") /\ UNCHANGED readAt

(* The gateway refuses the ID 0 before notification-rpc would. *)
gatewayMarkNotificationRead(r) ==
  /\ At(r, "markRead", "call")
  /\ IF Arg(r).order = 0
       THEN Answer(r, 400) /\ UNCHANGED readAt
       ELSE MarkReadOwned(r, Arg(r).order, requests[r].serial)
  /\ UNCHANGED <<products, orders>>

InboxStep(r) ==
  gatewayListNotifications(r) \/ ListOwned(r) \/ gatewayMarkNotificationRead(r)
=============================================================================
