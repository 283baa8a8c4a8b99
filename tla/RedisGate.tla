------------------------------ MODULE RedisGate ------------------------------
(***************************************************************************)
(* The Redis side of one sale item (redisgate/gate.go): the preheated      *)
(* snapshot, the buyers hash, the results hash and the Stream. All keys    *)
(* share one hash slot and every operation below is one Lua script or one  *)
(* DEL, so each is one step.                                               *)
(*                                                                         *)
(* The snapshot's stock, status and window live and die with its ready     *)
(* field; the stock of an absent snapshot is left at its last value and    *)
(* never read. The Stream and the results outlive the snapshot by the      *)
(* retention period, whose end is beyond the model.                        *)
(***************************************************************************)
EXTENDS SaleBase

VARIABLES
  ready,     \* the state hash exists and its ready field is '1'
  stock,     \* the stock field of the state hash
  buyers,    \* the buyers hash: which user holds which order number
  owners,    \* the results hash: the order numbers in it and their owners
  status,    \* the results hash: the status of an order number
  stream     \* the entries of the item's Stream

gateVars == <<ready, stock, buyers, owners, status, stream>>

Status == {"NONE", "QUEUED", "SUCCEEDED", "FAILED"}

(* Where the service's clock stood in the activity's window when it was read. *)
Phases == {"upcoming", "open", "ended"}

GateTypeOK ==
  /\ ready \in BOOLEAN
  /\ stock \in Nat
  /\ buyers \in SUBSET Task
  /\ owners \in SUBSET Task
  /\ status \in [OrderNos -> Status]
  /\ stream \in SUBSET Task

GateInit ==
  /\ ready = FALSE
  /\ stock = 0
  /\ buyers = {}
  /\ owners = {}
  /\ status = [o \in OrderNos |-> "NONE"]
  /\ stream = {}

(***************************************************************************)
(* The decision of reserveAndEnqueueScript for user u and the time now     *)
(* that the caller read before sending the script.                         *)
(***************************************************************************)
NoReplayDecision(u, now) ==
  CASE ~ready                             -> "not_ready"
    [] ready /\ now # "open"              -> "unavailable"
    [] ready /\ now = "open" /\ stock = 0 -> "sold_out"
    [] OTHER                              -> "reserved"

OversellingDecision(u, now) ==
  CASE ~ready                                       -> "not_ready"
    [] ready /\ \E b \in buyers : b.user = u        -> "replayed"
    [] ready /\ now # "open"                        -> "unavailable"
    [] OTHER                                        -> "reserved"

Decision(u, now) ==
  CASE ~ready                                       -> "not_ready"
    [] ready /\ \E b \in buyers : b.user = u        -> "replayed"
    [] /\ ready
       /\ \A b \in buyers : b.user # u
       /\ now # "open"                              -> "unavailable"
    [] /\ ready
       /\ \A b \in buyers : b.user # u
       /\ now = "open"
       /\ stock = 0                                 -> "sold_out"
    [] OTHER                                        -> "reserved"

(***************************************************************************)
(* The one branch of the script that writes: take a unit, remember the     *)
(* buyer, index the result and append the Stream entry. Every other        *)
(* decision only answers. A lost answer changes nothing here: the user     *)
(* retries and the buyers hash replays the first order number.             *)
(***************************************************************************)
ReserveAndEnqueue(u, o, now) ==
  LET task == [order |-> o, user |-> u] IN
  /\ Decision(u, now) = "reserved"
  /\ stock' = stock - 1
  /\ buyers' = buyers \cup {task}
  /\ owners' = owners \cup {task}
  /\ status' = [status EXCEPT ![o] = "QUEUED"]
  /\ stream' = stream \cup {task}
  /\ UNCHANGED ready

(* publishScript: delete the old snapshot and its buyers, write the new one. *)
Publish(available) ==
  /\ ready' = TRUE
  /\ stock' = available
  /\ buyers' = {}
  /\ UNCHANGED <<owners, status, stream>>

(* InvalidateItems, and the PEXPIREAT both keys carry: state and buyers go. *)
DropSnapshot ==
  /\ ready' = FALSE
  /\ buyers' = {}
  /\ UNCHANGED <<stock, owners, status, stream>>
=============================================================================
