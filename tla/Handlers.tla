------------------------------ MODULE Handlers ------------------------------
(***************************************************************************)
(* The request handlers of the one Node process: each runs alone between   *)
(* two awaits and interleaves with the others at each of them.  A slot is  *)
(* a handler in flight, its pc the await it has reached, and its other     *)
(* fields what it still holds from before it.                              *)
(***************************************************************************)
EXTENDS Naturals

CONSTANTS
  Slots,        \* handlers that can be in flight together
  MaxRequests,  \* bound: the requests of a behaviour
  Failures,     \* may the process die under a handler?
  Nothing       \* no row, no name, no value

ASSUME HandlerBounds == MaxRequests \in Nat /\ Failures \in BOOLEAN

VARIABLES requests, req

handlerVars == <<requests, req>>

Idle == [pc |-> "idle"]

HandlersInit == requests = 0 /\ req = [r \in Slots |-> Idle]

(* A request that has been answered after a single call to the database.   *)
Single ==
  /\ requests < MaxRequests
  /\ requests' = requests + 1
  /\ UNCHANGED req

(* A request arrives; its first call has been answered, more are to come.  *)
Begin(r, held) ==
  /\ requests < MaxRequests
  /\ requests' = requests + 1
  /\ req[r] = Idle
  /\ req' = [req EXCEPT ![r] = held]

At(r, pcs) == req[r].pc \in pcs

Goto(r, pc) == req' = [req EXCEPT ![r].pc = pc] /\ UNCHANGED requests

Done(r) == req' = [req EXCEPT ![r] = Idle] /\ UNCHANGED requests

=============================================================================
