------------------------------ MODULE Requests ------------------------------
(***************************************************************************)
(* Requests in flight: what the modules of the user's own data share.  A   *)
(* route reads, waits for the database, a cache or Claude, and writes; the *)
(* waits let any other request run.  A request holds what it has read.     *)
(***************************************************************************)
EXTENDS Integers, FiniteSets

CONSTANTS
  Requests,
  Nothing,     \* nothing read, no row, no cached value
  MaxStarts    \* bound on requests

ASSUME RequestsAssumption == MaxStarts \in Nat /\ IsFiniteSet(Requests)

VARIABLES
  req,     \* per request its operation, the row or key it is about, what it has read
  starts

reqVars == <<req, starts>>

Free == [op |-> "none", key |-> Nothing, seen |-> Nothing]

RequestsInit == req = [r \in Requests |-> Free] /\ starts = 0

InFlight(op) == {r \in Requests : req[r].op = op}

(* A request arrives and is answered at once, or goes on with what it read. *)
Serve(r) == req[r].op = "none" /\ starts < MaxStarts /\ starts' = starts + 1

Begin(r, op, key, seen) ==
  /\ Serve(r)
  /\ req' = [req EXCEPT ![r] = [op |-> op, key |-> key, seen |-> seen]]

AnswerAtOnce(r) == Serve(r) /\ UNCHANGED req

Answer(r) == req' = [req EXCEPT ![r] = Free] /\ UNCHANGED starts

Read(r, value) == req' = [req EXCEPT ![r].seen = value] /\ UNCHANGED starts
=============================================================================
