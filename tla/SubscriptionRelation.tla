------------------------ MODULE SubscriptionRelation ------------------------
(***************************************************************************)
(* What the registry of the multiplexed price stream promises: one relation *)
(* between the open sessions and the symbols they follow.  Only a session   *)
(* itself adds to its subscriptions; it may lose all of them when its peer  *)
(* stops answering; and when it ends it leaves nothing behind.              *)
(***************************************************************************)
CONSTANTS Conns, Symbols

VARIABLES sessions, subs

Without(D) == {p \in subs : p[1] \notin D}

Init == sessions = {} /\ subs = {}

Open(ws) ==
  /\ ws \notin sessions
  /\ sessions' = sessions \cup {ws}
  /\ UNCHANGED subs

Subscribe(ws, S) ==
  /\ ws \in sessions
  /\ subs' = subs \cup ({ws} \X S)
  /\ UNCHANGED sessions

Unsubscribe(ws, S) ==
  /\ ws \in sessions
  /\ subs' = subs \ ({ws} \X S)
  /\ UNCHANGED sessions

Reap(D) ==
  /\ subs' = Without(D)
  /\ UNCHANGED sessions

Close(ws) ==
  /\ ws \in sessions
  /\ sessions' = sessions \ {ws}
  /\ subs' = Without({ws})

Next ==
  \/ \E ws \in Conns : \/ Open(ws) \/ Close(ws)
                       \/ \E S \in SUBSET Symbols : Subscribe(ws, S) \/ Unsubscribe(ws, S)
  \/ \E D \in SUBSET Conns : Reap(D)

Spec == Init /\ [][Next]_<<sessions, subs>>
=============================================================================
