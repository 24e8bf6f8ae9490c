----------------------- MODULE NotificationInboxProofs -----------------------
(***************************************************************************)
(* What every write to the notifications table preserves, for any users,    *)
(* topics and dates.                                                        *)
(***************************************************************************)
EXTENDS NotificationInbox, TLAPS

(***************************************************************************)
(* INSERT ... ON CONFLICT DO NOTHING: the rows asked for exist afterwards   *)
(* and the rows there were are untouched.                                   *)
(***************************************************************************)
LEMMA WithRowsInserts ==
  ASSUME InboxTypeOK, NEW S
  PROVE  /\ WithRows(inbox, S) \in [Keys -> RowStates]
         /\ \A k \in Keys : inbox[k] # "absent" => WithRows(inbox, S)[k] = inbox[k]
         /\ \A k \in Keys \cap S : WithRows(inbox, S)[k] # "absent"
  BY DEF InboxTypeOK, WithRows, RowStates

(***************************************************************************)
(* One write of any kind keeps every row and never turns a read one unread. *)
(***************************************************************************)
LEMMA InboxStep ==
  ASSUME InboxTypeOK, [InboxNext]_inbox
  PROVE  /\ InboxTypeOK'
         /\ \A k \in Keys : /\ inbox[k] # "absent" => inbox'[k] # "absent"
                            /\ inbox[k] = "read" => inbox'[k] = "read"
<1>1. CASE \E S \in SUBSET Keys : inbox' = WithRows(inbox, S)
  <2>1. PICK S \in SUBSET Keys : inbox' = WithRows(inbox, S)
    BY <1>1
  <2> QED
    BY <2>1 DEF InboxTypeOK, WithRows, RowStates
<1>2. ASSUME NEW u \in Users, MarkAsRead(u)
      PROVE  /\ InboxTypeOK'
             /\ \A k \in Keys : /\ inbox[k] # "absent" => inbox'[k] # "absent"
                                /\ inbox[k] = "read" => inbox'[k] = "read"
  BY <1>2 DEF MarkAsRead, InboxTypeOK, RowStates
<1>3. ASSUME NEW u \in Users, MarkAllRead(u)
      PROVE  /\ InboxTypeOK'
             /\ \A k \in Keys : /\ inbox[k] # "absent" => inbox'[k] # "absent"
                                /\ inbox[k] = "read" => inbox'[k] = "read"
  BY <1>3 DEF MarkAllRead, InboxTypeOK, RowStates
<1>4. CASE UNCHANGED inbox
  BY <1>4 DEF InboxTypeOK
<1> QED
  BY <1>1, <1>2, <1>3, <1>4 DEF InboxNext

LEMMA InboxStart == InboxInit => InboxTypeOK
  BY DEF InboxInit, InboxTypeOK, RowStates

(***************************************************************************)
(* No sequence of job runs and reads removes a notification or brings a     *)
(* read one back into the unread count.                                     *)
(***************************************************************************)
THEOREM RowsOnlyAdvance == InboxSpec => InboxRowsOnlyAdvance
<1>1. InboxTypeOK /\ [InboxNext]_inbox => InboxTypeOK'
  BY InboxStep
<1>2. InboxTypeOK /\ [InboxNext]_inbox =>
        [\A k \in Keys : /\ inbox[k] # "absent" => inbox'[k] # "absent"
                         /\ inbox[k] = "read" => inbox'[k] = "read"]_inbox
  BY InboxStep
<1> QED
  BY <1>1, <1>2, InboxStart, PTL DEF InboxSpec, InboxRowsOnlyAdvance
=============================================================================
