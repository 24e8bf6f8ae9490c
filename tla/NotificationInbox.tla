------------------------- MODULE NotificationInbox -------------------------
(***************************************************************************)
(* The `notifications` table every alerting job writes to and the inbox    *)
(* router reads and updates.                                               *)
(*                                                                         *)
(* A row is identified by the columns of                                   *)
(* uq_notification_user_type_code_date: the user, the type, the stock code *)
(* and the reference date.  A `topic` stands for the pair of type and code. *)
(* No route and no job deletes a row, so the state of a key is one of:     *)
(*   absent - no row yet, unread / read - a row with that is_read flag.     *)
(*                                                                         *)
(* The module is both a component (its operators are the writes the        *)
(* detailed modules perform) and the abstract specification they refine:   *)
(* whatever the jobs do, the table moves only by InboxNext.                *)
(***************************************************************************)
EXTENDS Naturals, FiniteSets

CONSTANTS
  Users,    \* rows of `users`
  Topics,   \* pairs of notification type and krx_code
  Days      \* reference dates (bounds the calendar)

VARIABLE inbox

Keys == Users \X Topics \X Days

RowStates == {"absent", "unread", "read"}

InboxInit == inbox = [k \in Keys |-> "absent"]

(* INSERT ... ON CONFLICT DO NOTHING of a set of rows: a key that has a row
   keeps it, whatever its is_read flag says. *)
WithRows(box, S) ==
  [k \in Keys |-> IF k \in S /\ box[k] = "absent" THEN "unread" ELSE box[k]]

(* PATCH /notifications/{id}/read by the owner of an existing row. *)
MarkAsRead(u) ==
  \E k \in Keys :
    /\ k[1] = u
    /\ inbox[k] # "absent"
    /\ inbox' = [inbox EXCEPT ![k] = "read"]

(* PATCH /notifications/read-all: one UPDATE over the user's unread rows. *)
MarkAllRead(u) ==
  inbox' = [k \in Keys |->
              IF k[1] = u /\ inbox[k] = "unread" THEN "read" ELSE inbox[k]]

InboxNext ==
  \/ \E S \in SUBSET Keys : inbox' = WithRows(inbox, S)
  \/ \E u \in Users : MarkAsRead(u) \/ MarkAllRead(u)

InboxSpec == InboxInit /\ [][InboxNext]_inbox

InboxTypeOK == inbox \in [Keys -> RowStates]

(***************************************************************************)
(* A row never disappears and a row once read is never unread again, so a  *)
(* rerun of a job (ON CONFLICT DO NOTHING) cannot bring a notification the *)
(* user has read back into the unread count.                               *)
(***************************************************************************)
InboxRowsOnlyAdvance ==
  [][\A k \in Keys : /\ inbox[k] # "absent" => inbox'[k] # "absent"
                     /\ inbox[k] = "read" => inbox'[k] = "read"]_inbox
=============================================================================
