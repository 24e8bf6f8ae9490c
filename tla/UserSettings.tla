---------------------------- MODULE UserSettings ----------------------------
(***************************************************************************)
(* Three settings of a user: the presets of the screener and the e-mail    *)
(* subscription, whose routes run in threads, and the channel preferences, *)
(* whose route awaits the database.                                        *)
(***************************************************************************)
EXTENDS Requests, Sequences, SequencesExt, FiniteSetsExt

CONSTANTS
  PresetNames, MAX_PRESETS_PER_USER,
  Emails, Off,   \* addresses; the wish to be unsubscribed
  Types,         \* the types a PUT of the preferences names
  Settings       \* what it may set them to

ASSUME SettingsAssumption ==
  /\ MAX_PRESETS_PER_USER \in Nat
  /\ Off \notin Emails /\ Nothing \notin [email : Emails, is_active : BOOLEAN]
  /\ IsFiniteSet(Types)

VARIABLES
  presets,   \* screener_presets of the user, by their unique name
  creating,  \* the most creations that were ever in flight at once
  mail,      \* the user's row of email_subscriptions, or Nothing
  wishes,    \* what the requests about it wanted since none was last in flight
  prefs      \* notification_preferences

settingsVars == <<presets, creating, mail, wishes, prefs>>

SettingsInit ==
  /\ presets = {}
  /\ creating = 0
  /\ mail = Nothing
  /\ wishes = {}
  /\ prefs \in {[t \in Types |-> s] : s \in Settings}
-----------------------------------------------------------------------------
(* Mutant: the limit lets one more in. *)
CountPresetsOffByOne(r, name) ==
  /\ IF Cardinality(presets) > MAX_PRESETS_PER_USER
     THEN AnswerAtOnce(r) /\ UNCHANGED creating
     ELSE /\ Begin(r, "preset", name, Nothing)
          /\ creating' = Max({creating, Cardinality(InFlight("preset")) + 1})
  /\ UNCHANGED <<presets, mail, wishes, prefs>>

(* create_preset counts; a user who has as many as allowed is refused. *)
CountPresets(r, name) ==
  /\ IF Cardinality(presets) >= MAX_PRESETS_PER_USER
     THEN AnswerAtOnce(r) /\ UNCHANGED creating
     ELSE /\ Begin(r, "preset", name, Nothing)
          /\ creating' = Max({creating, Cardinality(InFlight("preset")) + 1})
  /\ UNCHANGED <<presets, mail, wishes, prefs>>

(* It commits the insert; a name that exists is rolled back and refused. *)
InsertPreset(r) ==
  /\ req[r].op = "preset"
  /\ presets' = presets \cup {req[r].key}
  /\ Answer(r)
  /\ UNCHANGED <<creating, mail, wishes, prefs>>

DeletePreset(r, name) ==
  /\ AnswerAtOnce(r)
  /\ presets' = presets \ {name}
  /\ UNCHANGED <<creating, mail, wishes, prefs>>
-----------------------------------------------------------------------------
MailInFlight == InFlight("subscribe") \cup InFlight("unsubscribe")

Wish(w) == wishes' = IF MailInFlight = {} THEN {w} ELSE wishes \cup {w}

(* subscribe_email reads the row; unsubscribe_email does, and without one
   returns. *)
ReadMail(r) ==
  /\ \/ \E e \in Emails : Begin(r, "subscribe", e, mail) /\ Wish(e)
     \/ mail # Nothing /\ Begin(r, "unsubscribe", Off, mail) /\ Wish(Off)
     \/ mail = Nothing /\ AnswerAtOnce(r) /\ Wish(Off)
  /\ UNCHANGED <<presets, creating, mail, prefs>>

(* The ORM writes an attribute only where it differs from what was read. *)
Written(old, new, now) == IF old = new THEN now ELSE new

(* Mutant: a row that exists is not activated again. *)
SubscribeUnlessThere(r) ==
  /\ req[r].op = "subscribe"
  /\ mail' = IF mail = Nothing THEN [email |-> req[r].key, is_active |-> TRUE]
             ELSE [mail EXCEPT !.email = req[r].key]
  /\ Answer(r)
  /\ UNCHANGED <<presets, creating, wishes, prefs>>

(* Insert a row, which fails when another request has done so meanwhile (a
   500), or set the address of the row read and activate it. *)
Subscribe(r) ==
  /\ req[r].op = "subscribe"
  /\ LET seen == req[r].seen IN
     mail' = IF seen = Nothing
             THEN IF mail = Nothing THEN [email |-> req[r].key, is_active |-> TRUE] ELSE mail
             ELSE [email |-> Written(seen.email, req[r].key, mail.email),
                   is_active |-> Written(seen.is_active, TRUE, mail.is_active)]
  /\ Answer(r)
  /\ UNCHANGED <<presets, creating, wishes, prefs>>

Unsubscribe(r) ==
  /\ req[r].op = "unsubscribe"
  /\ mail' = [mail EXCEPT !.is_active = Written(req[r].seen.is_active, FALSE, @)]
  /\ Answer(r)
  /\ UNCHANGED <<presets, creating, wishes, prefs>>
-----------------------------------------------------------------------------
(* upsert_preferences: one INSERT ... ON CONFLICT DO UPDATE per item in the
   order of the body, and one commit; each row written stays locked until then.
   seen holds the value, the items still to come and those written. *)
PutPreferences(r) ==
  /\ \E s \in Settings, items \in SetToSeqs(Types) :
       Begin(r, "put", Nothing, [value |-> s, todo |-> items, done |-> {}])
  /\ UNCHANGED settingsVars

LockedBy(q) == IF req[q].op = "put" THEN req[q].seen.done ELSE {}

(* The request waits for a row that another one holds. *)
WaitsFor(r, q) == /\ q # r
                  /\ req[r].op = "put"
                  /\ req[r].seen.todo # <<>>
                  /\ Head(req[r].seen.todo) \in LockedBy(q)

UpsertItem(r) ==
  /\ req[r].op = "put"
  /\ req[r].seen.todo # <<>>
  /\ \A q \in Requests : ~WaitsFor(r, q)
  /\ Read(r, [req[r].seen EXCEPT !.todo = Tail(@), !.done = @ \cup {Head(req[r].seen.todo)}])
  /\ UNCHANGED settingsVars

(* Two bodies in opposite orders wait for each other; the server ends one. *)
DeadlockVictim(r) ==
  /\ \E q \in Requests : WaitsFor(r, q) /\ WaitsFor(q, r)
  /\ Answer(r)
  /\ UNCHANGED settingsVars

(* Mutant: a commit after each item. *)
CommitEachItem(r) ==
  /\ req[r].op = "put"
  /\ req[r].seen.done # {}
  /\ prefs' = [t \in Types |-> IF t \in req[r].seen.done THEN req[r].seen.value ELSE prefs[t]]
  /\ IF req[r].seen.todo = <<>> THEN Answer(r) ELSE Read(r, [req[r].seen EXCEPT !.done = {}])
  /\ UNCHANGED <<presets, creating, mail, wishes>>

CommitPreferences(r) ==
  /\ req[r].op = "put"
  /\ req[r].seen.todo = <<>>
  /\ prefs' = [t \in Types |-> IF t \in req[r].seen.done THEN req[r].seen.value ELSE prefs[t]]
  /\ Answer(r)
  /\ UNCHANGED <<presets, creating, mail, wishes>>
-----------------------------------------------------------------------------
SettingsNext ==
  \E r \in Requests :
    \/ \E name \in PresetNames : CountPresets(r, name) \/ DeletePreset(r, name)
    \/ InsertPreset(r)
    \/ ReadMail(r) \/ Subscribe(r) \/ Unsubscribe(r)
    \/ PutPreferences(r) \/ UpsertItem(r) \/ DeadlockVictim(r) \/ CommitPreferences(r)

(***************************************************************************)
(* The limit on presets is exceeded by races only, and by no more than the *)
(* creations that ever overlapped (REQ-SCR-PRESET-002).                    *)
(***************************************************************************)
PresetsWithinRace == Cardinality(presets) =< Max({MAX_PRESETS_PER_USER, MAX_PRESETS_PER_USER + creating - 1})

(***************************************************************************)
(* When no request about the subscription is in flight and those that      *)
(* overlapped last all wanted it on, or all off, it is: stale reads and    *)
(* refused inserts cost a wish only where wishes differed.                 *)
(***************************************************************************)
UnanimousMailHolds ==
  MailInFlight = {} /\ wishes # {} =>
    /\ wishes \subseteq Emails => mail # Nothing /\ mail.is_active /\ mail.email \in wishes
    /\ wishes = {Off} => mail = Nothing \/ ~mail.is_active

(***************************************************************************)
(* Two PUTs of the same types never mix: what is stored is what one of     *)
(* them wanted, in whatever order each lists its items.                    *)
(***************************************************************************)
PreferencesAreOneRequests == \A t1, t2 \in Types : prefs[t1] = prefs[t2]
=============================================================================
