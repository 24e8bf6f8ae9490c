-------------------------- MODULE RecChangeProofs --------------------------
(***************************************************************************)
(* Theorems about RecChange for any users, codes, scores, threshold and     *)
(* bounds: that what a check tells was so, stays so, and reaches everyone.  *)
(***************************************************************************)
EXTENDS RecChange, NotificationInboxProofs, FiniteSetTheorems, WellFoundedInduction

(* The pipeline works on a date no later than today and, when it stores its
   rows, on one no earlier than any that has rows. *)
DaysInv ==
  /\ job.day =< today
  /\ \A r \in rows : r.day =< today
  /\ job.pc = "recommend" => \A r \in rows : r.day =< job.day

(* Users are served within a check only, and for a topic. *)
ServingInv ==
  /\ job.users # {} => Telling /\ job.topic \in Topics
  /\ job.pc = "tell_scores" =>
       /\ \A t \in job.topics : t[1] = "rec_score_change"
       /\ job.users # {} => job.topic[1] = "rec_score_change"
  /\ pending # {} => Telling

(* The code was new on a date, compared with the trade date before. *)
New(c, d) ==
  /\ c \in CodesOn(d)
  /\ \E e \in TradeDates : /\ e < d /\ c \notin CodesOn(e)
                           /\ \A x \in TradeDates : x < d => x =< e

(* What is to be told as new, and what has been. *)
NewInv ==
  /\ \A t \in job.topics : t[1] = "rec_new" => New(t[2], job.day)
  /\ job.users # {} /\ job.topic[1] = "rec_new" => New(job.topic[2], job.day)
  /\ \A k \in Keys : (inbox[k] # "absent" \/ k \in pending) /\ k[2][1] = "rec_new" =>
       New(k[2][2], k[3])

(* The changes between the two latest dates. *)
LastDate == Latest(TradeDates)

LastChanges == Changes(LastDate, Latest(TradeDates \ {LastDate}))

(* What is owed to the watchers by the check that is under way or over. *)
LastMoved == MovedSurely(LastDate, Latest(TradeDates \ {LastDate}))

Owed(pc) == IF pc \in {"tell_changes", "scores"} THEN LastChanges
            ELSE {"rec_score_change"} \X LastMoved

(* During a check each topic owed is still to come, or its watcher is, or the row
   is there; and after it, every row is. *)
SteadyInv ==
  Telling =>
    /\ job.day = LastDate
    /\ \A t \in Owed(job.pc), u \in Users :
         <<u, t[2]>> \in steady =>
           \/ t \in job.topics
           \/ t = job.topic /\ u \in job.users
           \/ <<u, t, job.day>> \in pending
           \/ inbox[<<u, t, job.day>>] # "absent"

SteadyTold ==
  job.pc \in {"scores", "idle", "recommend"} /\ Cardinality(TradeDates) >= 2 =>
    \A t \in Owed(job.pc), u \in Users :
      <<u, t[2]>> \in steady => Recorded(u, t[1], t[2], LastDate)

Inv == /\ TypeOK /\ DaysInv /\ ServingInv /\ NewInv /\ SteadyInv /\ SteadyTold
       /\ MailedIsRecorded

(***************************************************************************)
(* The latest of some dates is one of them and no earlier than any.         *)
(***************************************************************************)
LEMMA LatestIsMax ==
  ASSUME NEW S \in SUBSET Days, S # {}
  PROVE  Latest(S) \in S /\ \A e \in S : e =< Latest(S)
<1> DEFINE T == {MaxDay - d : d \in S}
<1>1. S \subseteq 1..MaxDay /\ MaxDay \in Nat
  <2>1. MaxDay \in Nat /\ Days = 1..MaxDay
    BY RecChangeAssumption
  <2> QED
    BY <2>1
<1>2. \A d \in S : d \in Nat /\ MaxDay - d \in Nat
  BY <1>1
<1>3. T \subseteq Nat
  BY <1>2
<1>4. T # {}
  <2>1. PICK d \in S : TRUE
    OBVIOUS
  <2>2. MaxDay - d \in T
    BY <2>1
  <2> QED
    BY <2>2
<1>5. PICK m \in T : \A y \in T : ~ (<<y, m>> \in OpToRel(<, Nat))
  BY <1>3, <1>4, NatLessThanWellFounded, WFMin
<1>6. \A y \in T : ~ (y < m)
  BY <1>3, <1>5 DEF OpToRel
<1>7. PICK d \in S : m = MaxDay - d
  BY <1>5
<1>8. \A e \in S : e =< d
  BY <1>1, <1>6, <1>7
<1> QED
  BY <1>8 DEF Latest

JobState ==
  [pc : {"idle", "recommend", "changes", "scores", "tell_changes", "tell_scores"},
   day : Days, prev : Days \cup {0}, topics : SUBSET Topics, topic : Topics \cup {<<>>},
   users : SUBSET Users]

LEMMA Bounds == /\ MaxDay \in Nat \ {0} /\ Days = 1..MaxDay /\ Topics = Types \X Codes
                /\ MaxRuns \in Nat /\ MaxFailures \in Nat
  BY RecChangeAssumption

LEMMA NoJobIsJob == NoJob \in JobState
<1>1. 1 \in Days
  <2>1. MaxDay \in Nat \ {0} /\ Days = 1..MaxDay
    BY Bounds
  <2> QED
    BY <2>1
<1> QED
  BY <1>1 DEF NoJob, JobState

LEMMA NoJobFields ==
  ASSUME NEW p
  PROVE  LET j == [NoJob EXCEPT !.pc = p]
         IN  /\ j.pc = p /\ j.day = 1 /\ j.prev = 0 /\ j.topics = {} /\ j.topic = <<>>
             /\ j.users = {}
  BY DEF NoJob

LEMMA RowFacts ==
  ASSUME rows \subseteq Row
  PROVE  /\ TradeDates \subseteq Days
         /\ \A d : CodesOn(d) \subseteq Codes
         /\ \A a, b : Changes(a, b) \subseteq Topics
<1>1. /\ TradeDates \subseteq Days
      /\ \A d : CodesOn(d) \subseteq Codes
  BY DEF TradeDates, CodesOn, Row
<1>2. \A a, b : Changes(a, b) \subseteq Types \X Codes
  BY <1>1 DEF Changes, Types
<1> QED
  BY <1>1, <1>2, Bounds

LEMMA OwedAreTopics ==
  ASSUME rows \subseteq Row, NEW pc, NEW t \in Owed(pc)
  PROVE  t \in Topics /\ t = <<t[1], t[2]>>
<1>1. LastMoved \subseteq Codes
  BY RowFacts DEF LastMoved, MovedSurely
<1>2. Owed(pc) \subseteq Types \X Codes
  BY <1>1, RowFacts, Bounds DEF Owed, LastChanges, Types
<1> QED
  BY <1>2, Bounds

(* The members of Inv as the steps below need them. *)
LEMMA Facts ==
  ASSUME Inv
  PROVE  /\ InboxTypeOK /\ today \in Days /\ rows \subseteq Row
         /\ watch \subseteq Users \X Codes /\ steady \subseteq watch
         /\ job \in JobState /\ pending \subseteq Keys /\ mailed \in [Keys -> Nat]
         /\ runs \in 0..MaxRuns /\ failures \in 0..MaxFailures
  BY DEF Inv, TypeOK, JobState

LEMMA TypeOKAgain ==
  ASSUME InboxTypeOK', today' \in Days, rows' \subseteq Row,
         watch' \subseteq Users \X Codes, steady' \subseteq watch',
         job' \in JobState, pending' \subseteq Keys, mailed' \in [Keys -> Nat],
         runs' \in 0..MaxRuns, failures' \in 0..MaxFailures
  PROVE  TypeOK'
  BY DEF TypeOK, JobState

(* The dates of a job that has none. *)
LEMMA FirstDay ==
  ASSUME Inv
  PROVE  1 =< today /\ 1 \in Days
<1>1. MaxDay \in Nat \ {0} /\ Days = 1..MaxDay /\ today \in Days
  BY Bounds, Facts
<1> QED
  BY <1>1

(* What a step that leaves the rows alone leaves alone with them. *)
LEMMA SameRows ==
  ASSUME UNCHANGED rows
  PROVE  /\ TradeDates' = TradeDates /\ Cardinality(TradeDates)' = Cardinality(TradeDates)
         /\ \A c, d : New(c, d)' = New(c, d)
         /\ LastDate' = LastDate /\ \A pc : Owed(pc)' = Owed(pc)
<1>1. TradeDates' = TradeDates
  BY DEF TradeDates
<1>2. \A c, d : New(c, d)' = New(c, d)
  BY DEF TradeDates, CodesOn, New
<1>3. LastDate' = LastDate
  BY <1>1 DEF LastDate, Latest
<1>4. \A a, b : Changes(a, b)' = Changes(a, b)
  BY DEF Changes, CodesOn
<1>5. Latest(TradeDates \ {LastDate})' = Latest(TradeDates \ {LastDate})
  BY <1>1, <1>3 DEF Latest
<1>6. LastChanges' = LastChanges
  BY <1>3, <1>4, <1>5 DEF LastChanges
<1>7. \A a, b : MovedSurely(a, b)' = MovedSurely(a, b)
  BY DEF MovedSurely, CodesOn
<1>8. LastMoved' = LastMoved
  BY <1>3, <1>5, <1>7 DEF LastMoved
<1> QED
  BY <1>1, <1>2, <1>3, <1>6, <1>8 DEF Owed

(***************************************************************************)
(* The pipeline starts and stores its rows.                                 *)
(***************************************************************************)
LEMMA StartStep == Inv /\ StartPipeline => Inv'
<1> SUFFICES ASSUME Inv, StartPipeline PROVE Inv'
  OBVIOUS
<1>1. /\ job' = [NoJob EXCEPT !.pc = "recommend", !.day = today] /\ runs' = runs + 1
      /\ runs < MaxRuns /\ job.pc = "idle"
      /\ UNCHANGED <<inbox, today, rows, watch, pending, mailed, steady, failures>>
  BY DEF StartPipeline
<1>2. /\ job'.pc = "recommend" /\ job'.day = today /\ job'.topics = {} /\ job'.users = {}
      /\ job' \in JobState
  BY <1>1, Facts, NoJobIsJob DEF NoJob, JobState
<1>3. runs' \in 0..MaxRuns
  <2>1. runs \in 0..MaxRuns /\ MaxRuns \in Nat
    BY Facts, Bounds
  <2> QED
    BY <1>1, <2>1
<1>4. TypeOK'
  BY <1>1, <1>2, <1>3, Facts, TypeOKAgain DEF InboxTypeOK
<1>5. DaysInv' /\ ServingInv'
  <2>1. today \in Int
    BY Facts, Bounds
  <2> QED
    BY <1>1, <1>2, <2>1 DEF Inv, DaysInv, ServingInv, Telling
<1>6. NewInv' /\ SteadyInv' /\ MailedIsRecorded'
  BY <1>1, <1>2, SameRows DEF Inv, NewInv, Telling, SteadyInv, MailedIsRecorded
<1>7. SteadyTold'
  <2>1. Owed("idle") = Owed("recommend")
    BY DEF Owed
  <2> QED
    BY <1>1, <1>2, <2>1, SameRows DEF Inv, SteadyTold, Recorded
<1> QED
  BY <1>4, <1>5, <1>6, <1>7 DEF Inv

(* Rows added on the latest date change nothing of what was new. *)
LEMMA NewStays ==
  ASSUME rows \subseteq Row, rows' \subseteq Row, NEW day \in Days,
         \A r \in rows : r.day =< day,
         rows \subseteq rows', \A r \in rows' \ rows : r.day = day,
         NEW c, NEW d, New(c, d)
  PROVE  New(c, d)'
<1>1. PICK e \in TradeDates : /\ e < d /\ c \notin CodesOn(e)
                              /\ \A x \in TradeDates : x < d => x =< e
  BY DEF New
<1>2. /\ d \in TradeDates /\ TradeDates \subseteq Days /\ Days \subseteq Int
      /\ \A x \in TradeDates : x =< day
  <2>1. Days \subseteq Int
    BY Bounds
  <2> QED
    BY <2>1, RowFacts DEF New, CodesOn, TradeDates
<1>3. e \in TradeDates' /\ c \in CodesOn(d)'
  BY DEF TradeDates, New, CodesOn
<1>4. e # day /\ d =< day
  BY <1>1, <1>2
<1>5. c \notin CodesOn(e)'
  BY <1>1, <1>4 DEF CodesOn
<1>6. \A x \in TradeDates' : x \in TradeDates \/ x = day
  BY DEF TradeDates
<1>7. ASSUME NEW x \in TradeDates', x < d PROVE x =< e
  <2>1. d \in Int /\ day \in Int /\ ~ (day < d)
    BY <1>2, <1>4
  <2>2. x \in TradeDates
    BY <1>6, <1>7, <2>1
  <2> QED
    BY <1>1, <1>7, <2>2
<1> QED
  BY <1>1, <1>3, <1>5, <1>7 DEF New

LEMMA RecommendStep == Inv /\ Recommend => Inv'
<1> SUFFICES ASSUME Inv, Recommend PROVE Inv'
  OBVIOUS
<1>1. /\ job.pc = "recommend" /\ job' = [job EXCEPT !.pc = "changes"]
      /\ UNCHANGED <<inbox, today, watch, pending, mailed, steady, runs, failures>>
  BY DEF Recommend
<1>2. PICK C \in SUBSET Codes : \E f \in [C -> Scores] :
        rows' = rows \cup {[day |-> job.day, code |-> c, score |-> f[c]] : c \in C}
  BY DEF Recommend
<1>3. PICK f \in [C -> Scores] :
        rows' = rows \cup {[day |-> job.day, code |-> c, score |-> f[c]] : c \in C}
  BY <1>2
<1>4. /\ job'.pc = "changes" /\ job'.day = job.day /\ job'.topics = job.topics
      /\ job'.users = job.users /\ job'.topic = job.topic /\ job' \in JobState /\ job.day \in Days
  BY <1>1, Facts DEF JobState
<1>5. rows \subseteq rows' /\ rows' \subseteq Row /\ \A r \in rows' \ rows : r.day = job.day
  <2>1. \A c \in C : [day |-> job.day, code |-> c, score |-> f[c]] \in Row
    BY <1>3, <1>4 DEF Row
  <2> QED
    BY <1>3, <2>1, Facts
<1>6. \A c, d : New(c, d) => New(c, d)'
  BY <1>1, <1>4, <1>5, Facts, NewStays DEF Inv, DaysInv
<1>7. TypeOK'
  BY <1>1, <1>4, <1>5, Facts, TypeOKAgain DEF InboxTypeOK
<1>8. DaysInv' /\ ServingInv'
  BY <1>1, <1>4, <1>5 DEF Inv, DaysInv, ServingInv, Telling
<1>9. NewInv'
  BY <1>1, <1>4, <1>6 DEF Inv, NewInv
<1>10. SteadyInv' /\ SteadyTold' /\ MailedIsRecorded'
  BY <1>1, <1>4 DEF Inv, Telling, SteadyInv, SteadyTold, MailedIsRecorded
<1> QED
  BY <1>7, <1>8, <1>9, <1>10 DEF Inv

(***************************************************************************)
(* A check compares the two latest dates.                                   *)
(***************************************************************************)
LEMMA TwoLatest ==
  ASSUME rows \subseteq Row, Cardinality(TradeDates) >= 2
  PROVE  LET new == Latest(TradeDates)
             prev == Latest(TradeDates \ {new})
         IN  /\ new \in TradeDates /\ prev \in TradeDates /\ new \in Days /\ prev \in Days
             /\ prev < new
             /\ \A x \in TradeDates : x < new => x =< prev
<1> DEFINE new == Latest(TradeDates)
           prev == Latest(TradeDates \ {new})
<1>1. /\ IsFiniteSet(TradeDates) /\ TradeDates \subseteq Days /\ Days \subseteq Int
  <2>1. MaxDay \in Int /\ Days = 1..MaxDay
    BY Bounds
  <2>2. IsFiniteSet(Days) /\ Days \subseteq Int
    BY <2>1, FS_Interval
  <2> QED
    BY <2>2, RowFacts, FS_Subset
<1>2. TradeDates # {}
  BY FS_EmptySet
<1>3. new \in TradeDates /\ \A e \in TradeDates : e =< new
  BY <1>1, <1>2, LatestIsMax
<1>4. TradeDates \ {new} # {}
  <2>1. IsFiniteSet(TradeDates \ {new}) /\ Cardinality(TradeDates \ {new}) = Cardinality(TradeDates) - 1
    BY <1>1, <1>3, FS_RemoveElement
  <2>2. Cardinality(TradeDates) \in Nat
    BY <1>1, FS_CardinalityType
  <2>3. Cardinality(TradeDates \ {new}) # 0
    BY <2>1, <2>2
  <2> QED
    BY <2>3, FS_EmptySet
<1>5. prev \in TradeDates \ {new} /\ \A e \in TradeDates \ {new} : e =< prev
  BY <1>1, <1>4, LatestIsMax
<1> HIDE DEF new, prev
<1>6. prev \in Int /\ new \in Int /\ prev =< new /\ prev # new
  BY <1>1, <1>3, <1>5
<1>7. \A x \in TradeDates : x < new => x \in TradeDates \ {new}
  BY <1>1, <1>6
<1>8. /\ new \in TradeDates /\ prev \in TradeDates /\ new \in Days /\ prev \in Days
      /\ prev < new
      /\ \A x \in TradeDates : x < new => x =< prev
  BY <1>1, <1>3, <1>5, <1>6, <1>7
<1> QED
  BY <1>8 DEF new, prev

LEMMA ScoreTopics ==
  ASSUME rows \subseteq Row, NEW a, NEW b, NEW T \in Findings("scores", a, b)
  PROVE  /\ T \subseteq Topics /\ \A t \in T : t[1] = "rec_score_change"
         /\ {"rec_score_change"} \X MovedSurely(a, b) \subseteq T
<1>1. PICK f \in ScoreMaps(a), g \in ScoreMaps(b) : T = ScoreChanges(f, g)
  BY DEF Findings
<1>2. DOMAIN f \subseteq Codes
  BY RowFacts DEF ScoreMaps
<1>3. T \subseteq Types \X Codes
  BY <1>1, <1>2 DEF ScoreChanges, Types
<1>4. ASSUME NEW c \in MovedSurely(a, b)
      PROVE  c \in DOMAIN f \cap DOMAIN g /\ Distance(f[c], g[c]) >= Threshold
  <2>1. c \in CodesOn(a) /\ c \in CodesOn(b)
    BY DEF MovedSurely
  <2>2. /\ c \in DOMAIN f /\ [day |-> a, code |-> c, score |-> f[c]] \in rows
        /\ c \in DOMAIN g /\ [day |-> b, code |-> c, score |-> g[c]] \in rows
    BY <2>1 DEF ScoreMaps
  <2> QED
    BY <2>2 DEF MovedSurely
<1>5. {"rec_score_change"} \X MovedSurely(a, b) \subseteq T
  BY <1>1, <1>4 DEF ScoreChanges
<1> QED
  BY <1>1, <1>3, <1>5, Bounds DEF ScoreChanges

(* With fewer than two dates there is nothing to compare. *)
LEMMA NothingToCompare ==
  ASSUME Inv, NEW pc \in {"changes", "scores"}, NEW loop, Compare(pc, loop),
         ~ (Cardinality(TradeDates) >= 2)
  PROVE  Inv'
<1>1. Cardinality(TradeDates) < 2
  <2>1. MaxDay \in Int /\ Days = 1..MaxDay
    BY Bounds
  <2>2. IsFiniteSet(Days)
    BY <2>1, FS_Interval
  <2>3. Cardinality(TradeDates) \in Nat
    BY <2>2, Facts, RowFacts, FS_Subset, FS_CardinalityType
  <2> QED
    BY <2>3
<1>2. /\ job' = [NoJob EXCEPT !.pc = AfterCheck(pc)] /\ steady' = watch
      /\ job.pc \in {"changes", "scores"}
      /\ UNCHANGED <<inbox, today, rows, watch, pending, mailed, runs, failures>>
  BY <1>1 DEF Compare
<1>3. /\ job'.pc \in {"scores", "idle"} /\ job'.day = 1 /\ job'.topics = {} /\ job'.users = {}
      /\ job' \in JobState
  BY <1>2, NoJobIsJob DEF AfterCheck, NoJob, JobState
<1>4. TypeOK'
  BY <1>2, <1>3, Facts, TypeOKAgain DEF InboxTypeOK
<1>5. DaysInv' /\ ServingInv'
  BY <1>2, <1>3, FirstDay DEF Inv, DaysInv, ServingInv, Telling
<1>6. NewInv' /\ SteadyInv'
  BY <1>2, <1>3 DEF Inv, NewInv, New, TradeDates, CodesOn, Telling, SteadyInv
<1>7. SteadyTold' /\ MailedIsRecorded'
  <2>1. Cardinality(TradeDates)' = Cardinality(TradeDates)
    BY <1>2 DEF TradeDates
  <2> QED
    BY <1>2, <1>3, <2>1 DEF Inv, SteadyTold, MailedIsRecorded
<1> QED
  BY <1>4, <1>5, <1>6, <1>7 DEF Inv

LEMMA CompareStep ==
  ASSUME Inv, CompareCodes \/ CompareScores
  PROVE  Inv'
<1>1. CASE ~ (Cardinality(TradeDates) >= 2)
  BY <1>1, NothingToCompare DEF CompareCodes, CompareScores
<1>2. CASE Cardinality(TradeDates) >= 2
  <2> DEFINE new == Latest(TradeDates)
             prev == Latest(TradeDates \ {new})
  <2>1. /\ new \in TradeDates /\ prev \in TradeDates /\ new \in Days /\ prev \in Days
        /\ prev < new
        /\ \A x \in TradeDates : x < new => x =< prev
    BY <1>2, Facts, TwoLatest
  <2>2. ~ (Cardinality(TradeDates) < 2)
    <3>1. MaxDay \in Int /\ Days = 1..MaxDay
      BY Bounds
    <3>2. IsFiniteSet(Days)
      BY <3>1, FS_Interval
    <3>3. Cardinality(TradeDates) \in Nat
      BY <3>2, Facts, RowFacts, FS_Subset, FS_CardinalityType
    <3> QED
      BY <1>2, <3>3
  <2>3. /\ steady' = watch /\ job.pc \in {"changes", "scores"}
        /\ UNCHANGED <<inbox, today, rows, watch, pending, mailed, runs, failures>>
    <3>1. CASE CompareCodes
      BY <3>1 DEF CompareCodes, Compare
    <3>2. CASE CompareScores
      BY <3>2 DEF CompareScores, Compare
    <3> QED
      BY <3>1, <3>2
  <2>4. PICK loop \in {"tell_changes", "tell_scores"}, T \in SUBSET Topics :
          /\ job' = [NoJob EXCEPT !.pc = loop, !.day = new, !.prev = prev, !.topics = T]
          /\ loop = "tell_changes" => T = Changes(new, prev)
          /\ loop = "tell_scores" =>
               /\ \A t \in T : t[1] = "rec_score_change"
               /\ {"rec_score_change"} \X MovedSurely(new, prev) \subseteq T
    <3>1. CASE CompareCodes
      <4>1. job' = [NoJob EXCEPT !.pc = "tell_changes", !.day = new, !.prev = prev,
                                 !.topics = Changes(new, prev)]
        BY <2>2, <3>1 DEF CompareCodes, Compare, Findings
      <4> QED
        BY <4>1, Facts, RowFacts
    <3>2. CASE CompareScores
      <4>1. PICK T \in Findings("scores", new, prev) :
              job' = [NoJob EXCEPT !.pc = "tell_scores", !.day = new, !.prev = prev, !.topics = T]
        BY <2>2, <3>2 DEF CompareScores, Compare
      <4>2. /\ T \in SUBSET Topics /\ \A t \in T : t[1] = "rec_score_change"
            /\ {"rec_score_change"} \X MovedSurely(new, prev) \subseteq T
        BY <4>1, Facts, ScoreTopics
      <4> QED
        BY <4>1, <4>2
    <3> QED
      BY <3>1, <3>2
  <2> HIDE DEF new, prev
  <2>5. /\ job'.pc = loop /\ job'.day = new /\ job'.topics = T /\ job'.users = {}
        /\ job' \in JobState
    BY <2>1, <2>4, NoJobIsJob DEF NoJob, JobState
  <2>6. TypeOK'
    BY <2>3, <2>5, Facts, TypeOKAgain DEF InboxTypeOK
  <2>7. \A c \in Codes : <<"rec_new", c>> \in Changes(new, prev) => New(c, new)
    <3>1. \A c \in Codes : <<"rec_new", c>> \in Changes(new, prev) =>
                             c \in CodesOn(new) /\ c \notin CodesOn(prev)
      BY DEF Changes
    <3> QED
      BY <2>1, <3>1 DEF New
  <2>8. DaysInv' /\ ServingInv'
    <3>1. new =< today
      BY <2>1 DEF Inv, DaysInv, TradeDates
    <3> QED
      BY <2>3, <2>4, <2>5, <3>1 DEF Inv, DaysInv, ServingInv, Telling
  <2>9. NewInv'
    <3>1. \A t \in T : t[1] = "rec_new" => New(t[2], new)
      <4>1. T \subseteq Types \X Codes
        BY Bounds
      <4>2. ASSUME NEW t \in T, t[1] = "rec_new" PROVE New(t[2], new)
        <5>1. t = <<"rec_new", t[2]>> /\ t[2] \in Codes
          BY <4>1, <4>2
        <5>2. T = Changes(new, prev)
          BY <2>4, <4>2
        <5> QED
          BY <2>7, <5>1, <5>2
      <4> QED
        BY <4>2
    <3>2. \A c, d : New(c, d)' = New(c, d)
      BY <2>3 DEF New, TradeDates, CodesOn
    <3> QED
      BY <2>3, <2>5, <3>1, <3>2 DEF Inv, NewInv
  <2>10. SteadyInv'
    <3>1. /\ new = LastDate /\ Changes(new, prev) = LastChanges
          /\ MovedSurely(new, prev) = LastMoved
      BY DEF new, prev, LastDate, LastChanges, LastMoved
    <3>2. Owed(loop) \subseteq T
      BY <2>4, <3>1 DEF Owed
    <3> QED
      BY <2>3, <2>5, <3>1, <3>2, SameRows DEF SteadyInv
  <2>11. SteadyTold' /\ MailedIsRecorded'
    BY <2>3, <2>5 DEF Inv, SteadyTold, MailedIsRecorded
  <2> QED
    BY <2>6, <2>8, <2>9, <2>10, <2>11 DEF Inv
<1> QED
  BY <1>1, <1>2

(***************************************************************************)
(* A check tells.                                                           *)
(***************************************************************************)

LEMMA NextTopicStep == Inv /\ NextTopic => Inv'
<1> SUFFICES ASSUME Inv, NextTopic PROVE Inv'
  OBVIOUS
<1>1. /\ Telling /\ job.users = {}
      /\ UNCHANGED <<inbox, today, rows, watch, pending, mailed, steady, runs, failures>>
  BY DEF NextTopic
<1>2. PICK t \in job.topics :
        job' = [job EXCEPT !.topics = @ \ {t}, !.topic = t,
                           !.users = {u \in Users : <<u, t[2]>> \in watch}]
  BY DEF NextTopic
<1>3. /\ job'.pc = job.pc /\ job'.day = job.day /\ job'.topics = job.topics \ {t}
      /\ job'.topic = t /\ job'.users = {u \in Users : <<u, t[2]>> \in watch}
      /\ job' \in JobState /\ t \in Topics
  BY <1>2, Facts DEF JobState
<1>4. TypeOK'
  BY <1>1, <1>3, Facts, TypeOKAgain DEF InboxTypeOK
<1>5. DaysInv' /\ ServingInv'
  BY <1>1, <1>3 DEF Inv, DaysInv, ServingInv, Telling
<1>6. NewInv'
  BY <1>1, <1>3, SameRows DEF Inv, NewInv
<1>7. SteadyInv'
  BY <1>1, <1>3, Facts, SameRows DEF Inv, Telling, SteadyInv
<1>8. SteadyTold' /\ MailedIsRecorded'
  BY <1>1, <1>3 DEF Inv, Telling, SteadyTold, MailedIsRecorded
<1> QED
  BY <1>4, <1>5, <1>6, <1>7, <1>8 DEF Inv

LEMMA TellStep ==
  ASSUME Inv, NEW u \in Users, Tell(u)
  PROVE  Inv'
<1> DEFINE key == <<u, job.topic, job.day>>
<1>1. /\ Telling /\ u \in job.users /\ pending' = pending \cup {key}
      /\ mailed' \in {mailed, [mailed EXCEPT ![key] = @ + 1]}
      /\ job' = [job EXCEPT !.users = @ \ {u}]
      /\ UNCHANGED <<inbox, today, rows, watch, steady, runs, failures>>
  BY DEF Tell
<1>2. /\ job'.pc = job.pc /\ job'.day = job.day /\ job'.topics = job.topics
      /\ job'.topic = job.topic /\ job'.users = job.users \ {u} /\ job' \in JobState
      /\ job.day \in Days
  BY <1>1, Facts DEF JobState
<1>3. job.topic \in Topics
  BY <1>1 DEF Inv, ServingInv
<1>4. key \in Keys
  BY <1>2, <1>3 DEF Keys
<1>5. mailed' \in [Keys -> Nat] /\ \A k \in Keys : k # key => mailed'[k] = mailed[k]
  BY <1>1, <1>4, Facts
<1>6. TypeOK'
  BY <1>1, <1>2, <1>4, <1>5, Facts, TypeOKAgain DEF InboxTypeOK
<1>7. DaysInv' /\ ServingInv'
  BY <1>1, <1>2 DEF Inv, DaysInv, ServingInv, Telling
<1>8. NewInv'
  <2>1. job.topic[1] = "rec_new" => New(job.topic[2], job.day)
    BY <1>1 DEF Inv, NewInv
  <2>2. \A k \in Keys : (inbox[k] # "absent" \/ k \in pending') /\ k[2][1] = "rec_new" =>
          New(k[2][2], k[3])
    BY <1>1, <2>1 DEF Inv, NewInv
  <2> QED
    BY <1>1, <1>2, <2>2, SameRows DEF Inv, NewInv
<1>9. SteadyInv'
  BY <1>1, <1>2, SameRows DEF Inv, Telling, SteadyInv
<1>10. SteadyTold' /\ MailedIsRecorded'
  BY <1>1, <1>2, <1>5 DEF Inv, Telling, SteadyTold, MailedIsRecorded
<1> QED
  BY <1>6, <1>7, <1>8, <1>9, <1>10 DEF Inv

LEMMA CommitStep == Inv /\ CommitCheck => Inv'
<1> SUFFICES ASSUME Inv, CommitCheck PROVE Inv'
  OBVIOUS
<1>1. /\ Telling /\ job.users = {} /\ job.topics = {} /\ inbox' = WithRows(inbox, pending)
      /\ pending' = {} /\ job' = [NoJob EXCEPT !.pc = EndOfCheck]
      /\ UNCHANGED <<today, rows, watch, mailed, steady, runs, failures>>
  BY DEF CommitCheck
<1>2. /\ job'.pc = EndOfCheck /\ EndOfCheck \in {"scores", "idle"} /\ job'.day = 1
      /\ job'.topics = {} /\ job'.users = {} /\ job' \in JobState
  BY <1>1, NoJobIsJob DEF EndOfCheck, NoJob, JobState
<1>3. /\ InboxTypeOK'
      /\ \A k \in Keys : inbox'[k] # "absent" <=> (inbox[k] # "absent" \/ k \in pending)
  BY <1>1, Facts DEF InboxTypeOK, WithRows, RowStates
<1>4. TypeOK'
  BY <1>1, <1>2, <1>3, Facts, TypeOKAgain
<1>5. DaysInv' /\ ServingInv'
  BY <1>1, <1>2, FirstDay DEF Inv, DaysInv, ServingInv, Telling
<1>6. NewInv'
  BY <1>1, <1>2, <1>3, SameRows DEF Inv, NewInv
<1>7. SteadyInv' /\ MailedIsRecorded'
  BY <1>1, <1>2, <1>3 DEF Inv, Telling, SteadyInv, MailedIsRecorded
<1>8. SteadyTold'
  <2>1. Owed(job'.pc) = Owed(job.pc)
    BY <1>1, <1>2 DEF Telling, EndOfCheck, Owed
  <2>2. ASSUME NEW t \in Owed(job.pc), NEW u \in Users, <<u, t[2]>> \in steady
        PROVE  inbox'[<<u, <<t[1], t[2]>>, LastDate>>] # "absent"
    <3>1. LastDate = job.day /\ job.day \in Days
      BY <1>1, Facts DEF Inv, SteadyInv, JobState
    <3>2. t \in Topics /\ t = <<t[1], t[2]>>
      BY Facts, OwedAreTopics
    <3>3. <<u, t, LastDate>> \in Keys
      BY <3>1, <3>2 DEF Keys
    <3>4. <<u, t, LastDate>> \in pending \/ inbox[<<u, t, LastDate>>] # "absent"
      BY <1>1, <2>2, <3>1 DEF Inv, SteadyInv
    <3> QED
      BY <1>3, <3>2, <3>3, <3>4
  <2> QED
    BY <1>1, <2>1, <2>2, SameRows DEF SteadyTold, Recorded
<1> QED
  BY <1>4, <1>5, <1>6, <1>7, <1>8 DEF Inv

(***************************************************************************)
(* A check or the process fails.                                            *)
(***************************************************************************)
LEMMA FailureStep ==
  ASSUME Inv, CheckRaises \/ Crash
  PROVE  Inv'
<1>1. PICK p \in {"scores", "idle"} :
        /\ job' = [NoJob EXCEPT !.pc = p] /\ pending' = {} /\ steady' = {}
        /\ failures < MaxFailures /\ failures' = failures + 1
        /\ UNCHANGED <<inbox, today, rows, watch, mailed, runs>>
  <2>1. CASE CheckRaises
    BY <2>1 DEF CheckRaises, EndOfCheck
  <2>2. CASE Crash
    <3>1. NoJob = [NoJob EXCEPT !.pc = "idle"]
      BY DEF NoJob
    <3> QED
      BY <2>2, <3>1 DEF Crash
  <2> QED
    BY <2>1, <2>2
<1>2. /\ job'.pc = p /\ job'.day = 1 /\ job'.topics = {} /\ job'.users = {} /\ job' \in JobState
  BY <1>1, NoJobIsJob DEF NoJob, JobState
<1>3. failures' \in 0..MaxFailures /\ failures' # 0
  <2>1. failures \in 0..MaxFailures /\ MaxFailures \in Nat
    BY Facts, Bounds
  <2> QED
    BY <1>1, <2>1
<1>4. TypeOK'
  BY <1>1, <1>2, <1>3, Facts, TypeOKAgain DEF InboxTypeOK
<1>5. DaysInv' /\ ServingInv'
  BY <1>1, <1>2, FirstDay DEF Inv, DaysInv, ServingInv, Telling
<1>6. NewInv' /\ SteadyInv'
  BY <1>1, <1>2, SameRows DEF Inv, NewInv, Telling, SteadyInv
<1>7. SteadyTold' /\ MailedIsRecorded'
  BY <1>1, <1>3 DEF SteadyTold, MailedIsRecorded
<1> QED
  BY <1>4, <1>5, <1>6, <1>7 DEF Inv

(***************************************************************************)
(* The users, the calendar, and steps of other modules.                     *)
(***************************************************************************)
LEMMA WatchStep ==
  ASSUME Inv, NEW u \in Users, NEW c \in Codes, Watch(u, c)
  PROVE  Inv'
<1>1. /\ watch' \subseteq Users \X Codes /\ steady' \subseteq watch' /\ steady' \subseteq steady
      /\ UNCHANGED <<inbox, today, rows, job, pending, mailed, runs, failures>>
  BY Facts DEF Watch
<1>2. TypeOK'
  BY <1>1, Facts, TypeOKAgain DEF InboxTypeOK
<1>3. DaysInv' /\ ServingInv' /\ NewInv'
  BY <1>1, SameRows DEF Inv, DaysInv, ServingInv, Telling, NewInv
<1>4. SteadyInv' /\ SteadyTold' /\ MailedIsRecorded'
  BY <1>1, SameRows DEF Inv, Telling, SteadyInv, SteadyTold, MailedIsRecorded, Recorded
<1> QED
  BY <1>2, <1>3, <1>4 DEF Inv

LEMMA ReadStep == Inv /\ ReadInbox => Inv'
<1> SUFFICES ASSUME Inv, ReadInbox PROVE Inv'
  OBVIOUS
<1>1. UNCHANGED <<today, rows, watch, job, pending, mailed, steady, runs, failures>>
  BY DEF ReadInbox
<1>2. PICK reader \in Users : MarkAsRead(reader) \/ MarkAllRead(reader)
  BY DEF ReadInbox
<1>3. InboxTypeOK' /\ \A k \in Keys : inbox'[k] # "absent" <=> inbox[k] # "absent"
  <2>1. CASE MarkAsRead(reader)
    BY <2>1, Facts DEF MarkAsRead, InboxTypeOK, RowStates
  <2>2. CASE MarkAllRead(reader)
    BY <2>2, Facts DEF MarkAllRead, InboxTypeOK, RowStates
  <2> QED
    BY <1>2, <2>1, <2>2
<1>4. TypeOK'
  BY <1>1, <1>3, Facts, TypeOKAgain
<1>5. DaysInv' /\ ServingInv' /\ NewInv' /\ MailedIsRecorded'
  BY <1>1, <1>3, SameRows DEF Inv, DaysInv, ServingInv, Telling, NewInv, MailedIsRecorded
<1>6. \A t \in Owed(job.pc) : t \in Topics /\ t = <<t[1], t[2]>>
  BY Facts, OwedAreTopics
<1>7. SteadyInv'
  <2>1. \A t \in Owed(job.pc), u \in Users : <<u, t, job.day>> \in Keys
    BY <1>6, Facts DEF Keys, JobState
  <2> QED
    BY <1>1, <1>3, <2>1, SameRows DEF Inv, Telling, SteadyInv
<1>8. SteadyTold'
  <2>1. ASSUME Cardinality(TradeDates) >= 2 PROVE LastDate \in Days
    BY <2>1, Facts, TwoLatest DEF LastDate
  <2>2. \A t \in Owed(job.pc), u \in Users :
          Cardinality(TradeDates) >= 2 => <<u, <<t[1], t[2]>>, LastDate>> \in Keys
    BY <1>6, <2>1 DEF Keys
  <2> QED
    BY <1>1, <1>3, <2>2, SameRows DEF Inv, SteadyTold, Recorded
<1> QED
  BY <1>4, <1>5, <1>7, <1>8 DEF Inv

LEMMA MidnightStep ==
  ASSUME Inv, Midnight \/ UNCHANGED vars
  PROVE  Inv'
<1>1. UNCHANGED <<inbox, rows, watch, job, pending, mailed, steady, runs, failures>>
  BY DEF Midnight, vars
<1>2. today' \in Days /\ today' >= today /\ today \in Int /\ Days \subseteq Int
  <2>1. MaxDay \in Nat \ {0} /\ Days = 1..MaxDay /\ today \in Days
    BY Bounds, Facts
  <2>2. today' = today \/ (today < MaxDay /\ today' = today + 1)
    BY DEF Midnight, vars
  <2> QED
    BY <2>1, <2>2
<1>3. TypeOK'
  BY <1>1, <1>2, Facts, TypeOKAgain DEF InboxTypeOK
<1>4. DaysInv'
  <2>1. job.day \in Int /\ \A r \in rows : r.day \in Int
    BY <1>2, Facts DEF JobState, Row
  <2> QED
    BY <1>1, <1>2, <2>1 DEF Inv, DaysInv
<1>5. ServingInv' /\ NewInv' /\ SteadyInv' /\ SteadyTold' /\ MailedIsRecorded'
  BY <1>1, SameRows
  DEF Inv, ServingInv, Telling, NewInv, SteadyInv, SteadyTold, MailedIsRecorded, Recorded
<1> QED
  BY <1>3, <1>4, <1>5 DEF Inv

-----------------------------------------------------------------------------
LEMMA Initially == Init => Inv
<1> SUFFICES ASSUME Init PROVE Inv
  OBVIOUS
<1>1. 1 \in Days
  <2>1. MaxDay \in Nat \ {0} /\ Days = 1..MaxDay
    BY Bounds
  <2> QED
    BY <2>1
<1>2. TypeOK
  <2>1. InboxTypeOK
    BY InboxStart DEF Init
  <2>2. job \in JobState
    BY NoJobIsJob DEF Init
  <2>3. mailed \in [Keys -> Nat] /\ runs \in 0..MaxRuns /\ failures \in 0..MaxFailures
    BY Bounds DEF Init
  <2> QED
    BY <1>1, <2>1, <2>2, <2>3 DEF Init, TypeOK, JobState
<1>3. job.pc = "idle" /\ job.day = 1 /\ job.topics = {} /\ job.users = {}
  BY DEF Init, NoJob
<1>4. DaysInv /\ ServingInv /\ SteadyInv /\ SteadyTold
  BY <1>3 DEF Init, DaysInv, ServingInv, Telling, SteadyInv, SteadyTold
<1>5. NewInv /\ MailedIsRecorded
  BY <1>3 DEF Init, InboxInit, NewInv, MailedIsRecorded
<1> QED
  BY <1>2, <1>4, <1>5 DEF Inv

(***************************************************************************)
(* The invariant holds throughout, however runs, watch lists, readers and   *)
(* failures interleave.                                                     *)
(***************************************************************************)
THEOREM InvHolds == Spec => []Inv
<1>1. Inv /\ [Next]_vars => Inv'
  <2> SUFFICES ASSUME Inv, [Next]_vars PROVE Inv'
    OBVIOUS
  <2>1. CASE Pipeline
    BY <2>1, StartStep, RecommendStep, CompareStep, NextTopicStep, TellStep, CommitStep, FailureStep
    DEF Pipeline
  <2>2. CASE Crash
    BY <2>2, FailureStep
  <2>3. CASE \E u \in Users, c \in Codes : Watch(u, c)
    BY <2>3, WatchStep
  <2>4. CASE ReadInbox
    BY <2>4, ReadStep
  <2>5. CASE Midnight \/ UNCHANGED vars
    BY <2>5, MidnightStep
  <2> QED
    BY <2>1, <2>2, <2>3, <2>4, <2>5 DEF Next
<1> QED
  BY <1>1, Initially, PTL DEF Spec

(***************************************************************************)
(* check_rec_changes: what was announced as newly recommended was, and      *)
(* later runs of the day do not make it untrue.                             *)
(***************************************************************************)
THEOREM NewHolds == Spec => []NewStaysTrue
<1>1. Inv => NewStaysTrue
  <2> SUFFICES ASSUME Inv, NEW u \in Users, NEW c \in Codes, NEW d \in Days,
                      Recorded(u, "rec_new", c, d)
               PROVE  New(c, d)
    BY DEF NewStaysTrue, New
  <2>1. <<"rec_new", c>> \in Topics
    BY Bounds DEF Types
  <2> DEFINE k == <<u, <<"rec_new", c>>, d>>
  <2>2. k \in Keys /\ inbox[k] # "absent"
    BY <2>1 DEF Keys, Recorded
  <2>3. k[2][1] = "rec_new" /\ k[2][2] = c /\ k[3] = d
    OBVIOUS
  <2> HIDE DEF k
  <2> QED
    BY <2>2, <2>3 DEF Inv, NewInv
<1> QED
  BY <1>1, InvHolds, PTL

(***************************************************************************)
(* REQ-RC-002, REQ-RC-003, REQ-023-016: whoever has watched a stock since   *)
(* the comparison has its row when the check has committed: of a code that  *)
(* is new or dropped after check_rec_changes, and of one whose score moved  *)
(* after check_rec_score_changes.                                           *)
(***************************************************************************)
THEOREM SteadyWatchersHave == Spec => []SteadyWatchersAreTold
<1>1. Inv => SteadyWatchersAreTold
  <2> SUFFICES ASSUME Inv, Cardinality(TradeDates) >= 2, NEW u \in Users, NEW c \in Codes,
                      <<u, c>> \in steady
               PROVE  /\ job.pc = "scores" =>
                           \A type \in Types : <<type, c>> \in LastChanges =>
                             Recorded(u, type, c, LastDate)
                      /\ job.pc \in {"idle", "recommend"} /\ c \in LastMoved =>
                           Recorded(u, "rec_score_change", c, LastDate)
    BY DEF SteadyWatchersAreTold, LastChanges, LastMoved, LastDate
  <2>1. \A t \in Owed(job.pc) : job.pc \in {"scores", "idle", "recommend"} /\ t[2] = c =>
          Recorded(u, t[1], t[2], LastDate)
    BY DEF Inv, SteadyTold
  <2>2. ASSUME job.pc = "scores", NEW type \in Types, <<type, c>> \in LastChanges
        PROVE  Recorded(u, type, c, LastDate)
    <3>1. <<type, c>> \in Owed(job.pc)
      BY <2>2 DEF Owed
    <3> QED
      BY <2>1, <2>2, <3>1
  <2>3. ASSUME job.pc \in {"idle", "recommend"}, c \in LastMoved
        PROVE  Recorded(u, "rec_score_change", c, LastDate)
    <3>1. <<"rec_score_change", c>> \in Owed(job.pc)
      BY <2>3 DEF Owed
    <3> QED
      BY <2>1, <2>3, <3>1
  <2> QED
    BY <2>2, <2>3
<1> QED
  BY <1>1, InvHolds, PTL

(***************************************************************************)
(* While nothing fails, a mail is never without its row in the inbox, or    *)
(* among those the check is about to commit.                                *)
(***************************************************************************)
THEOREM MailHasRow == Spec => []MailedIsRecorded
<1>1. Inv => MailedIsRecorded
  BY DEF Inv
<1> QED
  BY <1>1, InvHolds, PTL

(***************************************************************************)
(* The two checks and their readers implement the abstract inbox.           *)
(***************************************************************************)
THEOREM ImplementsInbox == Spec => InboxSpec
<1>1. Init => InboxInit
  BY DEF Init
<1>2. ASSUME Inv, [Next]_vars PROVE [InboxNext]_inbox
  <2>1. CASE CommitCheck
    <3>1. pending \in SUBSET Keys /\ inbox' = WithRows(inbox, pending)
      BY <1>2, <2>1, Facts DEF CommitCheck
    <3> QED
      BY <3>1 DEF InboxNext
  <2>2. CASE ReadInbox
    BY <2>2 DEF ReadInbox, InboxNext
  <2>3. CASE UNCHANGED inbox
    BY <2>3
  <2> QED
    BY <1>2, <2>1, <2>2, <2>3
    DEF Next, Pipeline, StartPipeline, Recommend, CompareCodes, CompareScores, Compare, NextTopic,
        Tell, CheckRaises, Crash, Watch, Midnight, vars
<1> QED
  BY <1>1, <1>2, InvHolds, PTL DEF Spec, InboxSpec

(***************************************************************************)
(* No rerun of a check deletes a row or marks one unread again.             *)
(***************************************************************************)
THEOREM RowsAdvance == Spec => InboxRowsOnlyAdvance
  BY ImplementsInbox, RowsOnlyAdvance, PTL
=============================================================================
