--------------------------- MODULE PipelineProofs ---------------------------
(***************************************************************************)
(* Theorems about the daily pipeline, from the news to the published list:  *)
(*   Recommendations  what a request without parameters gets, what a run    *)
(*                    purges, and where the list of an answer is found,     *)
(*                    for any readers, queries and bounds;                  *)
(*   NewsPipeline     what the rows of articles, results and trends tell of *)
(*                    each other, for any feeds, articles and runs;         *)
(*   Scoring          what the score of a stock is made of, for any         *)
(*                    mentions, quotes and votes.                           *)
(***************************************************************************)
EXTENDS Recommendations, NewsPipeline, Scoring, FiniteSetTheorems, TLAPS

(***************************************************************************)
(* The list of recommendations and its caches.                               *)
(***************************************************************************)

(* The run has a list in hand from its computation to the commit only, and from
   the computation to the publication it is the newest. *)
JobHasBatch ==
  /\ job.pc \in {"idle", "lookup", "compute", "purge"} => job.batch = None
  /\ job.pc = "publish" => job.batch \in Batch /\ job.batch.no = count /\ job.batch.day = job.day

(* The base list of a date is of that date, and no serial number is ahead of the
   count. *)
BaseIsDated ==
  /\ \A d \in Days : base[d] # None => base[d].day = d /\ base[d].no =< count
  /\ \A r \in Readers : req[r].newest =< count

(* The base list of the date of a request is never older than when it came in;
   without parameters it looks nowhere else. *)
RequestInv ==
  \A r \in Readers :
    /\ req[r].pc # "answered" => req[r].answer = None
    /\ req[r].pc # "idle" => req[r].query \in Queries
    /\ req[r].pc \in {"derived", "store"} => ~IsDefault(req[r].query)
    /\ req[r].pc = "store" => req[r].batch \in Batch
    /\ base[req[r].day] # None => base[req[r].day].no >= req[r].newest

(* What the scan of a run has passed is of the list it published, except
   under a late key. *)
Scanned ==
  job.pc = "purge" => \A k \in DerivedKeys \ (job.todo \cup late) :
    derived[k] # None => derived[k].batch.no = published

(* There is no base list of a day to come, nor of a day after that of the run; so
   the one of today is the last that was published, and it is what a request sees
   that cannot fill a late key. *)
Newest(d) == base[d] # None => base[d].no = published

Fresh ==
  /\ \A d \in Days : base[d] # None => d =< today
  /\ job.pc # "idle" => job.day =< today /\ \A d \in Days : base[d] # None => d =< job.day
  /\ Newest(today)
  /\ \A r \in Readers : req[r].pc \in {"derived", "base", "store"} =>
       \/ DerivedKey(req[r].query) \in late
       \/ req[r].pc # "store" /\ Newest(req[r].day)
       \/ req[r].pc = "store" /\ req[r].batch.no = published

(* While nothing has failed, every list that is cached or in a request is stored
   or in the hands of the run. *)
Kept == table \cup {job.batch}

Stored ==
  failures = 0 =>
    /\ \A d \in Days : base[d] # None => base[d] \in Kept
    /\ \A k \in DerivedKeys : derived[k] # None => derived[k].batch \in Kept
    /\ \A r \in Readers : /\ req[r].pc = "store" => req[r].batch \in Kept
                          /\ req[r].answer # None => req[r].answer.batch \in Kept

Inv == /\ TypeOK /\ JobHasBatch /\ BaseIsDated /\ RequestInv
       /\ DefaultIsCurrent /\ Scanned /\ CleanRunPurges /\ Stored

LEMMA NoneIsNoBatch == None \notin Batch
  BY RecommendationsAssumption DEF Batch, Days

(***************************************************************************)
(* Initially.                                                               *)
(***************************************************************************)
LEMMA NoRequestIsRequest == NoRequest \in RequestState /\ NoRun \in JobState /\ 1 \in Days
  BY RecommendationsAssumption DEF NoRequest, RequestState, NoRun, JobState, Days

LEMMA Initially == Init => Inv
<1> SUFFICES ASSUME Init PROVE Inv
  OBVIOUS
<1>1. TypeOK
  BY NoRequestIsRequest, RecommendationsAssumption DEF Init, TypeOK
<1>2. JobHasBatch /\ Scanned
  BY DEF Init, NoRun, JobHasBatch, Scanned
<1>3. BaseIsDated /\ RequestInv /\ DefaultIsCurrent
  BY NoRequestIsRequest, RecommendationsAssumption
  DEF Init, NoRequest, BaseIsDated, RequestInv, DefaultIsCurrent, Answered
<1>4. CleanRunPurges /\ Stored
  BY DEF Init, NoRequest, CleanRunPurges, Stored
<1> QED
  BY <1>1, <1>2, <1>3, <1>4 DEF Inv

(***************************************************************************)
(* The steps of the run, as far as they leave base, derived and requests    *)
(* alone.                                                                   *)
(***************************************************************************)
LEMMA QuietJobStep ==
  ASSUME Inv, StartRun \/ CacheHit \/ CacheMiss \/ Compute \/ CommitRun \/ RunRaises \/ FinishRun
  PROVE  Inv'
<1>1. /\ job \in JobState /\ count \in 0..MaxBatches /\ failures \in 0..MaxFailures
      /\ today \in Days /\ table \subseteq Batch /\ JobHasBatch
  BY DEF Inv, TypeOK
<1>2. UNCHANGED <<base, derived, req, published, late, today>>
  BY DEF StartRun, CacheHit, CacheMiss, Compute, CommitRun, RunRaises, FinishRun
<1>3. /\ count' \in 0..MaxBatches /\ failures' \in 0..MaxFailures
      /\ count' >= count /\ failures' >= failures /\ clean' \in {clean, TRUE}
  <2>1. count' = count \/ (count < MaxBatches /\ count' = count + 1)
    BY DEF StartRun, CacheHit, CacheMiss, Compute, CommitRun, RunRaises, FinishRun
  <2>2. failures' = failures \/ (failures < MaxFailures /\ failures' = failures + 1)
    BY DEF StartRun, CacheHit, CacheMiss, Compute, CommitRun, RunRaises, FinishRun, Fails
  <2>3. clean' = clean \/ clean' = TRUE
    BY DEF StartRun, CacheHit, CacheMiss, Compute, CommitRun, RunRaises, FinishRun
  <2>4. count' \in 0..MaxBatches /\ count' >= count
    BY <1>1, <2>1, RecommendationsAssumption
  <2>5. failures' \in 0..MaxFailures /\ failures' >= failures
    BY <1>1, <2>2, RecommendationsAssumption
  <2> QED
    BY <2>3, <2>4, <2>5
<1>4. /\ job' \in JobState /\ table' \subseteq Batch /\ JobHasBatch'
      /\ (CommitRun \/ job'.pc # "purge")
  <2>1. CASE Compute
    <3>1. CASE job' = [job EXCEPT !.pc = "commit"] /\ UNCHANGED count
      BY <1>1, <2>1, <3>1 DEF Compute, JobState, JobHasBatch
    <3>2. CASE /\ count < MaxBatches /\ count' = count + 1
               /\ job' = [job EXCEPT !.pc = "publish", !.batch = [day |-> job.day, no |-> count + 1]]
      <4>1. job.day \in Days /\ count + 1 \in 1..MaxBatches
        BY <1>1, <3>2, RecommendationsAssumption DEF JobState
      <4>2. [day |-> job.day, no |-> count + 1] \in Batch
        BY <4>1 DEF Batch
      <4>3. /\ job'.pc = "publish" /\ job'.batch = [day |-> job.day, no |-> count + 1]
            /\ job'.day = job.day /\ job' \in JobState
        BY <1>1, <3>2, <4>2 DEF JobState
      <4> QED
        BY <1>1, <2>1, <3>2, <4>2, <4>3 DEF Compute, JobHasBatch
    <3> QED
      BY <2>1, <3>1, <3>2 DEF Compute
  <2>2. CASE StartRun
    BY <1>1, <2>2 DEF StartRun, JobState, JobHasBatch
  <2>3. CASE CacheHit
    BY <1>1, <2>3 DEF CacheHit, JobState, JobHasBatch
  <2>4. CASE CacheMiss
    BY <1>1, <2>4 DEF CacheMiss, JobState, JobHasBatch
  <2>5. CASE CommitRun
    BY <1>1, <2>5 DEF CommitRun, JobState, JobHasBatch
  <2>6. CASE RunRaises
    BY <1>1, <2>6, NoRequestIsRequest DEF RunRaises, NoRun, JobHasBatch
  <2>7. CASE FinishRun
    BY <1>1, <2>7, NoRequestIsRequest DEF FinishRun, NoRun, JobHasBatch
  <2> QED
    BY <2>1, <2>2, <2>3, <2>4, <2>5, <2>6, <2>7
<1>5. TypeOK' /\ JobHasBatch'
  BY <1>2, <1>3, <1>4 DEF Inv, TypeOK
<1>6. BaseIsDated' /\ RequestInv' /\ DefaultIsCurrent'
  <2>1. \A d \in Days : base[d] # None => base[d].no \in Nat
    BY RecommendationsAssumption DEF Inv, TypeOK, Batch
  <2>2. \A r \in Readers : req[r].newest \in Nat
    BY RecommendationsAssumption DEF Inv, TypeOK, RequestState
  <2> QED
    BY <1>1, <1>2, <1>3, <2>1, <2>2 DEF Inv, BaseIsDated, RequestInv, DefaultIsCurrent, Answered
<1>7. Scanned'
  <2>1. CASE CommitRun
    BY <2>1, <1>1 DEF CommitRun, Scanned, JobState
  <2> QED
    BY <1>4, <2>1 DEF Scanned
<1>8. CleanRunPurges'
  <2>1. CASE FinishRun
    BY <2>1, <1>1 DEF FinishRun, CleanRunPurges, Inv, Scanned
  <2>2. CASE UNCHANGED clean
    BY <1>2, <2>2 DEF CleanRunPurges, Inv
  <2> QED
    BY <2>1, <2>2 DEF StartRun, CacheHit, CacheMiss, Compute, CommitRun, RunRaises
<1>9. Stored'
  <2>1. CASE RunRaises
    BY <1>1, <2>1 DEF RunRaises, Fails, Stored
  <2>2. SUFFICES ASSUME ~RunRaises, failures' = 0 PROVE Stored'
    BY <2>1 DEF Stored
  <2>3. failures = 0
    BY <1>1, <1>3, <2>2, RecommendationsAssumption
  <2>4. Kept \cap Batch \subseteq Kept'
    <3>1. CASE Compute
      BY <1>1, <3>1, NoneIsNoBatch DEF Compute, Kept, JobHasBatch, JobState
    <3>2. CASE CommitRun
      BY <1>1, <3>2, NoneIsNoBatch DEF CommitRun, Kept, JobState
    <3>3. CASE FinishRun
      BY <1>1, <3>3, NoneIsNoBatch DEF FinishRun, NoRun, Kept, JobHasBatch
    <3>4. CASE StartRun \/ CacheHit \/ CacheMiss
      BY <1>1, <3>4 DEF StartRun, CacheHit, CacheMiss, Kept, JobState
    <3> QED
      BY <2>2, <3>1, <3>2, <3>3, <3>4
  <2>5. /\ \A d \in Days : base[d] # None => base[d] \in Batch
        /\ \A k \in DerivedKeys : derived[k] # None => derived[k].batch \in Batch
        /\ \A r \in Readers : /\ req[r].pc = "store" => req[r].batch \in Batch
                              /\ req[r].answer # None => req[r].answer.batch \in Batch
    BY DEF Inv, TypeOK, Entry, RequestState, RequestInv
  <2> QED
    BY <1>2, <2>3, <2>4, <2>5 DEF Inv, Stored
<1> QED
  BY <1>5, <1>6, <1>7, <1>8, <1>9 DEF Inv

(***************************************************************************)
(* The steps of the run that write a cache.                                 *)
(***************************************************************************)
LEMMA PublishStep == Inv /\ Publish => Inv'
<1> SUFFICES ASSUME Inv, Publish PROVE Inv'
  OBVIOUS
<1>1. /\ job \in JobState /\ count \in 0..MaxBatches /\ failures \in 0..MaxFailures
      /\ base \in [Days -> Batch \cup {None}] /\ req \in [Readers -> RequestState]
      /\ job.batch \in Batch /\ job.batch.no = count /\ job.batch.day = job.day
  BY DEF Inv, TypeOK, JobHasBatch, Publish
<1>2. /\ job' = [job EXCEPT !.pc = "commit"] /\ UNCHANGED <<today, derived, table, count, req>>
  BY DEF Publish
<1>3. job' \in JobState /\ job'.pc = "commit" /\ job'.batch = job.batch /\ job.day \in Days
  BY <1>1, <1>2 DEF JobState
<1>4. JobHasBatch' /\ Scanned' /\ DefaultIsCurrent'
  BY <1>2, <1>3 DEF Inv, JobHasBatch, Scanned, DefaultIsCurrent, Answered
<1>5. CASE base' = [base EXCEPT ![job.day] = job.batch] /\ published' = job.batch.no
           /\ late' = Late /\ clean' = FALSE /\ UNCHANGED failures
  <2>0. Late \subseteq DerivedKeys
    BY DEF Inv, RequestInv, Late, DerivedKeys
  <2>1. TypeOK'
    BY <1>1, <1>2, <1>3, <1>5, <2>0 DEF Inv, TypeOK
  <2>2. /\ \A d \in Days : base'[d] = IF d = job.day THEN job.batch ELSE base[d]
        /\ \A r \in Readers : req[r].day \in Days /\ req[r].newest \in Nat
    BY <1>1, <1>5, RecommendationsAssumption DEF RequestState
  <2>3. BaseIsDated' /\ RequestInv' /\ CleanRunPurges'
    BY <1>1, <1>2, <1>5, <2>2, RecommendationsAssumption
    DEF Inv, BaseIsDated, RequestInv, CleanRunPurges
  <2>4. Stored'
    BY <1>2, <1>3, <1>5, <2>2 DEF Inv, Stored, Kept
  <2> QED
    BY <1>4, <2>1, <2>3, <2>4 DEF Inv
<1>6. CASE Fails /\ UNCHANGED <<base, published, late, clean>>
  <2>1. failures' \in 0..MaxFailures /\ failures' # 0
    BY <1>1, <1>6, RecommendationsAssumption DEF Fails
  <2>2. TypeOK'
    BY <1>2, <1>3, <1>6, <2>1 DEF Inv, TypeOK
  <2>3. BaseIsDated' /\ RequestInv' /\ CleanRunPurges' /\ Stored'
    BY <1>2, <1>6, <2>1 DEF Inv, BaseIsDated, RequestInv, CleanRunPurges, Stored
  <2> QED
    BY <1>4, <2>2, <2>3 DEF Inv
<1> QED
  BY <1>5, <1>6 DEF Publish

LEMMA PurgeStep == Inv /\ Purge => Inv'
<1> SUFFICES ASSUME Inv, Purge PROVE Inv'
  OBVIOUS
<1>1. /\ job \in JobState /\ failures \in 0..MaxFailures /\ job.batch = None /\ job.pc = "purge"
      /\ derived \in [DerivedKeys -> Entry \cup {None}]
  BY DEF Inv, TypeOK, JobHasBatch, Purge
<1>2. UNCHANGED <<today, base, table, count, published, late, clean, req>>
  BY DEF Purge
<1>3. BaseIsDated' /\ RequestInv' /\ DefaultIsCurrent'
  BY <1>2 DEF Inv, BaseIsDated, RequestInv, DefaultIsCurrent, Answered
<1>4. ASSUME NEW k \in job.todo, derived' = [derived EXCEPT ![k] = None],
             job' = [job EXCEPT !.todo = @ \ {k}], UNCHANGED failures
      PROVE  Inv'
  <2>1. job' \in JobState /\ job'.pc = "purge" /\ job'.batch = None /\ job'.todo = job.todo \ {k}
    BY <1>1, <1>4 DEF JobState
  <2>2. \A j \in DerivedKeys : derived'[j] = IF j = k THEN None ELSE derived[j]
    BY <1>1, <1>4
  <2>3. TypeOK' /\ JobHasBatch'
    BY <1>1, <1>2, <1>4, <2>1 DEF Inv, TypeOK, JobHasBatch
  <2>4. Scanned' /\ CleanRunPurges'
    BY <1>1, <1>2, <2>1, <2>2 DEF Inv, Scanned, CleanRunPurges
  <2>5. Stored'
    BY <1>1, <1>2, <1>4, <2>1, <2>2 DEF Inv, Stored, Kept
  <2> QED
    BY <1>3, <2>3, <2>4, <2>5 DEF Inv
<1>5. CASE Fails /\ job' = NoRun /\ UNCHANGED derived
  <2>1. failures' \in 0..MaxFailures /\ failures' # 0
    BY <1>1, <1>5, RecommendationsAssumption DEF Fails
  <2>2. TypeOK'
    BY <1>2, <1>5, <2>1, NoRequestIsRequest DEF Inv, TypeOK
  <2>3. JobHasBatch' /\ Scanned' /\ CleanRunPurges' /\ Stored'
    BY <1>2, <1>5, <2>1 DEF NoRun, Inv, JobHasBatch, Scanned, CleanRunPurges, Stored
  <2> QED
    BY <1>3, <2>2, <2>3 DEF Inv
<1> QED
  BY <1>4, <1>5 DEF Purge

(***************************************************************************)
(* The steps of a request.                                                  *)
(***************************************************************************)

(* What a step of one request has to show of its new state. *)
Sound(q) ==
  /\ q \in RequestState /\ q.newest =< count
  /\ q.pc # "answered" => q.answer = None
  /\ q.pc # "idle" => q.query \in Queries
  /\ q.pc \in {"derived", "store"} => ~IsDefault(q.query)
  /\ q.pc = "store" => q.batch \in Batch
  /\ base[q.day] # None => base[q.day].no >= q.newest
  /\ q.pc = "answered" /\ q.answer # None /\ IsDefault(q.query) =>
       /\ q.answer.query = q.query
       /\ q.answer.batch.day = q.day
       /\ q.answer.batch.no >= q.newest

Keeps(q) == /\ q.pc = "store" => q.batch \in Kept
            /\ q.answer # None => q.answer.batch \in Kept

LEMMA RequestStep ==
  ASSUME Inv, NEW r \in Readers, NEW q, req' = [req EXCEPT ![r] = q],
         UNCHANGED <<today, base, table, job, count, published, late, clean>>,
         UNCHANGED failures \/ Fails,
         Sound(q),
         UNCHANGED failures /\ failures = 0 => Keeps(q),
         \/ UNCHANGED derived
         \/ \E k \in DerivedKeys, e \in Entry :
              /\ derived' = [derived EXCEPT ![k] = e]
              /\ k \in late \/ e.batch.no = published
              /\ UNCHANGED failures /\ failures = 0 => e.batch \in Kept
  PROVE  Inv'
<1>1. /\ req \in [Readers -> RequestState] /\ failures \in 0..MaxFailures
      /\ derived \in [DerivedKeys -> Entry \cup {None}]
  BY DEF Inv, TypeOK
<1>2. \A s \in Readers : req'[s] = IF s = r THEN q ELSE req[s]
  BY <1>1
<1>3. failures' \in 0..MaxFailures /\ (failures' = 0 => UNCHANGED failures /\ failures = 0)
  BY <1>1, RecommendationsAssumption DEF Fails
<1>4. derived' \in [DerivedKeys -> Entry \cup {None}]
  BY <1>1
<1>5. \A k \in DerivedKeys : derived'[k] # None =>
        \/ derived[k] # None /\ derived'[k] = derived[k]
        \/ /\ k \in late \/ derived'[k].batch.no = published
           /\ failures' = 0 => derived'[k].batch \in Kept
  BY <1>1, <1>3
<1>6. TypeOK' /\ JobHasBatch'
  BY <1>1, <1>3, <1>4 DEF Inv, TypeOK, JobHasBatch, Sound
<1>7. BaseIsDated' /\ RequestInv'
  BY <1>2 DEF Inv, BaseIsDated, RequestInv, Sound
<1>8. DefaultIsCurrent'
  BY <1>2 DEF Inv, DefaultIsCurrent, Answered, Sound
<1>9. Scanned' /\ CleanRunPurges'
  BY <1>5 DEF Inv, Scanned, CleanRunPurges
<1>10. Stored'
  BY <1>2, <1>3, <1>5 DEF Inv, Stored, Kept, Keeps
<1> QED
  BY <1>6, <1>7, <1>8, <1>9, <1>10 DEF Inv

LEMMA AskStep ==
  ASSUME Inv, NEW r \in Readers, Ask(r)
  PROVE  Inv'
<1>1. PICK q \in Queries :
        req' = [req EXCEPT ![r] =
          [pc |-> IF IsDefault(q) THEN "base" ELSE "derived", query |-> q, day |-> today,
           batch |-> None, newest |-> IF base[today] = None THEN 0 ELSE base[today].no,
           answer |-> None]]
  BY DEF Ask
<1> DEFINE n == IF base[today] = None THEN 0 ELSE base[today].no
           new == [pc |-> IF IsDefault(q) THEN "base" ELSE "derived", query |-> q, day |-> today,
                   batch |-> None, newest |-> n, answer |-> None]
<1>2. /\ today \in Days /\ count \in 0..MaxBatches /\ base[today] \in Batch \cup {None}
      /\ base[today] # None => base[today].no =< count
  BY DEF Inv, TypeOK, BaseIsDated
<1>3. n \in 0..MaxBatches /\ n =< count /\ (base[today] # None => base[today].no >= n)
  BY <1>2, RecommendationsAssumption DEF Batch
<1>4. new \in RequestState
  BY <1>2, <1>3 DEF RequestState
<1>5. req' = [req EXCEPT ![r] = new]
  BY <1>1
<1>6. UNCHANGED <<today, base, derived, table, job, count, published, late, clean, failures>>
  BY DEF Ask
<1>7. Sound(new) /\ Keeps(new)
  BY <1>3, <1>4 DEF Sound, Keeps
<1> HIDE DEF new
<1> QED
  BY <1>5, <1>6, <1>7, RequestStep

LEMMA RequestFacts ==
  ASSUME Inv, NEW r \in Readers
  PROVE  /\ req[r] \in RequestState /\ req[r].newest =< count
         /\ base \in [Days -> Batch \cup {None}] /\ derived \in [DerivedKeys -> Entry \cup {None}]
         /\ base[req[r].day] # None =>
              /\ base[req[r].day] \in Batch
              /\ base[req[r].day].no >= req[r].newest
              /\ base[req[r].day].day = req[r].day
              /\ failures = 0 => base[req[r].day] \in Kept
BY DEF Inv, TypeOK, BaseIsDated, RequestInv, RequestState, Stored

LEMMA LookupDerivedStep ==
  ASSUME Inv, NEW r \in Readers, LookupDerived(r)
  PROVE  Inv'
<1> DEFINE entry == derived[DerivedKey(req[r].query)]
<1>1. /\ req[r] \in RequestState /\ req[r].pc = "derived" /\ ~IsDefault(req[r].query)
      /\ req[r].query \in Queries /\ DerivedKey(req[r].query) \in DerivedKeys
      /\ req \in [Readers -> RequestState]
  BY DEF Inv, TypeOK, RequestInv, LookupDerived, DerivedKeys
<1>2. entry \in Entry \cup {None}
  BY <1>1, RequestFacts
<1>3. UNCHANGED <<today, base, derived, table, job, count, published, late, clean>>
  BY DEF LookupDerived
<1>4. CASE /\ entry # None /\ UNCHANGED failures
           /\ req' = [req EXCEPT ![r].pc = "answered", ![r].answer = entry]
  <2> DEFINE new == [req[r] EXCEPT !.pc = "answered", !.answer = entry]
  <2>1. new \in RequestState /\ req' = [req EXCEPT ![r] = new]
    BY <1>1, <1>2, <1>4 DEF RequestState, Entry
  <2>2. /\ new.pc = "answered" /\ new.query = req[r].query /\ new.day = req[r].day
        /\ new.newest = req[r].newest /\ new.answer.batch = entry.batch
    BY <1>1 DEF RequestState
  <2>3. failures = 0 => new.answer.batch \in Kept
    BY <1>1, <1>4, <2>2 DEF Inv, Stored
  <2> HIDE DEF new
  <2>4. Sound(new)
    BY <1>1, <1>3, <2>1, <2>2, RequestFacts DEF Sound
  <2>5. UNCHANGED failures /\ failures = 0 => Keeps(new)
    BY <2>2, <2>3 DEF Keeps
  <2> QED
    BY <1>3, <1>4, <2>1, <2>4, <2>5, RequestStep
<1>5. CASE /\ UNCHANGED failures \/ Fails
           /\ req' = [req EXCEPT ![r].pc = "base"]
  <2> DEFINE new == [req[r] EXCEPT !.pc = "base"]
  <2>1. new \in RequestState /\ req' = [req EXCEPT ![r] = new]
    BY <1>1, <1>5 DEF RequestState
  <2>2. /\ new.pc = "base" /\ new.query = req[r].query /\ new.day = req[r].day
        /\ new.newest = req[r].newest /\ new.answer = req[r].answer
    BY <1>1 DEF RequestState
  <2>3. failures = 0 => (new.answer # None => new.answer.batch \in Kept)
    BY <2>2 DEF Inv, Stored
  <2> HIDE DEF new
  <2>4. Sound(new)
    BY <1>1, <1>3, <2>1, <2>2, RequestFacts DEF Sound, Inv, RequestInv
  <2>5. UNCHANGED failures /\ failures = 0 => Keeps(new)
    BY <2>2, <2>3 DEF Keeps
  <2> QED
    BY <1>3, <1>5, <2>1, <2>4, <2>5, RequestStep
<1> QED
  BY <1>4, <1>5 DEF LookupDerived

LEMMA LookupBaseStep ==
  ASSUME Inv, NEW r \in Readers, LookupBase(r)
  PROVE  Inv'
<1> DEFINE batch == base[req[r].day]
<1>1. /\ req[r] \in RequestState /\ req[r].pc = "base" /\ req[r].query \in Queries
      /\ req \in [Readers -> RequestState]
  BY DEF Inv, TypeOK, RequestInv, LookupBase
<1>2. UNCHANGED <<today, base, derived, table, job, count, published, late, clean>>
  BY DEF LookupBase
<1>3. CASE /\ UNCHANGED failures \/ Fails
           /\ req' = [req EXCEPT ![r].pc = "answered"]
  <2> DEFINE new == [req[r] EXCEPT !.pc = "answered"]
  <2>1. new \in RequestState /\ req' = [req EXCEPT ![r] = new]
    BY <1>1, <1>3 DEF RequestState
  <2>2. /\ new.pc = "answered" /\ new.query = req[r].query /\ new.day = req[r].day
        /\ new.newest = req[r].newest /\ new.answer = req[r].answer
    BY <1>1 DEF RequestState
  <2>3. failures = 0 => (new.answer # None => new.answer.batch \in Kept)
    BY <2>2 DEF Inv, Stored
  <2> HIDE DEF new
  <2>4. Sound(new)
    BY <1>1, <1>2, <2>1, <2>2, RequestFacts DEF Sound, Inv, RequestInv
  <2>5. UNCHANGED failures /\ failures = 0 => Keeps(new)
    BY <2>2, <2>3 DEF Keeps
  <2> QED
    BY <1>2, <1>3, <2>1, <2>4, <2>5, RequestStep
<1>4. CASE /\ batch # None /\ UNCHANGED failures
           /\ req' = [req EXCEPT ![r].batch = batch,
                ![r].pc = IF IsDefault(req[r].query) THEN "answered" ELSE "store",
                ![r].answer = IF IsDefault(req[r].query)
                              THEN [batch |-> batch, query |-> req[r].query] ELSE None]
  <2> DEFINE new == [req[r] EXCEPT !.batch = batch,
                       !.pc = IF IsDefault(req[r].query) THEN "answered" ELSE "store",
                       !.answer = IF IsDefault(req[r].query)
                                  THEN [batch |-> batch, query |-> req[r].query] ELSE None]
  <2>1. batch \in Batch /\ batch.day = req[r].day /\ batch.no >= req[r].newest
        /\ (failures = 0 => batch \in Kept)
    BY <1>4, RequestFacts
  <2>2. new \in RequestState /\ req' = [req EXCEPT ![r] = new]
    BY <1>1, <1>4, <2>1 DEF RequestState
  <2>3. /\ new.pc = IF IsDefault(req[r].query) THEN "answered" ELSE "store"
        /\ new.query = req[r].query /\ new.day = req[r].day
        /\ new.newest = req[r].newest /\ new.batch = batch
        /\ new.answer = IF IsDefault(req[r].query)
                        THEN [batch |-> batch, query |-> req[r].query] ELSE None
    BY <1>1 DEF RequestState
  <2> HIDE DEF new
  <2>4. /\ new.pc = "answered" \/ (new.pc = "store" /\ ~IsDefault(new.query))
        /\ new.answer # None => new.answer = [batch |-> batch, query |-> new.query]
    BY <2>3
  <2>5. Sound(new)
    BY <1>1, <1>2, <2>1, <2>2, <2>3, <2>4, RequestFacts DEF Sound
  <2>6. UNCHANGED failures /\ failures = 0 => Keeps(new)
    BY <2>1, <2>3, <2>4 DEF Keeps
  <2> QED
    BY <1>2, <1>4, <2>2, <2>5, <2>6, RequestStep
<1> QED
  BY <1>3, <1>4 DEF LookupBase

LEMMA StoreDerivedStep ==
  ASSUME Inv, Fresh, NEW r \in Readers, StoreDerived(r)
  PROVE  Inv'
<1> DEFINE new == [req[r] EXCEPT !.pc = "answered",
                     !.answer = [batch |-> req[r].batch, query |-> req[r].query]]
           entry == [batch |-> req[r].batch, query |-> req[r].query]
           key == DerivedKey(req[r].query)
<1>1. /\ req[r] \in RequestState /\ req[r].pc = "store" /\ ~IsDefault(req[r].query)
      /\ req[r].query \in Queries /\ key \in DerivedKeys
      /\ req \in [Readers -> RequestState] /\ req[r].batch \in Batch
      /\ published \in 0..MaxBatches /\ (failures = 0 => req[r].batch \in Kept)
  BY DEF Inv, TypeOK, RequestInv, StoreDerived, DerivedKeys, Stored
<1>2. /\ UNCHANGED <<today, base, table, job, count, published, late, clean>>
      /\ req' = [req EXCEPT ![r].pc = "answered",
                            ![r].answer = [batch |-> req[r].batch, query |-> req[r].query]]
  BY DEF StoreDerived
<1>3. new \in RequestState /\ req' = [req EXCEPT ![r] = new]
  BY <1>1, <1>2 DEF RequestState, Entry
<1>4. /\ new.pc = "answered" /\ new.query = req[r].query /\ new.day = req[r].day
      /\ new.newest = req[r].newest /\ new.answer.batch = req[r].batch
  BY <1>1 DEF RequestState
<1>5. /\ entry \in Entry /\ entry.batch = req[r].batch
      /\ key \in late \/ entry.batch.no = published
  BY <1>1 DEF Entry, Fresh
<1>6. \/ UNCHANGED failures /\ derived' = [derived EXCEPT ![key] = entry]
      \/ Fails /\ UNCHANGED derived
  BY DEF StoreDerived
<1> HIDE DEF new, entry, key
<1>7. \/ UNCHANGED derived
      \/ \E k \in DerivedKeys, e \in Entry :
           /\ derived' = [derived EXCEPT ![k] = e]
           /\ k \in late \/ e.batch.no = published
           /\ UNCHANGED failures /\ failures = 0 => e.batch \in Kept
  BY <1>1, <1>5, <1>6
<1>8. UNCHANGED failures \/ Fails
  BY <1>6
<1>9. Sound(new)
  BY <1>1, <1>2, <1>3, <1>4, RequestFacts DEF Sound
<1>10. UNCHANGED failures /\ failures = 0 => Keeps(new)
  BY <1>1, <1>4 DEF Keeps
<1> QED
  BY <1>2, <1>3, <1>7, <1>8, <1>9, <1>10, RequestStep

LEMMA EndRequestStep ==
  ASSUME Inv, NEW r \in Readers, EndRequest(r)
  PROVE  Inv'
<1>1. /\ req' = [req EXCEPT ![r] = NoRequest]
      /\ UNCHANGED <<today, base, derived, table, job, count, published, late, clean, failures>>
  BY DEF EndRequest
<1>2. /\ NoRequest.pc = "idle" /\ NoRequest.answer = None /\ NoRequest.newest = 0
      /\ NoRequest.day = 1 /\ NoRequest \in RequestState
  BY NoRequestIsRequest DEF NoRequest
<1>3. count \in Nat /\ (base[1] # None => base[1].no \in Nat)
  BY NoRequestIsRequest, RecommendationsAssumption DEF Inv, TypeOK, Batch
<1>4. Sound(NoRequest) /\ Keeps(NoRequest)
  BY <1>2, <1>3 DEF Sound, Keeps
<1> QED
  BY <1>1, <1>4, RequestStep

(***************************************************************************)
(* The expiry of keys, midnight and a crash.                                *)
(***************************************************************************)
LEMMA EnvironmentStep ==
  ASSUME Inv,
         (\E k \in DerivedKeys : ExpireDerived(k)) \/ ExpireBase \/ Midnight \/ Crash \/ UNCHANGED vars
  PROVE  Inv'
<1>1. CASE \E k \in DerivedKeys : ExpireDerived(k)
  <2>1. PICK k \in DerivedKeys : ExpireDerived(k)
    BY <1>1
  <2>2. \A j \in DerivedKeys : derived'[j] # None => derived'[j] = derived[j]
    BY <2>1 DEF ExpireDerived, Inv, TypeOK
  <2>3. TypeOK'
    BY <2>1 DEF ExpireDerived, Inv, TypeOK
  <2>4. JobHasBatch' /\ BaseIsDated' /\ RequestInv' /\ DefaultIsCurrent'
    BY <2>1 DEF ExpireDerived, Inv, JobHasBatch, BaseIsDated, RequestInv, DefaultIsCurrent, Answered
  <2>5. Scanned' /\ CleanRunPurges' /\ Stored'
    BY <2>1, <2>2 DEF ExpireDerived, Inv, Scanned, CleanRunPurges, Stored, Kept
  <2> QED
    BY <2>3, <2>4, <2>5 DEF Inv
<1>2. CASE ExpireBase
  <2>1. PICK d \in Days : base' = [base EXCEPT ![d] = None]
    BY <1>2 DEF ExpireBase
  <2>2. UNCHANGED <<today, derived, table, job, count, published, late, clean, req, failures>>
    BY <1>2 DEF ExpireBase
  <2>3. \A e \in Days : base'[e] # None => base'[e] = base[e] /\ base[e] # None
    BY <2>1 DEF Inv, TypeOK
  <2>4. \A r \in Readers : req[r].day \in Days
    BY DEF Inv, TypeOK, RequestState
  <2>5. TypeOK'
    BY <2>1, <2>2 DEF Inv, TypeOK
  <2>6. BaseIsDated' /\ RequestInv' /\ JobHasBatch' /\ DefaultIsCurrent'
    BY <2>2, <2>3, <2>4 DEF Inv, JobHasBatch, BaseIsDated, RequestInv, DefaultIsCurrent, Answered
  <2>7. Scanned' /\ CleanRunPurges' /\ Stored'
    BY <2>2, <2>3 DEF Inv, Scanned, CleanRunPurges, Stored, Kept
  <2> QED
    BY <2>5, <2>6, <2>7 DEF Inv
<1>3. CASE Midnight \/ UNCHANGED vars
  <2>1. UNCHANGED <<base, derived, table, job, count, published, late, clean, req, failures>>
    BY <1>3 DEF Midnight, vars
  <2>2. today \in Days /\ (today' = today \/ (today < MaxDay /\ today' = today + 1))
    BY <1>3 DEF Midnight, vars, Inv, TypeOK
  <2>3. today' \in Days
    BY <2>2, RecommendationsAssumption DEF Days
  <2>4. TypeOK'
    BY <2>1, <2>3 DEF Inv, TypeOK
  <2> QED
    BY <2>1, <2>4 DEF Inv, JobHasBatch, BaseIsDated, RequestInv, DefaultIsCurrent, Answered,
                      Scanned, CleanRunPurges, Stored, Kept
<1>4. CASE Crash
  <2>1. /\ job' = NoRun /\ req' = [r \in Readers |-> NoRequest]
        /\ UNCHANGED <<today, base, derived, table, count, published, late, clean>>
    BY <1>4 DEF Crash
  <2>2. failures' \in 0..MaxFailures /\ failures' # 0
    BY <1>4, RecommendationsAssumption DEF Crash, Fails, Inv, TypeOK
  <2>3. \A r \in Readers : /\ req'[r].pc = "idle" /\ req'[r].answer = None
                           /\ req'[r].newest = 0 /\ req'[r].day = 1
    BY <2>1 DEF NoRequest
  <2>4. count \in Nat /\ (base[1] # None => base[1].no \in Nat)
    BY NoRequestIsRequest, RecommendationsAssumption DEF Inv, TypeOK, Batch
  <2>5. TypeOK'
    BY <2>1, <2>2, NoRequestIsRequest DEF Inv, TypeOK
  <2>6. JobHasBatch' /\ Scanned' /\ CleanRunPurges' /\ Stored'
    BY <2>1, <2>2 DEF NoRun, Inv, JobHasBatch, Scanned, CleanRunPurges, Stored
  <2>7. BaseIsDated' /\ RequestInv' /\ DefaultIsCurrent'
    BY <2>1, <2>3, <2>4 DEF Inv, BaseIsDated, RequestInv, DefaultIsCurrent, Answered
  <2> QED
    BY <2>5, <2>6, <2>7 DEF Inv
<1> QED
  BY <1>1, <1>2, <1>3, <1>4

(***************************************************************************)
(* What is still to be stored is of the newest list.                        *)
(***************************************************************************)
LEMMA FreshInitially == Init => Fresh
BY NoRequestIsRequest DEF Init, Fresh, Newest, NoRun, NoRequest

LEMMA FreshStep == Inv /\ Fresh /\ [Next]_vars => Fresh'
<1> SUFFICES ASSUME Inv, Fresh, [Next]_vars PROVE Fresh'
  OBVIOUS
<1>1. /\ job \in JobState /\ today \in Days /\ Days \subseteq Nat
      /\ base \in [Days -> Batch \cup {None}] /\ req \in [Readers -> RequestState]
      /\ JobHasBatch /\ RequestInv
  BY RecommendationsAssumption DEF Inv, TypeOK, Days
<1>2. \A r \in Readers : req[r].day \in Days
  BY <1>1 DEF RequestState
<1>3. CASE Job /\ ~Publish
  <2>1. UNCHANGED <<base, today, late, published, req>>
    BY <1>3 DEF Job, StartRun, CacheHit, CacheMiss, Compute, CommitRun, RunRaises, Purge,
               FinishRun, Publish
  <2>2. \/ job'.pc = "idle" \/ job'.day = today
        \/ job.pc # "idle" /\ job'.day = job.day
    <3>1. CASE StartRun
      BY <1>1, <3>1 DEF StartRun, JobState
    <3>2. CASE CacheHit \/ CacheMiss \/ CommitRun
      BY <1>1, <3>2 DEF CacheHit, CacheMiss, CommitRun, JobState
    <3>3. CASE Compute
      BY <1>1, <3>3 DEF Compute, JobState
    <3>4. CASE RunRaises \/ Purge \/ FinishRun
      BY <1>1, <3>4 DEF RunRaises, Purge, FinishRun, NoRun, JobState
    <3> QED
      BY <1>3, <3>1, <3>2, <3>3, <3>4 DEF Job
  <2> QED
    BY <1>1, <2>1, <2>2 DEF Fresh, Newest
<1>4. CASE Publish
  <2>1. /\ job.pc = "publish" /\ job.batch.day = job.day /\ job.day \in Days
        /\ job'.pc = "commit" /\ job'.day = job.day /\ UNCHANGED <<today, req>>
    BY <1>1, <1>4 DEF Publish, JobState, JobHasBatch
  <2>2. CASE UNCHANGED <<base, published, late>>
    BY <2>1, <2>2 DEF Fresh, Newest
  <2>3. CASE /\ base' = [base EXCEPT ![job.day] = job.batch]
             /\ published' = job.batch.no /\ late' = Late
    <3>1. \A d \in Days : base'[d] = IF d = job.day THEN job.batch ELSE base[d]
      BY <1>1, <2>1, <2>3
    <3>2. job.day =< today /\ \A d \in Days : base[d] # None => d =< job.day
      BY <2>1 DEF Fresh
    <3>3. Newest(job.day)' /\ Newest(today)'
      BY <1>1, <2>1, <2>3, <3>1, <3>2 DEF Newest
    <3>4. ASSUME NEW r \in Readers, req[r].pc \in {"derived", "base", "store"}
          PROVE  \/ DerivedKey(req[r].query) \in Late
                 \/ req[r].pc # "store" /\ Newest(req[r].day)'
      BY <2>1, <3>3, <3>4 DEF Late
    <3> QED
      BY <1>1, <2>1, <2>3, <3>1, <3>2, <3>3, <3>4 DEF Fresh
  <2> QED
    BY <1>4, <2>2, <2>3 DEF Publish
<1>5. ASSUME NEW r \in Readers, Request(r) PROVE Fresh'
  <2>1. UNCHANGED <<base, today, late, published, job>>
    BY <1>5 DEF Request, Ask, LookupDerived, LookupBase, StoreDerived, EndRequest
  <2>2. \A s \in Readers \ {r} : req'[s] = req[s]
    BY <1>1, <1>5 DEF Request, Ask, LookupDerived, LookupBase, StoreDerived, EndRequest
  <2>3. req'[r].pc \in {"derived", "base", "store"} =>
          \/ DerivedKey(req'[r].query) \in late
          \/ req'[r].pc # "store" /\ Newest(req'[r].day)
          \/ req'[r].pc = "store" /\ req'[r].batch.no = published
    <3>1. CASE Ask(r)
      <4>1. req'[r].pc # "store" /\ req'[r].day = today
        BY <1>1, <3>1 DEF Ask
      <4> QED
        BY <4>1 DEF Fresh
    <3>2. CASE LookupDerived(r)
      <4>1. /\ req[r].pc = "derived" /\ req'[r].pc \in {"answered", "base"}
            /\ req'[r].query = req[r].query /\ req'[r].day = req[r].day
        BY <1>1, <3>2 DEF LookupDerived, RequestState
      <4> QED
        BY <4>1 DEF Fresh
    <3>3. CASE LookupBase(r)
      <4>1. /\ req[r].pc = "base" /\ req'[r].query = req[r].query
            /\ \/ req'[r].pc = "answered"
               \/ /\ req'[r].pc = "store" /\ req'[r].batch = base[req[r].day]
                  /\ base[req[r].day] # None
        BY <1>1, <3>3 DEF LookupBase, RequestState
      <4> QED
        BY <4>1 DEF Fresh, Newest
    <3>4. CASE StoreDerived(r) \/ EndRequest(r)
      BY <1>1, <3>4 DEF StoreDerived, EndRequest, NoRequest, RequestState
    <3> QED
      BY <1>5, <3>1, <3>2, <3>3, <3>4 DEF Request
  <2> QED
    BY <2>1, <2>2, <2>3 DEF Fresh, Newest
<1>6. CASE \E k \in DerivedKeys : ExpireDerived(k)
  BY <1>6 DEF ExpireDerived, Fresh, Newest
<1>7. CASE ExpireBase
  <2>1. UNCHANGED <<today, job, published, late, req>>
    BY <1>7 DEF ExpireBase
  <2>2. \A d \in Days : base'[d] # None => base'[d] = base[d]
    BY <1>1, <1>7 DEF ExpireBase
  <2> QED
    BY <1>1, <1>2, <2>1, <2>2 DEF Fresh, Newest
<1>8. CASE Midnight
  <2>1. UNCHANGED <<base, job, published, late, req>> /\ today' = today + 1 /\ today' \in Days
    BY <1>1, <1>8, RecommendationsAssumption DEF Midnight, Days
  <2>2. base[today'] = None
    BY <1>1, <2>1 DEF Fresh
  <2>3. job.pc # "idle" => job.day \in Nat
    BY <1>1 DEF JobState
  <2> QED
    BY <1>1, <2>1, <2>2, <2>3 DEF Fresh, Newest
<1>9. CASE Crash
  BY <1>9 DEF Crash, NoRun, NoRequest, Fresh, Newest
<1>10. CASE UNCHANGED vars
  BY <1>10 DEF vars, Fresh, Newest
<1> QED
  BY <1>3, <1>4, <1>5, <1>6, <1>7, <1>8, <1>9, <1>10 DEF Next

-----------------------------------------------------------------------------
(***************************************************************************)
(* The invariant holds throughout: whatever run, requests, expiries and    *)
(* failures overlap.                                                        *)
(***************************************************************************)
THEOREM InvHolds == Spec => []Inv
<1>1. Init => Inv /\ Fresh
  BY Initially, FreshInitially
<1>2. Inv /\ Fresh /\ [Next]_vars => Inv'
  <2> SUFFICES ASSUME Inv, Fresh, [Next]_vars PROVE Inv'
    OBVIOUS
  <2>1. CASE Job
    BY <2>1, QuietJobStep, PublishStep, PurgeStep DEF Job
  <2>2. ASSUME NEW r \in Readers, Request(r) PROVE Inv'
    BY <2>2, AskStep, LookupDerivedStep, LookupBaseStep, StoreDerivedStep, EndRequestStep
    DEF Request
  <2>3. CASE (\E k \in DerivedKeys : ExpireDerived(k)) \/ ExpireBase \/ Midnight \/ Crash
             \/ UNCHANGED vars
    BY <2>3, EnvironmentStep
  <2> QED
    BY <2>1, <2>2, <2>3 DEF Next
<1>3. Inv /\ Fresh /\ [Next]_vars => Fresh'
  BY FreshStep
<1> QED
  BY <1>1, <1>2, <1>3, PTL DEF Spec

(***************************************************************************)
(* Type correctness: in particular no list is dated or numbered past the    *)
(* bounds, and what a request has read is a list.                           *)
(***************************************************************************)
THEOREM TypeCorrect == Spec => []TypeOK
<1>1. Inv => TypeOK
  BY DEF Inv
<1> QED
  BY <1>1, InvHolds, PTL

(***************************************************************************)
(* get_recommendations without parameters answers with the list of the day *)
(* it was asked on, at least as new as the one cached then.                  *)
(***************************************************************************)
THEOREM DefaultGetsCurrent == Spec => []DefaultIsCurrent
<1>1. Inv => DefaultIsCurrent
  BY DEF Inv
<1> QED
  BY <1>1, InvHolds, PTL

(***************************************************************************)
(* After a run has ended in order, a derived list of another batch than the  *)
(* newest is found under the late keys only, those that a request can fill   *)
(* which had read its list when the run published or was asked on another    *)
(* day.                                                                      *)
(***************************************************************************)
THEOREM PurgeIsComplete == Spec => []CleanRunPurges
<1>1. Inv => CleanRunPurges
  BY DEF Inv
<1> QED
  BY <1>1, InvHolds, PTL

(***************************************************************************)
(* Without a failure every answer is a list in the table or one the run is  *)
(* about to commit.                                                         *)
(***************************************************************************)
THEOREM AnswersAreStored == Spec => []UnstoredOnlyAfterFailure
<1>1. Inv => UnstoredOnlyAfterFailure
  BY DEF Inv, Stored, Kept, Answered, UnstoredOnlyAfterFailure
<1> QED
  BY <1>1, InvHolds, PTL

------------------------------------------------------------------------------
(***************************************************************************)
(* News: articles, their results and the trends of the day.                  *)
(***************************************************************************)

(* The runs that have an article on their list, in hand or answered. *)
Holders(u) == {w \in Workers : /\ work[w].pc = "run"
                               /\ \/ u \in work[w].todo \cup work[w].single
                                  \/ u \in DOMAIN work[w].saved}

NewsTyped ==
  /\ status \in [Urls -> Statuses]
  /\ results \in [Urls -> Seq(Outputs)]
  /\ fetch \in [Fetchers -> FetchState]
  /\ work \in [Workers -> WorkState]
  /\ overlap \in 0..Cardinality(Workers)
  /\ starts \in 0..MaxStarts
  /\ faults \in 0..MaxFaults

(* What a transaction has inserted is nobody else's, and not yet to be seen. *)
FetchesApart ==
  \A f \in Fetchers : ~fetch[f].aborted =>
    /\ \A u \in fetch[f].inserted : status[u] = "absent"
    /\ fetch[f].inserted \cap Locked(f) = {}

(* The results of an article and the runs that may still add one are never more
   than the runs that overlapped. *)
ArticleInv(u) ==
  /\ status[u] = "absent" => Holders(u) = {}
  /\ status[u] \in {"absent", "collected"} => results[u] = <<>>
  /\ status[u] = "analyzed" => results[u] # <<>>
  /\ status[u] = "analysis_failed" /\ results[u] # <<>> => overlap > 1
  /\ Len(results[u]) + Cardinality(Holders(u)) =< overlap

Counted(row, s) ==
  /\ s \in Sectors
  /\ row \in Trend
  /\ row.news_volume =< Cardinality(Tagged(s))
  /\ row.positive =< row.news_volume

TrendsInv ==
  /\ \A s \in DOMAIN trends : Counted(trends[s], s)
  /\ rows # Nothing => \A s \in DOMAIN rows : Counted(rows[s], s)

NewsInv ==
  /\ NewsTyped
  /\ FetchesApart
  /\ Cardinality(Running) =< overlap
  /\ \A u \in Urls : ArticleInv(u)
  /\ TrendsInv
-----------------------------------------------------------------------------
(***************************************************************************)
(* Sets of runs are finite, so that they can be counted.                    *)
(***************************************************************************)
LEMMA RunsAreFinite ==
  ASSUME NEW A, A \subseteq Workers
  PROVE  IsFiniteSet(A) /\ Cardinality(A) \in Nat /\ Cardinality(A) =< Cardinality(Workers)
BY NewsPipelineAssumption, FS_Subset, FS_CardinalityType

LEMMA FewerRuns ==
  ASSUME NEW B, B \subseteq Workers, NEW A, A \subseteq B
  PROVE  Cardinality(A) =< Cardinality(B)
BY RunsAreFinite, FS_Subset

LEMMA RepeatedByOverlap ==
  ASSUME NewsInv
  PROVE  overlap \in Nat /\ \A u \in Urls : Len(results[u]) =< overlap
<1>1. overlap \in Nat
  BY RunsAreFinite DEF NewsInv, NewsTyped
<1>2. ASSUME NEW u \in Urls PROVE Len(results[u]) =< overlap
  <2>1. Cardinality(Holders(u)) \in Nat /\ Len(results[u]) \in Nat
    BY RunsAreFinite DEF Holders, NewsInv, NewsTyped
  <2> QED
    BY <1>1, <2>1 DEF NewsInv, ArticleInv
<1> QED
  BY <1>1, <1>2

(***************************************************************************)
(* The results of articles are finitely many.                               *)
(***************************************************************************)
LEMMA AnalysesAreFinite ==
  ASSUME NEW r \in [Urls -> Seq(Outputs)], NEW n \in Nat, \A u \in Urls : Len(r[u]) =< n,
         NEW A, A \subseteq UNION {{u} \X DOMAIN r[u] : u \in Urls}
  PROVE  IsFiniteSet(A) /\ Cardinality(A) \in Nat
<1>1. IsFiniteSet(Urls \X (1..n))
  <2>1. IsFiniteSet(1..n)
    BY FS_Interval
  <2> QED
    BY <2>1, NewsPipelineAssumption, FS_Product
<1>2. \A u \in Urls : DOMAIN r[u] \subseteq 1..n
  OBVIOUS
<1>3. UNION {{u} \X DOMAIN r[u] : u \in Urls} \subseteq Urls \X (1..n)
  BY <1>2
<1> QED
  BY <1>1, <1>3, FS_Subset, FS_CardinalityType

(***************************************************************************)
(* The entries a sector gets from finitely many analyses are finitely many. *)
(***************************************************************************)
LEMMA EntriesAreFinite ==
  ASSUME NEW A, IsFiniteSet(A), NEW P, \A a \in A : IsFiniteSet(P[a])
  PROVE  IsFiniteSet(UNION {{a} \X P[a] : a \in A})
<1> DEFINE S == {{a} \X P[a] : a \in A}
           f == [a \in A |-> {a} \X P[a]]
<1>1. f \in Surjection(A, S)
  BY DEF Surjection
<1>2. IsFiniteSet(S)
  BY <1>1, FS_Surjection
<1>3. ASSUME NEW T \in S PROVE IsFiniteSet(T)
  <2>1. PICK a \in A : T = {a} \X P[a]
    OBVIOUS
  <2>2. IsFiniteSet({a}) /\ IsFiniteSet(P[a])
    BY FS_Singleton
  <2> QED
    BY <2>1, <2>2, FS_Product
<1> QED
  BY <1>2, <1>3, FS_UNION

(* With the results r, the places that name s in the analyses A. *)
Entries(r, A, s) ==
  UNION {{a} \X {j \in DOMAIN r[a[1]][a[2]].sector_tags : r[a[1]][a[2]].sector_tags[j] = s} : a \in A}

LEMMA TagsAreFinite ==
  ASSUME NEW r \in [Urls -> Seq(Outputs)], NEW n \in Nat, \A u \in Urls : Len(r[u]) =< n,
         NEW A, A \subseteq UNION {{u} \X DOMAIN r[u] : u \in Urls}, NEW s
  PROVE  IsFiniteSet(Entries(r, A, s)) /\ Cardinality(Entries(r, A, s)) \in Nat
<1> DEFINE places(a) == {j \in DOMAIN r[a[1]][a[2]].sector_tags : r[a[1]][a[2]].sector_tags[j] = s}
           P == [a \in A |-> places(a)]
<1>1. IsFiniteSet(A)
  BY AnalysesAreFinite
<1>2. ASSUME NEW a \in A PROVE IsFiniteSet(P[a])
  <2>1. r[a[1]][a[2]] \in Outputs
    <3>1. PICK u \in Urls : \E i \in DOMAIN r[u] : a = <<u, i>>
      OBVIOUS
    <3>2. r[u] \in Seq(Outputs)
      OBVIOUS
    <3> QED
      BY <3>1, <3>2
  <2>2. r[a[1]][a[2]].sector_tags \in Seq(Sectors)
    BY <2>1, NewsPipelineAssumption
  <2>3. PICK m \in Nat : DOMAIN r[a[1]][a[2]].sector_tags = 1..m
    BY <2>2
  <2>4. places(a) \subseteq 1..m /\ IsFiniteSet(1..m)
    BY <2>3, FS_Interval
  <2>5. IsFiniteSet(places(a))
    BY <2>4, FS_Subset
  <2> QED
    BY <2>5
<1>3. Entries(r, A, s) = UNION {{a} \X P[a] : a \in A}
  BY DEF Entries
<1> HIDE DEF P
<1> QED
  BY <1>1, <1>2, <1>3, EntriesAreFinite, FS_CardinalityType

(***************************************************************************)
(* The maximum of two numbers.                                              *)
(***************************************************************************)
LEMMA MaxOfTwo ==
  ASSUME NEW a \in Int, NEW b \in Int
  PROVE  Max({a, b}) = IF a >= b THEN a ELSE b
<1>1. PICK m \in {a, b} : \A y \in {a, b} : m >= y
  OBVIOUS
<1>2. /\ Max({a, b}) \in {a, b}
      /\ \A y \in {a, b} : Max({a, b}) >= y
  BY <1>1 DEF Max
<1> QED
  BY <1>2

LEMMA TrendsStay ==
  ASSUME TrendsInv, UNCHANGED <<results, trends, rows>>
  PROVE  TrendsInv'
<1>1. \A s : Tagged(s)' = Tagged(s)
  BY DEF Tagged, Places, Analyses, Output
<1> QED
  BY <1>1 DEF TrendsInv, Counted

(***************************************************************************)
(* A step of the runs that stores nothing: an article has no new holder but *)
(* one that found it collected, when it has no results.                     *)
(***************************************************************************)
LEMMA HoldersStep ==
  ASSUME NewsInv, NewsTyped', UNCHANGED <<status, results, fetch, trends, rows>>,
         overlap' >= overlap, Cardinality(Running') =< overlap',
         \A u \in Urls : status[u] # "collected" => Holders(u)' \subseteq Holders(u)
  PROVE  NewsInv'
<1>1. FetchesApart'
  BY DEF NewsInv, FetchesApart, Locked
<1>2. TrendsInv'
  BY TrendsStay DEF NewsInv
<1>3. ASSUME NEW u \in Urls PROVE ArticleInv(u)'
  <2>1. overlap \in Int /\ overlap' \in Int /\ Len(results[u]) \in Nat /\ Len(<<>>) = 0
    BY DEF NewsInv, NewsTyped
  <2>2. Holders(u)' \subseteq Running' /\ Running' \subseteq Workers /\ Holders(u) \subseteq Workers
    BY DEF Holders, Running
  <2>3. /\ Cardinality(Holders(u)) \in Nat /\ Cardinality(Holders(u)') \in Nat
        /\ Cardinality(Running') \in Nat /\ Cardinality(Holders(u)') =< Cardinality(Running')
    BY <2>2, RunsAreFinite, FewerRuns
  <2>4. Len(results[u]) + Cardinality(Holders(u)') =< overlap'
    <3>1. CASE status[u] = "collected"
      BY <2>1, <2>3, <3>1 DEF NewsInv, ArticleInv
    <3>2. CASE status[u] # "collected"
      <4>1. Cardinality(Holders(u)') =< Cardinality(Holders(u))
        BY <2>2, <3>2, FewerRuns
      <4> QED
        BY <2>1, <2>3, <4>1 DEF NewsInv, ArticleInv
    <3> QED
      BY <3>1, <3>2
  <2>5. status[u] = "absent" => Holders(u)' = {}
    BY DEF NewsInv, ArticleInv
  <2> QED
    BY <2>1, <2>4, <2>5 DEF NewsInv, ArticleInv
<1> QED
  BY <1>1, <1>2, <1>3 DEF NewsInv

LEMMA IdleIsWork == NoWork \in WorkState /\ NoWork.pc = "idle"
<1>1. <<>> \in [{} -> Outputs \cup {Failed}]
  OBVIOUS
<1>2. <<>> \in UNION {[U -> Outputs \cup {Failed}] : U \in SUBSET Urls}
  BY <1>1
<1>3. 0 \in 0..(MAX_RETRIES - 1)
  BY NewsPipelineAssumption
<1> QED
  BY <1>2, <1>3 DEF WorkState, NoWork

LEMMA StartWorkStep ==
  ASSUME NewsInv, NEW w \in Workers, StartWork(w)
  PROVE  NewsInv'
<1>1. Running \subseteq Workers /\ w \notin Running /\ IsFiniteSet(Running) /\ Cardinality(Running) \in Nat
  BY RunsAreFinite DEF Running, StartWork
<1>2. /\ work'[w] \in WorkState /\ work'[w].pc = "run" /\ DOMAIN work'[w].saved = {}
      /\ work'[w].todo \cup work'[w].single = Collected
      /\ work' = [work EXCEPT ![w] = work'[w]]
  <2> DEFINE one == [NoWork EXCEPT !.pc = "run", !.single = Collected]
             many == [NoWork EXCEPT !.pc = "run", !.todo = Collected]
  <2>2. /\ NoWork \in WorkState /\ NoWork.todo = {} /\ NoWork.single = {}
        /\ DOMAIN NoWork.saved = {} /\ Collected \in SUBSET Urls
    BY IdleIsWork DEF NoWork, Collected
  <2>3. work' = [work EXCEPT ![w] = one] \/ work' = [work EXCEPT ![w] = many]
    BY DEF StartWork
  <2>4. work'[w] \in {one, many} /\ work' = [work EXCEPT ![w] = work'[w]]
    BY <2>3 DEF NewsInv, NewsTyped
  <2>5. \A x \in {one, many} : /\ x \in WorkState /\ x.pc = "run" /\ DOMAIN x.saved = {}
                               /\ x.todo \cup x.single = Collected
    <3>1. one \in WorkState /\ one.pc = "run" /\ one.saved = NoWork.saved /\ one.todo = NoWork.todo /\ one.single = Collected
      BY <2>2 DEF WorkState
    <3>2. many \in WorkState /\ many.pc = "run" /\ many.saved = NoWork.saved /\ many.todo = Collected /\ many.single = NoWork.single
      BY <2>2 DEF WorkState
    <3> QED
      BY <2>2, <3>1, <3>2
  <2> HIDE DEF one, many
  <2> QED
    BY <2>4, <2>5
<1>3. Running' = Running \cup {w}
  BY <1>1, <1>2 DEF Running, NewsInv, NewsTyped
<1>4. Cardinality(Running') = Cardinality(Running) + 1 /\ Cardinality(Running') =< Cardinality(Workers)
  BY <1>1, <1>3, FS_AddElement, RunsAreFinite
<1>5. overlap' \in {overlap, Cardinality(Running) + 1} /\ overlap' >= overlap /\ overlap' >= Cardinality(Running) + 1
  <2>1. overlap \in Int /\ Cardinality(Running) + 1 \in Int
    BY <1>1 DEF NewsInv, NewsTyped
  <2> QED
    BY <2>1, MaxOfTwo DEF StartWork
<1>6. NewsTyped'
  <2>1. work' \in [Workers -> WorkState]
    BY <1>2 DEF NewsInv, NewsTyped
  <2>2. overlap' \in 0..Cardinality(Workers)
    BY <1>1, <1>4, <1>5 DEF NewsInv, NewsTyped
  <2>3. starts' \in 0..MaxStarts
    BY NewsPipelineAssumption DEF StartWork, Start, NewsInv, NewsTyped
  <2> QED
    BY <2>1, <2>2, <2>3 DEF StartWork, NewsInv, NewsTyped
<1>7. \A u \in Urls : status[u] # "collected" => Holders(u)' \subseteq Holders(u)
  BY <1>2 DEF Holders, Collected, NewsInv, NewsTyped
<1> QED
  BY <1>4, <1>5, <1>6, <1>7, HoldersStep DEF StartWork

(***************************************************************************)
(* One step of one run that stores nothing and takes on no article.         *)
(***************************************************************************)
LEMMA RunGoesOn ==
  ASSUME NewsInv, NEW w \in Workers, UNCHANGED <<status, results, fetch, trends, rows, overlap, starts>>,
         faults' \in 0..MaxFaults, NEW x \in WorkState, work' = [work EXCEPT ![w] = x],
         work[w].pc = "run",
         x.pc = "run" => x.todo \cup x.single \cup DOMAIN x.saved
                           \subseteq work[w].todo \cup work[w].single \cup DOMAIN work[w].saved
  PROVE  NewsInv'
<1>1. NewsTyped'
  BY DEF NewsInv, NewsTyped
<1>2. Running' \subseteq Running /\ Running \subseteq Workers
  BY DEF Running, NewsInv, NewsTyped
<1>3. Cardinality(Running') =< overlap' /\ overlap' >= overlap
  BY <1>2, FewerRuns, RunsAreFinite DEF NewsInv, NewsTyped
<1>4. \A u \in Urls : Holders(u)' \subseteq Holders(u)
  BY DEF Holders, NewsInv, NewsTyped
<1> QED
  BY <1>1, <1>3, <1>4, HoldersStep

LEMMA AnalyzeBatchStep ==
  ASSUME NewsInv, NEW w \in Workers, AnalyzeBatch(w)
  PROVE  NewsInv'
<1>1. work[w] \in WorkState /\ work[w].pc = "run" /\ faults' \in 0..MaxFaults
  BY DEF AnalyzeBatch, NewsInv, NewsTyped
<1>2. PICK batch \in SUBSET work[w].todo :
        \/ work' = [work EXCEPT ![w].todo = @ \ batch, ![w].single = batch]
        \/ \E answered \in SUBSET batch : \E out \in [answered -> Outputs \cup {Failed}] :
             work' = [work EXCEPT ![w].todo = @ \ batch,
                        ![w].saved = [u \in DOMAIN @ \cup answered |-> IF u \in answered THEN out[u] ELSE @[u]]]
  BY DEF AnalyzeBatch
<1>3. CASE work' = [work EXCEPT ![w].todo = @ \ batch, ![w].single = batch]
  <2> DEFINE x == [work[w] EXCEPT !.todo = @ \ batch, !.single = batch]
  <2>1. work' = [work EXCEPT ![w] = x]
    BY <1>3 DEF NewsInv, NewsTyped
  <2>2. x \in WorkState /\ x.todo \cup x.single = work[w].todo /\ x.saved = work[w].saved
    BY <1>1 DEF WorkState
  <2> HIDE DEF x
  <2> QED
    BY <1>1, <2>1, <2>2, RunGoesOn DEF AnalyzeBatch
<1>4. ASSUME NEW answered \in SUBSET batch, NEW out \in [answered -> Outputs \cup {Failed}],
             work' = [work EXCEPT ![w].todo = @ \ batch,
                        ![w].saved = [u \in DOMAIN @ \cup answered |-> IF u \in answered THEN out[u] ELSE @[u]]]
      PROVE  NewsInv'
  <2> DEFINE s == work[w].saved
             saved == [u \in DOMAIN s \cup answered |-> IF u \in answered THEN out[u] ELSE s[u]]
             x == [work[w] EXCEPT !.todo = @ \ batch, !.saved = saved]
  <2>1. work' = [work EXCEPT ![w] = x]
    BY <1>4 DEF NewsInv, NewsTyped
  <2>2. saved \in UNION {[U -> Outputs \cup {Failed}] : U \in SUBSET Urls}
    <3>1. PICK U \in SUBSET Urls : s \in [U -> Outputs \cup {Failed}]
      BY <1>1 DEF WorkState
    <3>2. work[w].todo \subseteq Urls
      BY <1>1 DEF WorkState
    <3>3. U \cup answered \in SUBSET Urls /\ saved \in [U \cup answered -> Outputs \cup {Failed}]
      BY <3>1, <3>2
    <3> QED
      BY <3>3
  <2>3. DOMAIN saved = DOMAIN s \cup answered
    OBVIOUS
  <2> HIDE DEF saved
  <2>4. x \in WorkState /\ x.todo = work[w].todo \ batch /\ x.single = work[w].single /\ x.saved = saved
    BY <1>1, <2>2 DEF WorkState
  <2> HIDE DEF x
  <2> QED
    BY <1>1, <2>1, <2>3, <2>4, RunGoesOn DEF AnalyzeBatch
<1> QED
  BY <1>2, <1>3, <1>4

LEMMA AnalyzeStep ==
  ASSUME NewsInv, NEW w \in Workers, Analyze(w)
  PROVE  NewsInv'
<1>1. work[w] \in WorkState /\ work[w].pc = "run" /\ faults' \in 0..MaxFaults
  BY DEF Analyze, Chosen, NewsInv, NewsTyped
<1>2. PICK u \in work[w].single, out \in Outputs \cup {Failed} :
        work' = [work EXCEPT ![w].single = @ \ {u}, ![w].cur = Nothing, ![w].attempt = 0,
                   ![w].saved = [v \in DOMAIN @ \cup {u} |-> IF v = u THEN out ELSE @[v]]]
  BY DEF Analyze, Chosen
<1> DEFINE s == work[w].saved
           saved == [v \in DOMAIN s \cup {u} |-> IF v = u THEN out ELSE s[v]]
           x == [work[w] EXCEPT !.single = @ \ {u}, !.cur = Nothing, !.attempt = 0, !.saved = saved]
<1>3. work' = [work EXCEPT ![w] = x]
  BY <1>2 DEF NewsInv, NewsTyped
<1>4. saved \in UNION {[U -> Outputs \cup {Failed}] : U \in SUBSET Urls}
  <2>1. PICK U \in SUBSET Urls : s \in [U -> Outputs \cup {Failed}]
    BY <1>1 DEF WorkState
  <2>2. u \in Urls
    BY <1>1 DEF WorkState
  <2>3. U \cup {u} \in SUBSET Urls /\ saved \in [U \cup {u} -> Outputs \cup {Failed}]
    BY <2>1, <2>2
  <2> QED
    BY <2>3
<1>5. DOMAIN saved = DOMAIN s \cup {u}
  OBVIOUS
<1> HIDE DEF saved
<1>6. x \in WorkState /\ x.todo = work[w].todo /\ x.single = work[w].single \ {u} /\ x.saved = saved
  <2>1. 0 \in 0..(MAX_RETRIES - 1)
    BY NewsPipelineAssumption
  <2> QED
    BY <1>1, <1>4, <2>1 DEF WorkState
<1> HIDE DEF x
<1> QED
  BY <1>1, <1>3, <1>5, <1>6, RunGoesOn DEF Analyze

LEMMA RetryStep ==
  ASSUME NewsInv, NEW w \in Workers, Retry(w)
  PROVE  NewsInv'
<1>1. work[w] \in WorkState /\ work[w].pc = "run" /\ faults' \in 0..MaxFaults
  BY DEF Retry, Chosen, NewsInv, NewsTyped
<1>2. PICK u \in Urls : work' = [work EXCEPT ![w].cur = u, ![w].attempt = @ + 1]
  BY DEF Retry
<1> DEFINE x == [work[w] EXCEPT !.cur = u, !.attempt = @ + 1]
<1>3. work' = [work EXCEPT ![w] = x]
  BY <1>2 DEF NewsInv, NewsTyped
<1>4. work[w].attempt + 1 \in 0..(MAX_RETRIES - 1)
  BY <1>1, NewsPipelineAssumption DEF WorkState, Retry
<1>5. x \in WorkState /\ x.todo = work[w].todo /\ x.single = work[w].single /\ x.saved = work[w].saved
  BY <1>1, <1>4 DEF WorkState
<1> HIDE DEF x
<1> QED
  BY <1>1, <1>3, <1>5, RunGoesOn DEF Retry

LEMMA WorkLostStep ==
  ASSUME NewsInv, NEW w \in Workers, WorkLost(w)
  PROVE  NewsInv'
<1>1. faults' \in 0..MaxFaults
  BY NewsPipelineAssumption DEF WorkLost, Fault, NewsInv, NewsTyped
<1> QED
  BY <1>1, IdleIsWork, RunGoesOn DEF WorkLost

LEMMA AppendGrows ==
  ASSUME NEW s \in Seq(Outputs), NEW t, t = s \/ \E o \in Outputs : t = Append(s, o)
  PROVE  DOMAIN s \subseteq DOMAIN t /\ \A i \in DOMAIN s : t[i] = s[i]
OBVIOUS

(***************************************************************************)
(* Results are only ever added, so what a row of the day counts is there.   *)
(***************************************************************************)
LEMMA TrendsGrow ==
  ASSUME TrendsInv, results \in [Urls -> Seq(Outputs)], results' \in [Urls -> Seq(Outputs)],
         overlap' \in Nat, \A u \in Urls : Len(results'[u]) =< overlap',
         \A u \in Urls : results'[u] = results[u] \/ \E o \in Outputs : results'[u] = Append(results[u], o),
         UNCHANGED <<trends, rows>>
  PROVE  TrendsInv'
<1>1. \A u \in Urls : /\ DOMAIN results[u] \subseteq DOMAIN results'[u]
                      /\ \A i \in DOMAIN results[u] : results'[u][i] = results[u][i]
  BY AppendGrows
<1>2. ASSUME NEW s PROVE Tagged(s) \subseteq Tagged(s)'
  <2>1. Analyses(PublishedToday) \subseteq Analyses(PublishedToday)'
    BY <1>1, NewsPipelineAssumption DEF Analyses
  <2>2. \A a \in Analyses(PublishedToday) : Output(a)' = Output(a)
    BY <1>1, NewsPipelineAssumption DEF Analyses, Output
  <2> QED
    BY <2>1, <2>2 DEF Tagged, Places
<1>3. ASSUME NEW s PROVE Cardinality(Tagged(s)) \in Int /\ Cardinality(Tagged(s)') \in Int
                         /\ Cardinality(Tagged(s)) =< Cardinality(Tagged(s)')
  <2> DEFINE A == UNION {{u} \X DOMAIN results'[u] : u \in PublishedToday}
  <2>1. Tagged(s)' = Entries(results', A, s)
    BY DEF Tagged, Places, Analyses, Output, Entries
  <2>2. A \subseteq UNION {{u} \X DOMAIN results'[u] : u \in Urls}
    BY NewsPipelineAssumption
  <2>3. IsFiniteSet(Tagged(s)') /\ Cardinality(Tagged(s)') \in Nat
    BY <2>1, <2>2, TagsAreFinite
  <2> QED
    BY <1>2, <2>3, FS_Subset, FS_CardinalityType
<1>4. ASSUME NEW s \in Sectors, NEW row \in Trend, Counted(row, s)
      PROVE  Counted(row, s)'
  BY <1>3, <1>4 DEF Counted, Trend
<1> QED
  BY <1>4 DEF TrendsInv, Counted

LEMMA CommitWorkStep ==
  ASSUME NewsInv, NEW w \in Workers, CommitWork(w)
  PROVE  NewsInv'
<1>1. /\ work[w] \in WorkState /\ work[w].pc = "run"
      /\ WithAnswer(w) \subseteq DOMAIN work[w].saved /\ SetAside(w) \subseteq DOMAIN work[w].saved
      /\ DOMAIN work[w].saved = WithAnswer(w) \cup SetAside(w)
      /\ WithAnswer(w) \cap SetAside(w) = {}
      /\ DOMAIN work[w].saved \subseteq Urls
      /\ \A u \in WithAnswer(w) : work[w].saved[u] \in Outputs
  BY DEF CommitWork, Finished, NewsInv, NewsTyped, WorkState, WithAnswer, SetAside
<1>2. \A u \in Urls : /\ results'[u] = IF u \in WithAnswer(w) THEN Append(results[u], work[w].saved[u]) ELSE results[u]
                      /\ status'[u] = IF u \in WithAnswer(w) THEN "analyzed"
                                      ELSE IF u \in SetAside(w) THEN "analysis_failed" ELSE status[u]
  BY DEF CommitWork
<1>3. \A u \in Urls : /\ results[u] \in Seq(Outputs) /\ results'[u] \in Seq(Outputs)
                      /\ Len(results'[u]) = IF u \in WithAnswer(w) THEN Len(results[u]) + 1 ELSE Len(results[u])
                      /\ results'[u] = results[u] \/ \E o \in Outputs : results'[u] = Append(results[u], o)
  <2> SUFFICES ASSUME NEW u \in Urls
               PROVE  /\ results[u] \in Seq(Outputs) /\ results'[u] \in Seq(Outputs)
                      /\ Len(results'[u]) = IF u \in WithAnswer(w) THEN Len(results[u]) + 1 ELSE Len(results[u])
                      /\ results'[u] = results[u] \/ \E o \in Outputs : results'[u] = Append(results[u], o)
    OBVIOUS
  <2>1. results[u] \in Seq(Outputs)
    BY DEF NewsInv, NewsTyped
  <2>2. CASE u \in WithAnswer(w)
    <3>1. PICK o \in Outputs : results'[u] = Append(results[u], o)
      BY <1>1, <1>2, <2>2
    <3>2. /\ Append(results[u], o) \in Seq(Outputs)
          /\ Len(Append(results[u], o)) = Len(results[u]) + 1
      BY <2>1
    <3> QED
      BY <2>1, <2>2, <3>1, <3>2
  <2>3. CASE u \notin WithAnswer(w)
    BY <1>2, <2>1, <2>3
  <2> QED
    BY <2>2, <2>3
<1>4. NewsTyped'
  <2>1. results' \in [Urls -> Seq(Outputs)]
    BY <1>3 DEF CommitWork
  <2>2. status' \in [Urls -> Statuses]
    BY DEF CommitWork, Statuses, NewsInv, NewsTyped
  <2>3. work' \in [Workers -> WorkState]
    BY IdleIsWork DEF CommitWork, NewsInv, NewsTyped
  <2> QED
    BY <2>1, <2>2, <2>3 DEF CommitWork, NewsInv, NewsTyped
<1>5. \A u \in Urls : /\ Holders(u)' = Holders(u) \ {w} /\ Holders(u) \subseteq Workers
                      /\ u \in DOMAIN work[w].saved => w \in Holders(u)
  BY <1>1, IdleIsWork DEF Holders, CommitWork, NewsInv, NewsTyped
<1>6. \A u \in DOMAIN work[w].saved : status[u] # "absent"
  BY <1>1, <1>5 DEF NewsInv, ArticleInv
<1>7. FetchesApart'
  <2>1. \A u \in Urls : status[u] = "absent" => status'[u] = "absent"
    BY <1>1, <1>2, <1>6
  <2>2. \A f \in Fetchers : fetch[f].inserted \subseteq Urls
    BY DEF NewsInv, NewsTyped, FetchState
  <2> QED
    BY <2>1, <2>2 DEF NewsInv, FetchesApart, Locked, CommitWork
<1>8. ASSUME NEW u \in Urls PROVE ArticleInv(u)'
  <2>1. /\ overlap \in Int /\ overlap' = overlap /\ Len(results[u]) \in Nat
        /\ Cardinality(Holders(u)) \in Nat /\ IsFiniteSet(Holders(u))
        /\ Len(results[u]) + Cardinality(Holders(u)) =< overlap
    BY <1>3, <1>5, RunsAreFinite DEF CommitWork, NewsInv, NewsTyped, ArticleInv
  <2>2. Cardinality(Holders(u)') = IF w \in Holders(u) THEN Cardinality(Holders(u)) - 1 ELSE Cardinality(Holders(u))
    BY <1>5, <2>1, FS_RemoveElement
  <2>3. Len(results'[u]) + Cardinality(Holders(u)') =< overlap'
    BY <1>1, <1>3, <1>5, <2>1, <2>2
  <2>4. CASE u \in WithAnswer(w)
    <3>1. status'[u] = "analyzed" /\ results'[u] # <<>>
      BY <1>2, <1>3, <2>1, <2>4
    <3> QED
      BY <3>1, <2>3 DEF ArticleInv
  <2>5. CASE u \in SetAside(w)
    <3>1. status'[u] = "analysis_failed" /\ results'[u] = results[u]
      BY <1>1, <1>2, <2>5
    <3>2. w \in Holders(u) /\ Cardinality(Holders(u)) # 0
      BY <1>1, <1>5, <2>1, <2>5, FS_EmptySet
    <3>3. results[u] # <<>> => Len(results[u]) # 0
      BY <1>3
    <3>4. results[u] # <<>> => overlap' > 1
      BY <2>1, <3>2, <3>3
    <3> QED
      BY <2>3, <3>1, <3>4 DEF ArticleInv
  <2>6. CASE u \notin DOMAIN work[w].saved
    <3>1. status'[u] = status[u] /\ results'[u] = results[u]
      BY <1>1, <1>2, <2>6
    <3> QED
      BY <1>5, <2>1, <2>3, <3>1 DEF ArticleInv, NewsInv
  <2> QED
    BY <1>1, <2>4, <2>5, <2>6
<1>9. TrendsInv'
  <2>1. \A u \in Urls : Len(results'[u]) =< overlap'
    <3> SUFFICES ASSUME NEW u \in Urls PROVE Len(results'[u]) =< overlap'
      OBVIOUS
    <3>1. Cardinality(Holders(u)') \in Nat
      BY <1>5, RunsAreFinite
    <3>2. Len(results'[u]) \in Nat /\ overlap' \in Int
      BY <1>3, <1>4 DEF NewsTyped
    <3> QED
      BY <1>8, <3>1, <3>2 DEF ArticleInv
  <2>2. overlap' \in Nat
    BY <1>4 DEF NewsTyped
  <2> QED
    BY <1>3, <1>4, <2>1, <2>2, TrendsGrow DEF CommitWork, NewsInv, NewsTyped
<1>10. Cardinality(Running') =< overlap'
  <2>1. Running' \subseteq Running /\ Running \subseteq Workers
    BY IdleIsWork DEF Running, CommitWork, NewsInv, NewsTyped
  <2>2. /\ Cardinality(Running) \in Nat /\ Cardinality(Running') \in Nat
        /\ Cardinality(Running') =< Cardinality(Running)
    BY <2>1, FewerRuns, RunsAreFinite
  <2> QED
    BY <2>2 DEF CommitWork, NewsInv, NewsTyped
<1> QED
  BY <1>4, <1>7, <1>8, <1>9, <1>10 DEF NewsInv

-----------------------------------------------------------------------------
(***************************************************************************)
(* A step of a fetch that makes no article visible.                         *)
(***************************************************************************)
LEMMA FetchGoesOn ==
  ASSUME NewsInv, NewsTyped', FetchesApart', UNCHANGED <<status, results, work, trends, rows, overlap>>
  PROVE  NewsInv'
<1>1. \A u \in Urls : Holders(u)' = Holders(u) /\ Running' = Running
  BY DEF Holders, Running
<1> QED
  BY <1>1, TrendsStay DEF NewsInv, ArticleInv, Running

LEMMA NoFetchIsFetch ==
  /\ NoFetch \in FetchState /\ NoFetch.inserted = {} /\ ~NoFetch.aborted /\ NoFetch.pc = "idle"
  /\ Len(SourceOrder) \in Nat
<1>1. Len(SourceOrder) \in Nat
  BY NewsPipelineAssumption
<1> QED
  BY <1>1 DEF NoFetch, FetchState

LEMMA StartFetchStep ==
  ASSUME NewsInv, NEW f \in Fetchers, StartFetch(f)
  PROVE  NewsInv'
<1>1. /\ fetch' \in [Fetchers -> FetchState]
      /\ \A g \in Fetchers : fetch'[g].inserted = fetch[g].inserted /\ fetch'[g].aborted = fetch[g].aborted
  BY DEF StartFetch, NewsInv, NewsTyped, FetchState
<1>2. NewsTyped'
  BY <1>1, NewsPipelineAssumption DEF StartFetch, Start, NewsInv, NewsTyped
<1>3. FetchesApart'
  BY <1>1 DEF StartFetch, NewsInv, FetchesApart, Locked
<1> QED
  BY <1>2, <1>3, FetchGoesOn DEF StartFetch

(***************************************************************************)
(* The source a transaction goes through next adds only articles that have  *)
(* no row and that no other open transaction has inserted.                  *)
(***************************************************************************)
LEMMA CollectSourceStep ==
  ASSUME NewsInv, NEW f \in Fetchers, CollectSource(f)
  PROVE  NewsInv'
<1> DEFINE n == fetch[f].sources + 1
<1>1. /\ fetch[f] \in FetchState /\ n \in 1..Len(SourceOrder)
      /\ Feed[SourceOrder[n]] \subseteq Urls
  <2>1. fetch[f] \in FetchState /\ Len(SourceOrder) \in Nat
    BY NoFetchIsFetch DEF NewsInv, NewsTyped
  <2>2. n \in 1..Len(SourceOrder)
    <3>1. fetch[f].sources \in 0..Len(SourceOrder) /\ fetch[f].sources < Len(SourceOrder)
      BY <2>1 DEF CollectSource, FetchState
    <3> QED
      BY <2>1, <3>1
  <2>3. SourceOrder[n] \in DOMAIN Feed
    BY <2>2, NewsPipelineAssumption
  <2> QED
    BY <2>1, <2>2, <2>3, NewsPipelineAssumption
<1>2. PICK got \in SUBSET Feed[SourceOrder[n]] :
        LET fails == fetch[f].aborted \/ got \cap Oversized # {}
            new == {u \in got : status[u] = "absent"} IN
        /\ fails \/ got \cap Locked(f) = {}
        /\ fetch' = [fetch EXCEPT ![f].sources = @ + 1,
                                  ![f].inserted = IF fails THEN @ ELSE @ \cup new,
                                  ![f].aborted = @ \/ (fails /\ got # {})]
  BY DEF CollectSource
<1> DEFINE fails == fetch[f].aborted \/ got \cap Oversized # {}
           new == {u \in got : status[u] = "absent"}
           inserted == IF fails THEN fetch[f].inserted ELSE fetch[f].inserted \cup new
           aborted == fetch[f].aborted \/ (fails /\ got # {})
<1>3. fetch' = [fetch EXCEPT ![f].sources = n, ![f].inserted = inserted, ![f].aborted = aborted]
  BY <1>2
<1>4. inserted \in SUBSET Urls /\ aborted \in BOOLEAN /\ n \in 0..Len(SourceOrder)
  BY <1>1, NoFetchIsFetch DEF FetchState
<1>5. ~aborted => /\ ~fetch[f].aborted
                  /\ inserted = fetch[f].inserted \/ (inserted = fetch[f].inserted \cup new /\ got \cap Locked(f) = {})
  BY <1>2
<1> HIDE DEF inserted, aborted, n
<1>6. /\ fetch' \in [Fetchers -> FetchState]
      /\ fetch'[f].inserted = inserted /\ fetch'[f].aborted = aborted
      /\ \A g \in Fetchers \ {f} : fetch'[g] = fetch[g]
  BY <1>1, <1>3, <1>4 DEF NewsInv, NewsTyped, FetchState
<1>7. NewsTyped'
  BY <1>6 DEF CollectSource, NewsInv, NewsTyped
<1>8. FetchesApart'
  <2>1. ASSUME NEW g \in Fetchers \ {f}, ~fetch'[g].aborted, ~aborted
        PROVE  fetch[g].inserted \cap inserted = {}
    <3>1. fetch[g].inserted \subseteq Locked(f) /\ fetch[g].inserted \cap fetch[f].inserted = {}
      BY <1>5, <1>6, <2>1 DEF Locked, NewsInv, FetchesApart
    <3> QED
      BY <1>5, <2>1, <3>1
  <2>2. ASSUME NEW g \in Fetchers, NEW h \in Fetchers \ {g}, ~fetch'[g].aborted, ~fetch'[h].aborted
        PROVE  fetch'[g].inserted \cap fetch'[h].inserted = {}
    <3>1. CASE g = f
      BY <1>6, <2>1, <2>2, <3>1
    <3>2. CASE h = f
      BY <1>6, <2>1, <2>2, <3>2
    <3>3. CASE g # f /\ h # f
      BY <1>6, <2>2, <3>3 DEF NewsInv, FetchesApart, Locked
    <3> QED
      BY <3>1, <3>2, <3>3
  <2>3. ASSUME NEW g \in Fetchers, ~fetch'[g].aborted, NEW u \in fetch'[g].inserted
        PROVE  status'[u] = "absent"
    <3>1. status' = status
      BY DEF CollectSource
    <3>2. CASE g # f
      BY <1>6, <2>3, <3>1, <3>2 DEF NewsInv, FetchesApart
    <3>3. CASE g = f
      <4>1. ~fetch[f].aborted /\ u \in fetch[f].inserted \cup new
        BY <1>5, <1>6, <2>3, <3>3
      <4> QED
        BY <3>1, <4>1 DEF NewsInv, FetchesApart
    <3> QED
      BY <3>2, <3>3
  <2> QED
    BY <2>2, <2>3 DEF FetchesApart, Locked
<1> QED
  BY <1>7, <1>8, FetchGoesOn DEF CollectSource

LEMMA FetchEndsStep ==
  ASSUME NewsInv, NEW f \in Fetchers, InsertFails(f) \/ AnalyzeWithoutClient(f) \/ FetchLost(f)
  PROVE  NewsInv'
<1>1. /\ fetch' \in [Fetchers -> FetchState] /\ faults' \in 0..MaxFaults
      /\ \A g \in Fetchers \ {f} : fetch'[g] = fetch[g]
      /\ fetch'[f].aborted \/ fetch'[f].inserted = {}
  <2>1. fetch[f] \in FetchState /\ Len(SourceOrder) \in Nat
    BY NoFetchIsFetch DEF NewsInv, NewsTyped
  <2>2. CASE InsertFails(f)
    <3>1. fetch[f].sources + 1 \in 0..Len(SourceOrder)
      BY <2>1, <2>2 DEF InsertFails, FetchState
    <3>2. /\ fetch' \in [Fetchers -> FetchState] /\ fetch'[f].aborted
          /\ \A g \in Fetchers \ {f} : fetch'[g] = fetch[g]
      BY <2>2, <3>1 DEF InsertFails, NewsInv, NewsTyped, FetchState
    <3> QED
      BY <2>2, <3>2, NewsPipelineAssumption DEF InsertFails, Fault, NewsInv, NewsTyped
  <2>3. CASE AnalyzeWithoutClient(f) \/ FetchLost(f)
    <3>1. fetch' = [fetch EXCEPT ![f] = NoFetch]
      BY <2>3 DEF AnalyzeWithoutClient, FetchLost
    <3>2. faults' \in 0..MaxFaults
      BY <2>3, NewsPipelineAssumption DEF AnalyzeWithoutClient, FetchLost, Fault, NewsInv, NewsTyped
    <3> QED
      BY <3>1, <3>2, NoFetchIsFetch DEF NewsInv, NewsTyped
  <2> QED
    BY <2>2, <2>3
<1>2. NewsTyped'
  BY <1>1 DEF InsertFails, AnalyzeWithoutClient, FetchLost, NewsInv, NewsTyped
<1>3. FetchesApart'
  BY <1>1 DEF InsertFails, AnalyzeWithoutClient, FetchLost, NewsInv, FetchesApart, Locked
<1> QED
  BY <1>2, <1>3, FetchGoesOn DEF InsertFails, AnalyzeWithoutClient, FetchLost

(***************************************************************************)
(* The commit of a fetch shows articles nobody has worked on.               *)
(***************************************************************************)
LEMMA CommitFetchStep ==
  ASSUME NewsInv, NEW f \in Fetchers, CommitFetch(f)
  PROVE  NewsInv'
<1> DEFINE shown == IF fetch[f].aborted THEN {} ELSE fetch[f].inserted
<1>1. fetch[f] \in FetchState /\ shown \subseteq Urls /\ \A u \in shown : status[u] = "absent"
  BY DEF NewsInv, NewsTyped, FetchesApart, FetchState
<1>2. /\ fetch' \in [Fetchers -> FetchState] /\ fetch'[f].inserted = {}
      /\ \A g \in Fetchers \ {f} : fetch'[g] = fetch[g]
  <2> DEFINE x == [NoFetch EXCEPT !.pc = "analyze"]
  <2>1. x \in FetchState /\ x.inserted = {}
    BY <1>1, NoFetchIsFetch DEF FetchState
  <2>2. fetch' = [fetch EXCEPT ![f] = x]
    BY DEF CommitFetch
  <2> HIDE DEF x
  <2> QED
    BY <2>1, <2>2 DEF NewsInv, NewsTyped
<1>3. \A u \in Urls : status'[u] = IF u \in shown THEN "collected" ELSE status[u]
  BY DEF CommitFetch, WithStatus
<1>4. NewsTyped'
  <2>1. status' \in [Urls -> Statuses]
    BY DEF CommitFetch, WithStatus, NewsInv, NewsTyped, Statuses
  <2> QED
    BY <1>2, <2>1 DEF CommitFetch, NewsInv, NewsTyped
<1>5. FetchesApart'
  <2>1. ASSUME NEW g \in Fetchers, ~fetch'[g].aborted, NEW u \in fetch'[g].inserted
        PROVE  status'[u] = "absent"
    <3>1. g # f /\ fetch'[g] = fetch[g] /\ fetch[g] \in FetchState
      BY <1>2, <2>1 DEF NewsInv, NewsTyped
    <3>2. u \in Urls /\ status[u] = "absent" /\ u \notin Locked(g)
      BY <2>1, <3>1 DEF FetchState, NewsInv, FetchesApart
    <3>3. u \notin shown
      BY <3>1, <3>2 DEF Locked
    <3> QED
      BY <1>3, <3>2, <3>3
  <2>2. ASSUME NEW g \in Fetchers, ~fetch'[g].aborted
        PROVE  fetch'[g].inserted \cap Locked(g)' = {}
    <3>1. CASE g = f
      BY <1>2, <3>1
    <3>2. CASE g # f
      <4>1. fetch'[g] = fetch[g] /\ Locked(g)' \subseteq Locked(g)
        BY <1>2, <3>2 DEF Locked
      <4> QED
        BY <2>2, <4>1 DEF NewsInv, FetchesApart
    <3> QED
      BY <3>1, <3>2
  <2> QED
    BY <2>1, <2>2 DEF FetchesApart
<1>6. ASSUME NEW u \in Urls PROVE ArticleInv(u)'
  <2>1. Holders(u)' = Holders(u) /\ results' = results /\ overlap' = overlap
    BY DEF Holders, CommitFetch
  <2> QED
    BY <1>1, <1>3, <2>1 DEF NewsInv, ArticleInv
<1>7. Running' = Running
  BY DEF Running, CommitFetch
<1> QED
  BY <1>4, <1>5, <1>6, <1>7, TrendsStay DEF CommitFetch, NewsInv
-----------------------------------------------------------------------------
(***************************************************************************)
(* The steps of the aggregation and of the sentiment leave the articles.    *)
(***************************************************************************)
LEMMA ArticlesStay ==
  ASSUME NewsInv, TrendsInv', UNCHANGED <<status, results, fetch, work, overlap>>,
         starts' \in 0..MaxStarts, faults' \in 0..MaxFaults
  PROVE  NewsInv'
<1>1. Running' = Running /\ \A u \in Urls : Holders(u)' = Holders(u)
  BY DEF Running, Holders
<1>2. NewsTyped' /\ FetchesApart'
  BY DEF NewsInv, NewsTyped, FetchesApart, Locked
<1> QED
  BY <1>1, <1>2 DEF NewsInv, ArticleInv

LEMMA ReadAnalysesStep ==
  ASSUME NewsInv, ReadAnalyses
  PROVE  NewsInv'
<1> DEFINE Good(s) == {t \in Tagged(s) : Positive(t[1])}
<1>1. ASSUME NEW s \in Sectors
      PROVE  Counted([news_volume |-> Cardinality(Tagged(s)), positive |-> Cardinality(Good(s))], s)
  <2>1. overlap \in Nat /\ \A u \in Urls : Len(results[u]) =< overlap
    BY RepeatedByOverlap
  <2>2. IsFiniteSet(Tagged(s)) /\ Cardinality(Tagged(s)) \in Nat
    <3> DEFINE A == UNION {{u} \X DOMAIN results[u] : u \in PublishedToday}
    <3>1. Tagged(s) = Entries(results, A, s)
      BY DEF Tagged, Places, Analyses, Output, Entries
    <3>2. A \subseteq UNION {{u} \X DOMAIN results[u] : u \in Urls}
      BY NewsPipelineAssumption
    <3> QED
      BY <2>1, <3>1, <3>2, TagsAreFinite DEF NewsInv, NewsTyped
  <2>3. Cardinality(Good(s)) \in Nat /\ Cardinality(Good(s)) =< Cardinality(Tagged(s))
    BY <2>2, FS_Subset, FS_CardinalityType
  <2> QED
    BY <2>2, <2>3 DEF Counted, Trend
<1>2. \A s \in DOMAIN rows' : Counted(rows'[s], s)
  BY <1>1 DEF ReadAnalyses, SectorRows
<1>3. \A s : Tagged(s)' = Tagged(s)
  BY DEF ReadAnalyses, Tagged, Places, Analyses, Output
<1>4. TrendsInv'
  <2>1. \A s \in DOMAIN trends' : Counted(trends'[s], s)
    BY DEF ReadAnalyses, NewsInv, TrendsInv
  <2> QED
    BY <1>2, <1>3, <2>1 DEF TrendsInv, Counted
<1> QED
  BY <1>4, ArticlesStay DEF ReadAnalyses, NewsInv, NewsTyped

LEMMA UpsertTrendsStep ==
  ASSUME NewsInv, UpsertTrends
  PROVE  NewsInv'
<1>1. \A s \in DOMAIN trends' : Counted(trends'[s], s)
  BY DEF UpsertTrends, NewsInv, TrendsInv
<1>2. \A s : Tagged(s)' = Tagged(s)
  BY DEF UpsertTrends, Tagged, Places, Analyses, Output
<1>3. TrendsInv'
  BY <1>1, <1>2 DEF UpsertTrends, TrendsInv, Counted
<1> QED
  BY <1>3, ArticlesStay DEF UpsertTrends, NewsInv, NewsTyped

LEMMA OtherSteps ==
  ASSUME NewsInv,
         AggregationFails \/ ExpireSentiment \/ \E r \in SentimentReaders : AggregateSentiment(r) \/ CacheSentiment(r)
  PROVE  NewsInv'
<1>1. starts' \in 0..MaxStarts /\ faults' \in 0..MaxFaults
  BY NewsPipelineAssumption
  DEF AggregationFails, ExpireSentiment, AggregateSentiment, CacheSentiment, Start, Fault, NewsInv, NewsTyped
<1>2. /\ UNCHANGED <<status, results, fetch, work, trends, overlap>>
      /\ rows' = rows \/ rows' = Nothing
  BY DEF AggregationFails, ExpireSentiment, AggregateSentiment, CacheSentiment
<1>3. \A s : Tagged(s)' = Tagged(s)
  BY <1>2 DEF Tagged, Places, Analyses, Output
<1>4. TrendsInv'
  BY <1>2, <1>3 DEF NewsInv, TrendsInv, Counted
<1> QED
  BY <1>1, <1>2, <1>4, ArticlesStay

LEMMA NewsStarts == NewsInit => NewsInv
<1> SUFFICES ASSUME NewsInit PROVE NewsInv
  OBVIOUS
<1>1. Running = {} /\ \A u \in Urls : Holders(u) = {}
  BY IdleIsWork DEF NewsInit, Running, Holders
<1>2. Cardinality({}) = 0 /\ Cardinality(Workers) \in Nat
  BY FS_EmptySet, RunsAreFinite
<1>3. NewsTyped
  <2>1. <<>> \in Seq(Outputs)
    OBVIOUS
  <2>2. overlap \in 0..Cardinality(Workers) /\ starts \in 0..MaxStarts /\ faults \in 0..MaxFaults
    BY <1>2, NewsPipelineAssumption DEF NewsInit
  <2> QED
    BY <2>1, <2>2, IdleIsWork, NoFetchIsFetch DEF NewsInit, NewsTyped, Statuses
<1>4. FetchesApart
  BY NoFetchIsFetch DEF NewsInit, FetchesApart
<1>5. \A u \in Urls : ArticleInv(u)
  <2> SUFFICES ASSUME NEW u \in Urls PROVE ArticleInv(u)
    OBVIOUS
  <2>1. status[u] = "absent" /\ results[u] = <<>> /\ overlap = 0 /\ Len(<<>>) = 0
    BY DEF NewsInit
  <2>2. Len(results[u]) + Cardinality(Holders(u)) =< overlap
    <3>1. Cardinality(Holders(u)) = 0
      BY <1>1, <1>2
    <3>2. Len(results[u]) = 0
      BY <2>1
    <3> QED
      BY <2>1, <3>1, <3>2
  <2> QED
    BY <1>1, <2>1, <2>2 DEF ArticleInv
<1>6. TrendsInv
  BY DEF NewsInit, TrendsInv
<1> QED
  BY <1>1, <1>2, <1>3, <1>4, <1>5, <1>6 DEF NewsInv, NewsInit

(***************************************************************************)
(* The invariant holds throughout: whatever fetches, analysis runs,          *)
(* aggregations and failures overlap, on any feeds, articles and sectors.    *)
(***************************************************************************)
THEOREM NewsInvHolds == NewsSpec => []NewsInv
<1>1. NewsInv /\ [NewsNext]_newsVars => NewsInv'
  <2> SUFFICES ASSUME NewsInv, [NewsNext]_newsVars PROVE NewsInv'
    OBVIOUS
  <2>1. ASSUME NEW f \in Fetchers, StartFetch(f) \/ FetchRuns(f) PROVE NewsInv'
    BY <2>1, StartFetchStep, CollectSourceStep, CommitFetchStep, FetchEndsStep DEF FetchRuns
  <2>2. ASSUME NEW w \in Workers, StartWork(w) \/ WorkRuns(w) PROVE NewsInv'
    BY <2>2, StartWorkStep, AnalyzeBatchStep, AnalyzeStep, RetryStep, CommitWorkStep, WorkLostStep DEF WorkRuns
  <2>3. CASE UNCHANGED newsVars
    BY <2>3, ArticlesStay, TrendsStay DEF newsVars, NewsInv, NewsTyped
  <2> QED
    BY <2>1, <2>2, <2>3, ReadAnalysesStep, UpsertTrendsStep, OtherSteps DEF NewsNext
<1> QED
  BY <1>1, NewsStarts, PTL DEF NewsSpec

(***************************************************************************)
(* Type correctness: in particular what a run has answered and saved is an   *)
(* output for an article it may hold.                                        *)
(***************************************************************************)
THEOREM NewsTypeCorrect == NewsSpec => []NewsTypeOK
<1>1. NewsInv => NewsTypeOK
  BY DEF NewsInv, NewsTyped, NewsTypeOK, TrendsInv, Counted
<1> QED
  BY <1>1, NewsInvHolds, PTL

(***************************************************************************)
(* An article marked as analyzed has a result, one that is absent or only    *)
(* collected has none, and a failed one has a result only where runs         *)
(* overlapped.                                                               *)
(***************************************************************************)
THEOREM StatusIsOfResults == NewsSpec => []StatusTellsResults
<1>1. NewsInv => StatusTellsResults
  BY DEF NewsInv, ArticleInv, StatusTellsResults
<1> QED
  BY <1>1, NewsInvHolds, PTL

(***************************************************************************)
(* An article never has more results than runs that overlapped, for any      *)
(* number of runs, articles and failures.                                    *)
(***************************************************************************)
THEOREM NoRunRepeats == NewsSpec => []RepeatedOnlyByOverlap
<1>1. NewsInv => RepeatedOnlyByOverlap
  BY RepeatedByOverlap DEF RepeatedOnlyByOverlap
<1> QED
  BY <1>1, NewsInvHolds, PTL

(***************************************************************************)
(* Without overlap an article has one result at most, and if none repeats    *)
(* the tag, its entries are as many as its articles.                         *)
(***************************************************************************)
LEMMA EntriesAreArticles ==
  ASSUME NewsInv, overlap < 2, NEW s,
         \A a \in Analyses(PublishedToday) : \A i, j \in Places(a, s) : i = j
  PROVE  Cardinality(Tagged(s)) =< Cardinality({u \in PublishedToday : \E a \in Analyses({u}) : Places(a, s) # {}})
<1> DEFINE T == {u \in PublishedToday : \E a \in Analyses({u}) : Places(a, s) # {}}
           f == [t \in Tagged(s) |-> t[1][1]]
<1>1. ASSUME NEW u \in Urls PROVE Len(results[u]) =< 1
  <2> DEFINE n == Len(results[u])
  <2>1. results[u] \in Seq(Outputs) /\ overlap \in Nat /\ n =< overlap
    BY RepeatedByOverlap DEF NewsInv, NewsTyped
  <2>2. n \in Nat
    BY <2>1
  <2> HIDE DEF n
  <2>3. n =< 1
    BY <2>1, <2>2
  <2> QED
    BY <2>3 DEF n
<1>2. ASSUME NEW t \in Tagged(s)
      PROVE  /\ t[1][1] \in PublishedToday /\ t[1] = <<t[1][1], 1>> /\ t = <<t[1], t[2]>>
             /\ t[1] \in Analyses({t[1][1]}) /\ t[1] \in Analyses(PublishedToday) /\ t[2] \in Places(t[1], s)
  <2>1. PICK a \in Analyses(PublishedToday) : t \in {a} \X Places(a, s)
    BY DEF Tagged
  <2>2. PICK u \in PublishedToday : a \in {u} \X DOMAIN results[u]
    BY DEF Analyses
  <2>3. a[2] = 1
    <3>1. u \in Urls /\ results[u] \in Seq(Outputs)
      BY <2>2, NewsPipelineAssumption DEF NewsInv, NewsTyped
    <3>2. Len(results[u]) =< 1 /\ a[2] \in 1..Len(results[u]) /\ Len(results[u]) \in Nat
      BY <1>1, <2>2, <3>1
    <3> QED
      BY <3>2
  <2> QED
    BY <2>1, <2>2, <2>3 DEF Analyses
<1>3. f \in [Tagged(s) -> T]
  BY <1>2
<1>4. \A x, y \in Tagged(s) : f[x] = f[y] => x = y
  <2> SUFFICES ASSUME NEW x \in Tagged(s), NEW y \in Tagged(s), x[1][1] = y[1][1] PROVE x = y
    OBVIOUS
  <2>1. x[1] = <<x[1][1], 1>> /\ x = <<x[1], x[2]>> /\ x[1] \in Analyses(PublishedToday) /\ x[2] \in Places(x[1], s)
    BY <1>2
  <2>2. y[1] = <<y[1][1], 1>> /\ y = <<y[1], y[2]>> /\ y[2] \in Places(y[1], s)
    BY <1>2
  <2> HIDE DEF f, T
  <2>3. x[1] = y[1]
    BY <2>1, <2>2
  <2>4. x[2] = y[2]
    BY <2>1, <2>2, <2>3
  <2> QED
    BY <2>1, <2>2, <2>3, <2>4
<1>5. IsFiniteSet(T)
  BY NewsPipelineAssumption, FS_Subset
<1> HIDE DEF f, T
<1>6. f \in Injection(Tagged(s), T)
  BY <1>3, <1>4 DEF Injection, IsInjective
<1>7. Cardinality(Tagged(s)) =< Cardinality(T)
  BY <1>5, <1>6, FS_Injection
<1> QED
  BY <1>7 DEF T

(***************************************************************************)
(* A sector's row of the day counts no tag of a stored analysis twice, for   *)
(* any sectors, any lists of tags, also such as repeat one, and any number   *)
(* of results an article has; and no article twice unless runs overlapped or *)
(* an answer repeated the tag.                                               *)
(***************************************************************************)
THEOREM NothingCountsTwice == NewsSpec => []TrendsCountOnce
<1>1. ASSUME NewsInv, NEW s \in DOMAIN trends
      PROVE  /\ trends[s].news_volume =< Cardinality(Tagged(s))
             /\ trends[s].positive =< trends[s].news_volume
             /\ overlap < 2 /\ (\A a \in Analyses(PublishedToday) : \A i, j \in Places(a, s) : i = j) =>
                  trends[s].news_volume =< Cardinality({u \in PublishedToday : \E a \in Analyses({u}) : Places(a, s) # {}})
  <2> DEFINE T == {u \in PublishedToday : \E a \in Analyses({u}) : Places(a, s) # {}}
  <2>1. Counted(trends[s], s)
    BY <1>1 DEF NewsInv, TrendsInv
  <2>2. SUFFICES ASSUME overlap < 2, \A a \in Analyses(PublishedToday) : \A i, j \in Places(a, s) : i = j
                 PROVE  trends[s].news_volume =< Cardinality(T)
    BY <2>1 DEF Counted
  <2>3. Cardinality(Tagged(s)) =< Cardinality(T)
    BY <1>1, <2>2, EntriesAreArticles
  <2>4. IsFiniteSet(T)
    BY NewsPipelineAssumption, FS_Subset
  <2>5. Cardinality(T) \in Nat
    BY <2>4, FS_CardinalityType
  <2>6. Cardinality(Tagged(s)) \in Nat
    <3> DEFINE A == UNION {{u} \X DOMAIN results[u] : u \in PublishedToday}
    <3>1. Tagged(s) = Entries(results, A, s)
      BY DEF Tagged, Places, Analyses, Output, Entries
    <3>2. A \subseteq UNION {{u} \X DOMAIN results[u] : u \in Urls}
      BY NewsPipelineAssumption
    <3>3. overlap \in Nat /\ \A u \in Urls : Len(results[u]) =< overlap
      BY <1>1, RepeatedByOverlap
    <3> HIDE DEF A
    <3> QED
      BY <1>1, <3>1, <3>2, <3>3, TagsAreFinite DEF NewsInv, NewsTyped
  <2> HIDE DEF T
  <2> QED
    BY <2>1, <2>3, <2>5, <2>6 DEF Counted, Trend
<1>2. NewsInv => TrendsCountOnce
  BY <1>1 DEF TrendsCountOnce
<1> QED
  BY <1>2, NewsInvHolds, PTL

------------------------------------------------------------------------------
(***************************************************************************)
(* Scores.                                                                   *)
(***************************************************************************)

ScoringInv ==
  /\ mentions \in [Stocks -> [n : Nat, sum : Int]]
  /\ quote \in [Stocks -> Quotes \cup {NoQuote}]
  /\ votes \in [Stocks -> [up : Nat, down : Nat]]

LEMMA MinOfTwo ==
  ASSUME NEW a \in Int, NEW b \in Int
  PROVE  Min({a, b}) = IF a =< b THEN a ELSE b
<1>1. PICK m \in {a, b} : \A y \in {a, b} : m =< y
  OBVIOUS
<1>2. /\ Min({a, b}) \in {a, b}
      /\ \A y \in {a, b} : Min({a, b}) =< y
  BY <1>1 DEF Min
<1> QED
  BY <1>2

LEMMA ClampBetween ==
  ASSUME NEW x \in Int, NEW low \in Int, NEW high \in Int, low =< high
  PROVE  Clamp(x, low, high) = IF x < low THEN low ELSE IF x > high THEN high ELSE x
BY MaxOfTwo, MinOfTwo DEF Clamp

(***************************************************************************)
(* A rounded number is within half a thousandth of the number.              *)
(***************************************************************************)
LEMMA RoundsToHalf ==
  ASSUME NEW x \in Int, NEW one \in {UNIT, ONE}
  PROVE  /\ Rounded(x, one) \in Int
         /\ 2 * one * Rounded(x, one) =< 2000 * x + one
         /\ 2000 * x + one < 2 * one * Rounded(x, one) + 2 * one
<1>1. CASE one = UNIT
  BY <1>1 DEF Rounded, UNIT
<1>2. CASE one = ONE
  BY <1>2 DEF Rounded, UNIT, ONE
<1> QED
  BY <1>1, <1>2

LEMMA SixRoundings ==
  ASSUME NEW a \in Int, NEW b \in Int, NEW c \in Int, NEW d \in Int, NEW t \in Int, NEW f \in Int,
         NEW ra \in Int, NEW rb \in Int, NEW rc \in Int, NEW rd \in Int, NEW rt \in Int, NEW rf \in Int,
         t - f = 40 * a + 20 * b + 25 * c + 15 * d,
         1680 * ra =< 2000 * a + 840, 2000 * a + 840 < 1680 * ra + 1680,
         1680 * rb =< 2000 * b + 840, 2000 * b + 840 < 1680 * rb + 1680,
         1680 * rc =< 2000 * c + 840, 2000 * c + 840 < 1680 * rc + 1680,
         1680 * rd =< 2000 * d + 840, 2000 * d + 840 < 1680 * rd + 1680,
         168000 * rt =< 2000 * t + 84000, 2000 * t + 84000 < 168000 * rt + 168000,
         168000 * rf =< 2000 * f + 84000, 2000 * f + 84000 < 168000 * rf + 168000
  PROVE  100 * rt - 100 * rf - (40 * ra + 20 * rb + 25 * rc + 15 * rd) \in -150..150
OBVIOUS

(***************************************************************************)
(* The factors and scores are integers.                                     *)
(***************************************************************************)
LEMMA FactorsAreNumbers ==
  ASSUME ScoringInv, NEW s \in Aggregated
  PROVE  /\ Sentiment(s) \in Int /\ Volume(s) \in Int /\ Momentum(s) \in Int /\ Anomaly(s) \in Int
         /\ Base(s) \in Int
<1>1. Sentiment(s) \in Int
  BY DEF Sentiment, Aggregated, ScoringInv, UNIT
<1>2. Volume(s) \in Int
  <2>1. mentions[s].n * (UNIT \div 10) \in Int /\ UNIT \in Int
    BY DEF Aggregated, ScoringInv, UNIT
  <2> QED
    BY <2>1, MinOfTwo DEF Volume
<1>3. ASSUME quote[s] # NoQuote
      PROVE  quote[s].change \in Int /\ quote[s].volume \in Int
  BY <1>3, ScoringAssumption DEF Aggregated, ScoringInv
<1>4. UNIT \in Int /\ 0 =< UNIT /\ UNIT \div 20 \in Int
  BY DEF UNIT
<1>5. Momentum(s) \in Int
  <2>1. CASE quote[s] = NoQuote
    BY <2>1 DEF Momentum
  <2>2. CASE quote[s] # NoQuote
    <3>1. (quote[s].change + 10) * (UNIT \div 20) \in Int
      BY <1>3, <1>4, <2>2
    <3> QED
      BY <1>4, <2>2, <3>1, ClampBetween DEF Momentum
  <2> QED
    BY <2>1, <2>2
<1>6. Anomaly(s) \in Int
  <2>1. CASE quote[s] = NoQuote
    BY <2>1 DEF Anomaly
  <2>2. CASE quote[s] # NoQuote
    <3>1. quote[s].volume * (UNIT \div 20) \in Int
      BY <1>3, <1>4, <2>2
    <3> QED
      BY <1>4, <2>2, <3>1, MinOfTwo DEF Anomaly
  <2> QED
    BY <2>1, <2>2
<1>7. Base(s) \in Int
  BY <1>1, <1>2, <1>5, <1>6 DEF Base, Weighted
<1> QED
  BY <1>1, <1>2, <1>5, <1>6, <1>7

(***************************************************************************)
(* A quotient rounded down is no more than that of a greater fraction.      *)
(***************************************************************************)
LEMMA QuotientsKeepOrder ==
  ASSUME NEW a \in Int, NEW b \in Nat \ {0}, NEW c \in Int, NEW d \in Nat \ {0}, a * d =< c * b
  PROVE  a \div b \in Int /\ c \div d \in Int /\ a \div b =< c \div d
<1> DEFINE q == a \div b
           r == c \div d
<1>1. q \in Int /\ r \in Int /\ q * b =< a /\ c < (r + 1) * d
  OBVIOUS
<1> HIDE DEF q, r
<1>2. ASSUME q >= r + 1 PROVE FALSE
  <2>1. (q * b) * d =< a * d
    BY <1>1
  <2>2. c * b < ((r + 1) * d) * b
    BY <1>1
  <2>3. (r + 1) * (b * d) =< q * (b * d)
    BY <1>1, <1>2
  <2>4. ((r + 1) * d) * b = (r + 1) * (b * d) /\ (q * b) * d = q * (b * d)
    BY <1>1
  <2> QED
    BY <1>1, <2>1, <2>2, <2>3, <2>4
<1> QED
  BY <1>1, <1>2 DEF q, r

(* The part of the votes that counts, in fifths, before it is rounded. *)
Net(up, down) == (up - down) * Min({up + down, MIN_VOTES_FOR_CONFIDENCE}) * MAX_ADJ
Fifths(up, down) == (up + down) * MIN_VOTES_FOR_CONFIDENCE

LEMMA CoefficientIsClamped ==
  ASSUME NEW v \in [up : Nat, down : Nat]
  PROVE  /\ Coefficient(v) \in Int
         /\ v.up + v.down = 0 => Coefficient(v) = 0
         /\ v.up + v.down # 0 =>
              /\ Net(v.up, v.down) \in Int /\ Fifths(v.up, v.down) \in Nat \ {0}
              /\ Coefficient(v) = Clamp(Net(v.up, v.down) \div Fifths(v.up, v.down), -MAX_ADJ, MAX_ADJ)
<1>1. v.up \in Nat /\ v.down \in Nat /\ MAX_ADJ \in Int /\ -MAX_ADJ =< MAX_ADJ
  BY DEF MAX_ADJ, UNIT
<1>2. CASE v.up + v.down = 0
  BY <1>2 DEF Coefficient
<1>3. CASE v.up + v.down # 0
  <2>1. Min({v.up + v.down, MIN_VOTES_FOR_CONFIDENCE}) \in Int
    BY <1>1, MinOfTwo DEF MIN_VOTES_FOR_CONFIDENCE
  <2>2. Net(v.up, v.down) \in Int /\ Fifths(v.up, v.down) \in Nat \ {0}
    BY <1>1, <1>3, <2>1 DEF Net, Fifths, MIN_VOTES_FOR_CONFIDENCE
  <2>3. Net(v.up, v.down) \div Fifths(v.up, v.down) \in Int
    BY <2>2
  <2>4. Coefficient(v) = Clamp(Net(v.up, v.down) \div Fifths(v.up, v.down), -MAX_ADJ, MAX_ADJ)
    BY <1>3 DEF Coefficient, Net, Fifths
  <2> QED
    BY <1>1, <1>3, <2>2, <2>3, <2>4, ClampBetween
<1> QED
  BY <1>2, <1>3

(***************************************************************************)
(* One more vote for a stock makes the fraction no smaller, one more        *)
(* against it no greater, though the confidence grows with both.            *)
(***************************************************************************)
LEMMA NetKeepsOrder ==
  ASSUME NEW up \in Nat, NEW down \in Nat, up + down # 0
  PROVE  /\ Net(up, down) * Fifths(up + 1, down) =< Net(up + 1, down) * Fifths(up, down)
         /\ Net(up, down + 1) * Fifths(up, down) =< Net(up, down) * Fifths(up, down + 1)
<1> DEFINE n == up + down
           k == up - down
           m(x) == Min({x, MIN_VOTES_FOR_CONFIDENCE})
<1>1. n \in Nat \ {0} /\ k \in Int /\ k =< n /\ -n =< k
  OBVIOUS
<1>2. /\ Net(up, down) = k * m(n) * MAX_ADJ /\ Fifths(up, down) = n * 5
      /\ Net(up + 1, down) = (k + 1) * m(n + 1) * MAX_ADJ /\ Fifths(up + 1, down) = (n + 1) * 5
      /\ Net(up, down + 1) = (k - 1) * m(n + 1) * MAX_ADJ /\ Fifths(up, down + 1) = (n + 1) * 5
  <2>1. /\ (up + 1) + down = n + 1 /\ up + (down + 1) = n + 1
        /\ (up + 1) - down = k + 1 /\ up - (down + 1) = k - 1
    OBVIOUS
  <2> QED
    BY <2>1 DEF Net, Fifths, MIN_VOTES_FOR_CONFIDENCE
<1>3. m(n) = (IF n =< 5 THEN n ELSE 5) /\ m(n + 1) = (IF n + 1 =< 5 THEN n + 1 ELSE 5)
  BY <1>1, MinOfTwo DEF MIN_VOTES_FOR_CONFIDENCE
<1> HIDE DEF n, k, m
<1>4. CASE n =< 4
  <2>1. m(n) = n /\ m(n + 1) = n + 1
    BY <1>1, <1>3, <1>4
  <2>2. n \in {1, 2, 3, 4}
    BY <1>1, <1>4
  <2> QED
    BY <1>1, <1>2, <2>1, <2>2 DEF MAX_ADJ, UNIT
<1>5. CASE n > 4
  <2>1. m(n) = 5 /\ m(n + 1) = 5
    BY <1>1, <1>3, <1>5
  <2>2. k * (n + 1) =< (k + 1) * n /\ (k - 1) * n =< k * (n + 1)
    <3>1. k * (n + 1) = k * n + k /\ (k + 1) * n = k * n + n /\ (k - 1) * n = k * n - n /\ k * n \in Int
      BY <1>1
    <3> QED
      BY <1>1, <3>1
  <2>3. /\ (k * 5 * MAX_ADJ) * ((n + 1) * 5) = (k * (n + 1)) * (25 * MAX_ADJ)
        /\ ((k + 1) * 5 * MAX_ADJ) * (n * 5) = ((k + 1) * n) * (25 * MAX_ADJ)
        /\ ((k - 1) * 5 * MAX_ADJ) * (n * 5) = ((k - 1) * n) * (25 * MAX_ADJ)
    BY <1>1 DEF MAX_ADJ, UNIT
  <2>4. /\ k * (n + 1) \in Int /\ (k + 1) * n \in Int /\ (k - 1) * n \in Int
        /\ \A x, y \in Int : x =< y => x * (25 * MAX_ADJ) =< y * (25 * MAX_ADJ)
    BY <1>1 DEF MAX_ADJ, UNIT
  <2> QED
    BY <1>2, <2>1, <2>2, <2>3, <2>4
<1> QED
  BY <1>1, <1>4, <1>5

LEMMA VotesMoveTheCoefficient ==
  ASSUME NEW v \in [up : Nat, down : Nat], NEW w \in [up : Nat, down : Nat]
  PROVE  /\ w.up = v.up + 1 /\ w.down = v.down => Coefficient(v) =< Coefficient(w)
         /\ w.up = v.up /\ w.down = v.down + 1 => Coefficient(w) =< Coefficient(v)
<1>1. v.up \in Nat /\ v.down \in Nat /\ w.up \in Nat /\ w.down \in Nat /\ MAX_ADJ = 12600
  BY DEF MAX_ADJ, UNIT
<1>2. \A x, y \in Int : x =< y => Clamp(x, -MAX_ADJ, MAX_ADJ) =< Clamp(y, -MAX_ADJ, MAX_ADJ)
  BY <1>1, ClampBetween
<1>3. CASE v.up + v.down = 0
  <2>1. v.up = 0 /\ v.down = 0 /\ Coefficient(v) = 0
    BY <1>1, <1>3, CoefficientIsClamped
  <2>2. ASSUME w.up + w.down = 1
        PROVE  Coefficient(w) = Clamp(((w.up - w.down) * 12600) \div 5, -12600, 12600)
    <3>1. Min({w.up + w.down, MIN_VOTES_FOR_CONFIDENCE}) = 1
      BY <2>2, MinOfTwo DEF MIN_VOTES_FOR_CONFIDENCE
    <3> QED
      BY <1>1, <2>2, <3>1 DEF Coefficient, MIN_VOTES_FOR_CONFIDENCE
  <2>3. Clamp(((1 - 0) * 12600) \div 5, -12600, 12600) = 2520 /\ Clamp(((0 - 1) * 12600) \div 5, -12600, 12600) = -2520
    <3>1. ((1 - 0) * 12600) \div 5 = 2520 /\ ((0 - 1) * 12600) \div 5 = -2520
      OBVIOUS
    <3> QED
      BY <3>1, ClampBetween
  <2> QED
    BY <1>1, <2>1, <2>2, <2>3
<1>4. CASE v.up + v.down # 0
  <2>1. /\ Net(v.up, v.down) \in Int /\ Fifths(v.up, v.down) \in Nat \ {0}
        /\ Coefficient(v) = Clamp(Net(v.up, v.down) \div Fifths(v.up, v.down), -MAX_ADJ, MAX_ADJ)
    BY <1>4, CoefficientIsClamped
  <2>2. w.up + w.down # 0 =>
        /\ Net(w.up, w.down) \in Int /\ Fifths(w.up, w.down) \in Nat \ {0}
        /\ Coefficient(w) = Clamp(Net(w.up, w.down) \div Fifths(w.up, w.down), -MAX_ADJ, MAX_ADJ)
    BY CoefficientIsClamped
  <2>3. CASE w.up = v.up + 1 /\ w.down = v.down
    <3>1. Net(v.up, v.down) * Fifths(w.up, w.down) =< Net(w.up, w.down) * Fifths(v.up, v.down)
      BY <1>1, <1>4, <2>3, NetKeepsOrder
    <3>2. w.up + w.down # 0
      BY <1>1, <2>3
    <3>3. Net(v.up, v.down) \div Fifths(v.up, v.down) =< Net(w.up, w.down) \div Fifths(w.up, w.down)
          /\ Net(v.up, v.down) \div Fifths(v.up, v.down) \in Int /\ Net(w.up, w.down) \div Fifths(w.up, w.down) \in Int
      BY <2>1, <2>2, <3>1, <3>2, QuotientsKeepOrder
    <3> QED
      BY <1>1, <1>2, <2>1, <2>2, <2>3, <3>2, <3>3
  <2>4. CASE w.up = v.up /\ w.down = v.down + 1
    <3>1. Net(w.up, w.down) * Fifths(v.up, v.down) =< Net(v.up, v.down) * Fifths(w.up, w.down)
      BY <1>1, <1>4, <2>4, NetKeepsOrder
    <3>2. w.up + w.down # 0
      BY <1>1, <2>4
    <3>3. Net(w.up, w.down) \div Fifths(w.up, w.down) =< Net(v.up, v.down) \div Fifths(v.up, v.down)
          /\ Net(v.up, v.down) \div Fifths(v.up, v.down) \in Int /\ Net(w.up, w.down) \div Fifths(w.up, w.down) \in Int
      BY <2>1, <2>2, <3>1, <3>2, QuotientsKeepOrder
    <3> QED
      BY <1>1, <1>2, <2>1, <2>2, <2>4, <3>2, <3>3
  <2> QED
    BY <1>1, <2>3, <2>4
<1> QED
  BY <1>3, <1>4
-----------------------------------------------------------------------------
LEMMA TotalIsNumber ==
  ASSUME ScoringInv, NEW s \in Aggregated
  PROVE  Total(s) \in Int /\ Base(s) + Coefficient(votes[s]) \in Int
         /\ Total(s) = Clamp(Base(s) + Coefficient(votes[s]), 0, ONE)
<1>1. Base(s) \in Int /\ Coefficient(votes[s]) \in Int
  <2>1. votes[s] \in [up : Nat, down : Nat]
    BY DEF ScoringInv, Aggregated
  <2> QED
    BY <2>1, FactorsAreNumbers, CoefficientIsClamped
<1>2. 0 \in Int /\ ONE \in Int /\ 0 =< ONE
  BY DEF ONE, UNIT
<1> QED
  BY <1>1, <1>2, ClampBetween DEF Total

(***************************************************************************)
(* The counters of mentions and of votes and the quotes stay what the        *)
(* scoring takes them for.                                                   *)
(***************************************************************************)
THEOREM ScoringInvHolds == ScoringSpec => []ScoringInv
<1>1. ScoringInit => ScoringInv
  BY DEF ScoringInit, ScoringInv
<1>2. ScoringInv /\ [ScoringNext]_scoringVars => ScoringInv'
  <2> SUFFICES ASSUME ScoringInv, [ScoringNext]_scoringVars PROVE ScoringInv'
    OBVIOUS
  <2>1. ASSUME NEW s \in Stocks, NEW x \in Sentiments, MentionAnalyzed(s, x) PROVE ScoringInv'
    BY <2>1, ScoringAssumption DEF MentionAnalyzed, ScoringInv
  <2>2. ASSUME NEW s \in Stocks, MarketMoves(s) PROVE ScoringInv'
    BY <2>2 DEF MarketMoves, ScoringInv
  <2>3. ASSUME NEW s \in Stocks, NEW vote \in {"up", "down"}, SaveFeedback(s, vote) PROVE ScoringInv'
    <3>1. votes' = [votes EXCEPT ![s][vote] = @ + 1] /\ UNCHANGED <<mentions, quote>>
      BY <2>3 DEF SaveFeedback
    <3>2. CASE vote = "up"
      BY <3>1, <3>2 DEF ScoringInv
    <3>3. CASE vote = "down"
      BY <3>1, <3>3 DEF ScoringInv
    <3> QED
      BY <3>2, <3>3
  <2>4. CASE UNCHANGED scoringVars
    BY <2>4 DEF scoringVars, ScoringInv
  <2> QED
    BY <2>1, <2>2, <2>3, <2>4 DEF ScoringNext
<1> QED
  BY <1>1, <1>2, PTL DEF ScoringSpec

(***************************************************************************)
(* The contributions and the feedback delta of the detail page add up to    *)
(* its score within the three roundings, whatever the factors and votes.    *)
(***************************************************************************)
THEOREM BreakdownIsOfTotal == ScoringSpec => []BreakdownAddsUp
<1>1. ScoringInv => BreakdownAddsUp
  <2> SUFFICES ASSUME ScoringInv, NEW s \in Aggregated
               PROVE  100 * Rounded(Total(s), ONE) - 100 * Rounded(Feedback(s), ONE) - Breakdown(s) \in -150..150
    BY DEF BreakdownAddsUp
  <2> DEFINE a == Sentiment(s)
             b == Volume(s)
             c == Momentum(s)
             d == Anomaly(s)
             t == Total(s)
             f == Feedback(s)
  <2>1. /\ a \in Int /\ b \in Int /\ c \in Int /\ d \in Int /\ t \in Int /\ f \in Int
        /\ t - f = 40 * a + 20 * b + 25 * c + 15 * d
    BY FactorsAreNumbers, TotalIsNumber DEF Feedback, Base, Weighted
  <2>2. Breakdown(s) = 40 * Rounded(a, UNIT) + 20 * Rounded(b, UNIT) + 25 * Rounded(c, UNIT) + 15 * Rounded(d, UNIT)
    BY DEF Breakdown, Weighted
  <2> HIDE DEF a, b, c, d, t, f
  <2>3. \A x \in Int : /\ Rounded(x, UNIT) \in Int
                       /\ 1680 * Rounded(x, UNIT) =< 2000 * x + 840
                       /\ 2000 * x + 840 < 1680 * Rounded(x, UNIT) + 1680
    BY RoundsToHalf DEF UNIT
  <2>4. \A x \in Int : /\ Rounded(x, ONE) \in Int
                       /\ 168000 * Rounded(x, ONE) =< 2000 * x + 84000
                       /\ 2000 * x + 84000 < 168000 * Rounded(x, ONE) + 168000
    BY RoundsToHalf DEF UNIT, ONE
  <2> DEFINE ra == Rounded(a, UNIT)
             rb == Rounded(b, UNIT)
             rc == Rounded(c, UNIT)
             rd == Rounded(d, UNIT)
             rt == Rounded(t, ONE)
             rf == Rounded(f, ONE)
  <2>5. ra \in Int /\ 1680 * ra =< 2000 * a + 840 /\ 2000 * a + 840 < 1680 * ra + 1680
    BY <2>1, <2>3
  <2>6. rb \in Int /\ 1680 * rb =< 2000 * b + 840 /\ 2000 * b + 840 < 1680 * rb + 1680
    BY <2>1, <2>3
  <2>7. rc \in Int /\ 1680 * rc =< 2000 * c + 840 /\ 2000 * c + 840 < 1680 * rc + 1680
    BY <2>1, <2>3
  <2>8. rd \in Int /\ 1680 * rd =< 2000 * d + 840 /\ 2000 * d + 840 < 1680 * rd + 1680
    BY <2>1, <2>3
  <2>9. rt \in Int /\ 168000 * rt =< 2000 * t + 84000 /\ 2000 * t + 84000 < 168000 * rt + 168000
    BY <2>1, <2>4
  <2>10. rf \in Int /\ 168000 * rf =< 2000 * f + 84000 /\ 2000 * f + 84000 < 168000 * rf + 168000
    BY <2>1, <2>4
  <2>11. 100 * Rounded(t, ONE) - 100 * Rounded(f, ONE) - Breakdown(s) = 100 * rt - 100 * rf - (40 * ra + 20 * rb + 25 * rc + 15 * rd)
    BY <2>2
  <2> HIDE DEF ra, rb, rc, rd, rt, rf
  <2>12. 100 * rt - 100 * rf - (40 * ra + 20 * rb + 25 * rc + 15 * rd) \in -150..150
    BY <2>1, <2>5, <2>6, <2>7, <2>8, <2>9, <2>10, SixRoundings
  <2> QED
    BY <2>11, <2>12 DEF t, f
<1> QED
  BY <1>1, ScoringInvHolds, PTL

(***************************************************************************)
(* No vote moves a stock in the ranking against its sense, for any number   *)
(* of votes and stocks.                                                     *)
(***************************************************************************)
THEOREM VotesPull == ScoringSpec => VotesPullTheirWay
<1>1. ScoringInv /\ ScoringInv' /\ [ScoringNext]_scoringVars =>
        [\A s, t \in Stocks :
           /\ votes'[s].up > votes[s].up => (Outranks(t, s)' => Outranks(t, s))
           /\ votes'[s].down > votes[s].down => (Outranks(s, t)' => Outranks(s, t))]_scoringVars
  <2> SUFFICES ASSUME ScoringInv, ScoringInv', ScoringNext, NEW s \in Stocks, NEW t \in Stocks
               PROVE  /\ votes'[s].up > votes[s].up => (Outranks(t, s)' => Outranks(t, s))
                      /\ votes'[s].down > votes[s].down => (Outranks(s, t)' => Outranks(s, t))
    OBVIOUS
  <2>1. votes[s] \in [up : Nat, down : Nat] /\ votes'[s] \in [up : Nat, down : Nat]
    BY DEF ScoringInv
  <2>2. CASE votes'[s] = votes[s]
    BY <2>1, <2>2
  <2>3. CASE votes'[s] # votes[s]
    <3>1. PICK vote \in {"up", "down"} : SaveFeedback(s, vote)
      BY <2>3 DEF ScoringNext, MentionAnalyzed, MarketMoves, SaveFeedback, ScoringInv
    <3>2. /\ UNCHANGED <<mentions, quote>>
          /\ \A x \in Stocks \ {s} : votes'[x] = votes[x]
          /\ vote = "up" => votes'[s].up = votes[s].up + 1 /\ votes'[s].down = votes[s].down
          /\ vote = "down" => votes'[s].up = votes[s].up /\ votes'[s].down = votes[s].down + 1
      BY <3>1 DEF SaveFeedback, ScoringInv
    <3>3. Aggregated' = Aggregated /\ \A x \in Stocks : Base(x)' = Base(x)
      BY <3>2 DEF Aggregated, Base, Sentiment, Volume, Momentum, Anomaly
    <3>4. t # s => Total(t)' = Total(t)
      BY <3>2, <3>3 DEF Total
    <3>5. ASSUME s \in Aggregated
          PROVE  /\ Total(s) \in Int /\ Total(s)' \in Int
                 /\ vote = "up" => Total(s) =< Total(s)'
                 /\ vote = "down" => Total(s)' =< Total(s)
      <4>1. /\ Base(s) \in Int /\ Coefficient(votes[s]) \in Int /\ Coefficient(votes'[s]) \in Int
            /\ vote = "up" => Coefficient(votes[s]) =< Coefficient(votes'[s])
            /\ vote = "down" => Coefficient(votes'[s]) =< Coefficient(votes[s])
        BY <2>1, <3>2, <3>5, FactorsAreNumbers, CoefficientIsClamped, VotesMoveTheCoefficient
      <4>2. Total(s) = Clamp(Base(s) + Coefficient(votes[s]), 0, ONE) /\ Total(s)' = Clamp(Base(s) + Coefficient(votes'[s]), 0, ONE)
        BY <3>3 DEF Total
      <4>3. 0 \in Int /\ ONE \in Int /\ 0 =< ONE
        BY DEF ONE, UNIT
      <4> HIDE DEF ONE
      <4>4. \A x, y \in Int : x =< y => /\ Clamp(x, 0, ONE) \in Int /\ Clamp(y, 0, ONE) \in Int
                                        /\ Clamp(x, 0, ONE) =< Clamp(y, 0, ONE)
        BY <4>3, ClampBetween
      <4> QED
        BY <3>1, <4>1, <4>2, <4>4
    <3>6. t \in Aggregated => Total(t) \in Int
      BY TotalIsNumber
    <3>7. CASE t = s
      BY <3>5, <3>3, <3>7 DEF Outranks
    <3>8. CASE t # s
      BY <2>1, <3>1, <3>2, <3>3, <3>4, <3>5, <3>6, <3>8 DEF Outranks
    <3> QED
      BY <3>7, <3>8
  <2> QED
    BY <2>2, <2>3
<1> QED
  BY <1>1, ScoringInvHolds, PTL DEF ScoringSpec, VotesPullTheirWay
==============================================================================
