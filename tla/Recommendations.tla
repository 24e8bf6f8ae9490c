-------------------------- MODULE Recommendations --------------------------
(***************************************************************************)
(* The recommendation list: run_recommendation, which computes it, stores  *)
(* it and caches it, and GET /recommendations, which answers from the       *)
(* cache.  Redis holds one base key per date and one derived key per pair  *)
(* of limit and sector for filtered and sorted lists.  The job and every   *)
(* request run as coroutines that yield at each Redis or database call, and *)
(* a Redis call that fails is swallowed (get answers None, set and delete   *)
(* do nothing).                                                            *)
(*                                                                         *)
(* One computed list is a batch: its date and a serial number.  What a     *)
(* request gets is a batch seen through a query, so an answer is the pair  *)
(* of both.                                                                *)
(***************************************************************************)
EXTENDS Integers

CONSTANTS
  Readers,      \* requests that may be under way at once
  Queries,      \* [limit, sector, sort, min_score] a client may ask for
  None,         \* a missing value: no cache entry, no parameter
  MaxDay,       \* bound on the calendar
  MaxBatches,   \* bound on computed lists
  MaxFailures   \* bound on failing calls and process crashes

ASSUME RecommendationsAssumption ==
  /\ MaxDay \in Nat \ {0} /\ MaxBatches \in Nat /\ MaxFailures \in Nat
  /\ None \notin [day : 1..MaxDay, no : 1..MaxBatches]
  /\ \A q \in Queries : {"limit", "sector", "sort", "min_score"} \subseteq DOMAIN q

VARIABLES
  today,      \* date.today()
  base,       \* recommendations:{date}
  derived,    \* recommendations:top:{limit}[:sector:{sector}]
  table,      \* committed rows of `recommendations`, by batch
  job,        \* the run of run_recommendation: step, date, batch, keys to purge
  count,      \* batches computed so far
  published,  \* serial number of the last batch put in the base cache
  late,       \* derived keys that a request asked before that may still fill with another batch
  clean,      \* the last run ended in order and its purge was complete
  req,        \* the requests
  failures

vars == <<today, base, derived, table, job, count, published, late, clean, req, failures>>

Days == 1..MaxDay

Batch == [day : Days, no : 1..MaxBatches]

(* build_derived_key reads the limit and the sector of a query. *)
DerivedKey(q) == <<q.limit, q.sector>>

DerivedKeys == {DerivedKey(q) : q \in Queries}

IsDefault(q) ==
  q.limit = 10 /\ q.sector = None /\ q.sort = "score" /\ q.min_score = None

(* A derived entry and an answer: the batch and the query it is seen through. *)
Entry == [batch : Batch, query : Queries]

NoRun == [pc |-> "idle", day |-> 1, batch |-> None, todo |-> {}]

(* A request: step, query, date it was received on, the batch it has read, the
   newest batch of that date when it came in, and its answer. *)
NoRequest == [pc |-> "idle", query |-> None, day |-> 1, batch |-> None, newest |-> 0,
              answer |-> None]

Init ==
  /\ today = 1
  /\ base = [d \in Days |-> None]
  /\ derived = [k \in DerivedKeys |-> None]
  /\ table = {}
  /\ job = NoRun
  /\ count = 0
  /\ published = 0
  /\ late = {}
  /\ clean = TRUE
  /\ req = [r \in Readers |-> NoRequest]
  /\ failures = 0

Fails == failures < MaxFailures /\ failures' = failures + 1
-----------------------------------------------------------------------------
(***************************************************************************)
(* run_recommendation and RecommendationService.run.                       *)
(***************************************************************************)
StartRun ==
  /\ job.pc = "idle"
  /\ job' = [job EXCEPT !.pc = "lookup", !.day = today]
  /\ UNCHANGED <<today, base, derived, table, count, published, late, clean, req, failures>>

(* The list of the day is cached: nothing is computed, the empty transaction
   is committed and the derived keys are purged all the same. *)
CacheHit ==
  /\ job.pc = "lookup"
  /\ base[job.day] # None
  /\ job' = [job EXCEPT !.pc = "commit"]
  /\ UNCHANGED <<today, base, derived, table, count, published, late, clean, req, failures>>

CacheMiss ==
  /\ job.pc = "lookup"
  /\ \/ base[job.day] = None /\ UNCHANGED failures
     \/ base[job.day] # None /\ Fails
  /\ job' = [job EXCEPT !.pc = "compute"]
  /\ UNCHANGED <<today, base, derived, table, count, published, late, clean, req>>

(* Aggregate, score, rank and flush the rows; with nothing aggregated the run
   returns an empty list. *)
Compute ==
  /\ job.pc = "compute"
  /\ \/ /\ job' = [job EXCEPT !.pc = "commit"]
        /\ UNCHANGED count
     \/ /\ count < MaxBatches
        /\ count' = count + 1
        /\ job' = [job EXCEPT !.pc = "publish",
                              !.batch = [day |-> job.day, no |-> count + 1]]
  /\ UNCHANGED <<today, base, derived, table, published, late, clean, req, failures>>

(* The derived keys of the requests that will not see what the run publishes:
   they have read another list already, or look under another date. *)
Late == {DerivedKey(req[r].query) : r \in {r \in Readers :
           \/ req[r].pc = "store"
           \/ req[r].pc \in {"derived", "base"} /\ req[r].day # job.day}}

(* cache.set of the base key, before the caller commits. *)
Publish ==
  /\ job.pc = "publish"
  /\ \/ /\ base' = [base EXCEPT ![job.day] = job.batch]
        /\ published' = job.batch.no
        /\ late' = Late
        /\ clean' = FALSE
        /\ UNCHANGED failures
     \/ Fails /\ UNCHANGED <<base, published, late, clean>>
  /\ job' = [job EXCEPT !.pc = "commit"]
  /\ UNCHANGED <<today, derived, table, count, req>>

(* Mutant: the session is closed without a commit. *)
CommitRunForgotten ==
  /\ job.pc = "commit"
  /\ job' = [job EXCEPT !.pc = "purge", !.batch = None, !.todo = DerivedKeys]
  /\ UNCHANGED <<today, base, derived, table, count, published, late, clean, req, failures>>

CommitRun ==
  /\ job.pc = "commit"
  /\ table' = IF job.batch = None THEN table ELSE table \cup {job.batch}
  /\ job' = [job EXCEPT !.pc = "purge", !.batch = None, !.todo = DerivedKeys]
  /\ UNCHANGED <<today, base, derived, count, published, late, clean, req, failures>>

(* A database call of the run raises: the rows are rolled back, what is cached
   stays cached, and the purge is not reached. *)
RunRaises ==
  /\ job.pc \in {"compute", "commit"}
  /\ Fails
  /\ job' = NoRun
  /\ UNCHANGED <<today, base, derived, table, count, published, late, clean, req>>

(* invalidate_derived: SCAN meets each key once, at a moment of its own, and
   DELETE removes it.  A Redis error ends the scan. *)
Purge ==
  /\ job.pc = "purge"
  /\ \/ \E k \in job.todo :
          /\ derived' = [derived EXCEPT ![k] = None]
          /\ job' = [job EXCEPT !.todo = @ \ {k}]
          /\ UNCHANGED failures
     \/ Fails /\ job' = NoRun /\ UNCHANGED derived
  /\ UNCHANGED <<today, base, table, count, published, late, clean, req>>

(* Mutant: only the first page of the SCAN is looked at. *)
FinishRunEarly ==
  /\ job.pc = "purge"
  /\ job' = NoRun
  /\ clean' = TRUE
  /\ UNCHANGED <<today, base, derived, table, count, published, late, req, failures>>

FinishRun ==
  /\ job.pc = "purge"
  /\ job.todo = {}
  /\ job' = NoRun
  /\ clean' = TRUE
  /\ UNCHANGED <<today, base, derived, table, count, published, late, req, failures>>
-----------------------------------------------------------------------------
(***************************************************************************)
(* GET /recommendations: get_recommendations.                              *)
(***************************************************************************)
Ask(r) ==
  /\ req[r].pc = "idle"
  /\ \E q \in Queries :
       req' = [req EXCEPT ![r] =
         [pc |-> IF IsDefault(q) THEN "base" ELSE "derived", query |-> q, day |-> today,
          batch |-> None, newest |-> IF base[today] = None THEN 0 ELSE base[today].no,
          answer |-> None]]
  /\ UNCHANGED <<today, base, derived, table, job, count, published, late, clean, failures>>

LookupDerived(r) ==
  /\ req[r].pc = "derived"
  /\ LET entry == derived[DerivedKey(req[r].query)]
     IN  \/ /\ entry # None
            /\ req' = [req EXCEPT ![r].pc = "answered", ![r].answer = entry]
            /\ UNCHANGED failures
         \/ /\ \/ entry = None /\ UNCHANGED failures
               \/ entry # None /\ Fails
            /\ req' = [req EXCEPT ![r].pc = "base"]
  /\ UNCHANGED <<today, base, derived, table, job, count, published, late, clean>>

(* Mutant: with nothing cached for today, yesterday's list will do. *)
LookupBaseYesterday(r) ==
  /\ req[r].pc = "base"
  /\ LET d == req[r].day
         batch == IF base[d] = None /\ d > 1 THEN base[d - 1] ELSE base[d]
     IN  req' = [req EXCEPT ![r].pc = "answered",
                   ![r].answer = IF batch = None THEN None
                                 ELSE [batch |-> batch, query |-> req[r].query]]
  /\ UNCHANGED <<today, base, derived, table, job, count, published, late, clean, failures>>

(* Without a base list the answer is "preparing". *)
LookupBase(r) ==
  /\ req[r].pc = "base"
  /\ LET batch == base[req[r].day]
     IN  \/ /\ \/ batch = None /\ UNCHANGED failures
               \/ batch # None /\ Fails
            /\ req' = [req EXCEPT ![r].pc = "answered"]
         \/ /\ batch # None
            /\ UNCHANGED failures
            /\ req' = [req EXCEPT ![r].batch = batch,
                 ![r].pc = IF IsDefault(req[r].query) THEN "answered" ELSE "store",
                 ![r].answer = IF IsDefault(req[r].query)
                               THEN [batch |-> batch, query |-> req[r].query] ELSE None]
  /\ UNCHANGED <<today, base, derived, table, job, count, published, late, clean>>

(* Filter, sort, cut, set_derived, answer. *)
StoreDerived(r) ==
  /\ req[r].pc = "store"
  /\ LET entry == [batch |-> req[r].batch, query |-> req[r].query]
     IN  /\ \/ /\ derived' = [derived EXCEPT ![DerivedKey(entry.query)] = entry]
               /\ UNCHANGED failures
            \/ Fails /\ UNCHANGED derived
         /\ req' = [req EXCEPT ![r].pc = "answered", ![r].answer = entry]
  /\ UNCHANGED <<today, base, table, job, count, published, late, clean>>

EndRequest(r) ==
  /\ req[r].pc = "answered"
  /\ req' = [req EXCEPT ![r] = NoRequest]
  /\ UNCHANGED <<today, base, derived, table, job, count, published, late, clean, failures>>
-----------------------------------------------------------------------------
(* A key reaches its time to live. *)
ExpireBase ==
  /\ \E d \in Days : base[d] # None /\ base' = [base EXCEPT ![d] = None]
  /\ UNCHANGED <<today, derived, table, job, count, published, late, clean, req, failures>>

ExpireDerived(k) ==
  /\ derived[k] # None
  /\ derived' = [derived EXCEPT ![k] = None]
  /\ UNCHANGED <<today, base, table, job, count, published, late, clean, req, failures>>

Midnight ==
  /\ today < MaxDay
  /\ today' = today + 1
  /\ UNCHANGED <<base, derived, table, job, count, published, late, clean, req, failures>>

Crash ==
  /\ Fails
  /\ job' = NoRun
  /\ req' = [r \in Readers |-> NoRequest]
  /\ UNCHANGED <<today, base, derived, table, count, published, late, clean>>

Job == \/ StartRun \/ CacheHit \/ CacheMiss \/ Compute \/ Publish \/ CommitRun
       \/ RunRaises \/ Purge \/ FinishRun

Request(r) == Ask(r) \/ LookupDerived(r) \/ LookupBase(r) \/ StoreDerived(r) \/ EndRequest(r)

Next == \/ Job
        \/ \E r \in Readers : Request(r)
        \/ \E k \in DerivedKeys : ExpireDerived(k)
        \/ ExpireBase \/ Midnight \/ Crash

Spec == Init /\ [][Next]_vars

-----------------------------------------------------------------------------
Answered(r) == req[r].pc = "answered" /\ req[r].answer # None

JobState == [pc : {"idle", "lookup", "compute", "publish", "commit", "purge"}, day : Days,
             batch : Batch \cup {None}, todo : SUBSET DerivedKeys]

RequestState == [pc : {"idle", "derived", "base", "store", "answered"},
                 query : Queries \cup {None}, day : Days, batch : Batch \cup {None},
                 newest : 0..MaxBatches, answer : Entry \cup {None}]

TypeOK ==
  /\ today \in Days
  /\ base \in [Days -> Batch \cup {None}]
  /\ derived \in [DerivedKeys -> Entry \cup {None}]
  /\ table \subseteq Batch
  /\ job \in JobState
  /\ count \in 0..MaxBatches /\ published \in 0..MaxBatches
  /\ late \subseteq DerivedKeys
  /\ clean \in BOOLEAN
  /\ req \in [Readers -> RequestState]
  /\ failures \in 0..MaxFailures

(***************************************************************************)
(* A request without parameters never gets the list of another day, nor    *)
(* one older than what was published when it came in, whatever run is       *)
(* under way (REQ-FILTER-005: it behaves as before the derived keys).       *)
(***************************************************************************)
DefaultIsCurrent ==
  \A r \in Readers : Answered(r) /\ IsDefault(req[r].query) =>
    /\ req[r].answer.query = req[r].query
    /\ req[r].answer.batch.day = req[r].day
    /\ req[r].answer.batch.no >= req[r].newest

(***************************************************************************)
(* Once a run has ended in order, every filtered list left in the cache is  *)
(* of the newest published batch: what was stored before or during the run, *)
(* of an older batch, of an earlier day, or left by a purge that failed, is *)
(* gone.  The one exception: invalidate_derived does not know of requests   *)
(* under way, so a request that had read its list when the run published,   *)
(* or was asked on another day, can store an older one after the scan.      *)
(***************************************************************************)
CleanRunPurges ==
  clean => \A k \in DerivedKeys \ late :
             derived[k] # None => derived[k].batch.no = published

(***************************************************************************)
(* Without a failing call, every list anyone is answered with is in the    *)
(* table or about to be committed by the run that is under way, although   *)
(* it is cached before the commit and the answer may outlive the cache.     *)
(***************************************************************************)
UnstoredOnlyAfterFailure ==
  \A r \in Readers : Answered(r) /\ failures = 0 =>
    req[r].answer.batch \in table \cup {job.batch}
=============================================================================
