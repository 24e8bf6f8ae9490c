--------------------------- MODULE FiguresProofs ---------------------------
(***************************************************************************)
(* Theorems about the modules that compute figures, for any constants:     *)
(* what the status of a backtest says of its rows and what its figures are, *)
(* how recent a dividend is, and that the averages of the two portfolio    *)
(* reports lie among what they average.                                    *)
(*                                                                         *)
(* Sums, products and peaks are recursive over a series or a set.  What     *)
(* they are is proved by induction about a set of numbers or subsets, which *)
(* rests on the well-foundedness of < on Nat.                               *)
(***************************************************************************)
EXTENDS Backtests, PortfolioReports, FiniteSetTheorems, WellFoundedInduction, TLAPS

(***************************************************************************)
(* Induction, in the form the proofs below apply it: about a set.           *)
(***************************************************************************)
LEMMA NaturalInduction ==
  ASSUME NEW G, 0 \in G, \A n \in Nat : n \in G => n + 1 \in G
  PROVE  Nat \subseteq G
<1> SUFFICES ASSUME Nat \ G # {} PROVE FALSE
  OBVIOUS
<1>1. PICK m \in Nat \ G : \A y \in Nat \ G : ~ (<<y, m>> \in OpToRel(<, Nat))
  BY NatLessThanWellFounded, WFMin
<1>2. m \in Nat \ G /\ \A y \in Nat \ G : ~ (y < m)
  BY <1>1 DEF OpToRel
<1>3. m # 0 /\ m - 1 \in Nat /\ m - 1 \notin G
  BY <1>2
<1> QED
  BY <1>2, <1>3

LEMMA FiniteInduction ==
  ASSUME NEW S, IsFiniteSet(S), NEW G,
         \A T \in SUBSET S : (\A x \in T : T \ {x} \in G) => T \in G
  PROVE  SUBSET S \subseteq G
<1> DEFINE H == {n \in Nat : \A T \in SUBSET S : Cardinality(T) = n => T \in G}
<1>1. \A T \in SUBSET S : IsFiniteSet(T) /\ Cardinality(T) \in Nat
  BY FS_Subset, FS_CardinalityType
<1>2. 0 \in H
  BY <1>1, FS_EmptySet
<1>3. ASSUME NEW n \in Nat, n \in H PROVE n + 1 \in H
  <2> SUFFICES ASSUME NEW T \in SUBSET S, Cardinality(T) = n + 1 PROVE T \in G
    OBVIOUS
  <2>1. \A x \in T : Cardinality(T \ {x}) = n
    BY <1>1, FS_RemoveElement
  <2> QED
    BY <1>3, <2>1
<1> HIDE DEF H
<1>4. Nat \subseteq H
  BY <1>2, <1>3, NaturalInduction
<1> QED
  BY <1>1, <1>4 DEF H

(***************************************************************************)
(* The sum of a function over a finite set adds its values one by one.      *)
(***************************************************************************)
Last(T) == CHOOSE x \in T : TRUE

Adds(g, f, U) == \A T \in U : g[T] = IF T = {} THEN 0 ELSE f[Last(T)] + g[T \ {Last(T)}]

LEMMA SumsExist ==
  ASSUME NEW S, IsFiniteSet(S), NEW f \in [S -> Int]
  PROVE  \E g \in [SUBSET S -> Int] : Adds(g, f, SUBSET S)
<1> DEFINE Small(n) == {T \in SUBSET S : Cardinality(T) =< n}
           H == {n \in Nat : \E g \in [Small(n) -> Int] : Adds(g, f, Small(n))}
<1>1. \A T \in SUBSET S : /\ IsFiniteSet(T) /\ Cardinality(T) \in Nat
                          /\ Cardinality(T) =< Cardinality(S) /\ (Cardinality(T) = 0 <=> T = {})
  BY FS_Subset, FS_CardinalityType, FS_EmptySet
<1>2. 0 \in H
  <2>1. Small(0) = {{}}
    BY <1>1, FS_EmptySet
  <2> DEFINE g == [T \in {{}} |-> 0]
  <2>2. g \in [{{}} -> Int] /\ Adds(g, f, {{}})
    BY DEF Adds
  <2> HIDE DEF g
  <2> QED
    BY <2>1, <2>2
<1>3. ASSUME NEW n \in Nat, n \in H PROVE n + 1 \in H
  <2>1. PICK g \in [Small(n) -> Int] : Adds(g, f, Small(n))
    BY <1>3
  <2> DEFINE h == [T \in Small(n + 1) |-> IF T = {} THEN 0 ELSE f[Last(T)] + g[T \ {Last(T)}]]
  <2>2. ASSUME NEW T \in Small(n + 1), T # {}
        PROVE  Last(T) \in T /\ T \ {Last(T)} \in Small(n) /\ T \ {Last(T)} \in Small(n + 1)
    <3>1. Last(T) \in T
      BY <2>2 DEF Last
    <3>2. Cardinality(T \ {Last(T)}) = Cardinality(T) - 1
      BY <1>1, <3>1, FS_RemoveElement
    <3>3. Cardinality(T) =< n + 1 /\ T \in SUBSET S /\ Cardinality(T) \in Nat
      BY <1>1
    <3> QED
      BY <3>1, <3>2, <3>3
  <2>3. ASSUME NEW T \in Small(n) PROVE h[T] = g[T] /\ T \in Small(n + 1)
    <3>1. T \in Small(n + 1)
      BY <1>1
    <3> QED
      BY <2>1, <2>3, <3>1 DEF Adds
  <2> HIDE DEF Small
  <2>4. ASSUME NEW T \in Small(n + 1), T # {}
        PROVE  f[Last(T)] \in Int /\ g[T \ {Last(T)}] \in Int
    <3>1. Last(T) \in S
      BY <2>2, <2>4 DEF Small
    <3>2. T \ {Last(T)} \in Small(n)
      BY <2>2, <2>4
    <3> QED
      BY <3>1, <3>2
  <2>5. h \in [Small(n + 1) -> Int]
    <3>1. ASSUME NEW T \in Small(n + 1)
          PROVE  h[T] \in Int
      <4>1. CASE T = {}
        BY <4>1
      <4>2. CASE T # {}
        <5>1. h[T] = f[Last(T)] + g[T \ {Last(T)}]
          BY <4>2
        <5>2. f[Last(T)] \in Int /\ g[T \ {Last(T)}] \in Int
          BY <2>4, <4>2
        <5> HIDE DEF h
        <5> QED
          BY <5>1, <5>2
      <4> QED
        BY <4>1, <4>2
    <3> QED
      BY <3>1
  <2>6. ASSUME NEW T \in Small(n + 1)
        PROVE  h[T] = IF T = {} THEN 0 ELSE f[Last(T)] + h[T \ {Last(T)}]
    <3>1. T # {} => h[T \ {Last(T)}] = g[T \ {Last(T)}]
      BY <2>2, <2>3
    <3> QED
      BY <3>1
  <2> HIDE DEF h
  <2> QED
    <3>1. Adds(h, f, Small(n + 1))
      BY <2>6 DEF Adds
    <3> QED
      BY <2>5, <3>1
<1> HIDE DEF H
<1>4. Cardinality(S) \in H
  BY <1>1, <1>2, <1>3, NaturalInduction
<1>5. Small(Cardinality(S)) = SUBSET S
  BY <1>1
<1> QED
  BY <1>4, <1>5 DEF H

LEMMA SumIsUnique ==
  ASSUME NEW S, IsFiniteSet(S), NEW f, NEW g, NEW h, Adds(g, f, SUBSET S), Adds(h, f, SUBSET S)
  PROVE  g[S] = h[S]
<1> DEFINE Same == {T \in SUBSET S : g[T] = h[T]}
<1>1. \A T \in SUBSET S : T # {} => Last(T) \in T
  BY DEF Last
<1>2. ASSUME NEW T \in SUBSET S, \A x \in T : T \ {x} \in Same PROVE T \in Same
  <2>1. CASE T = {}
    BY <2>1 DEF Adds
  <2>2. CASE T # {}
    <3>1. g[T \ {Last(T)}] = h[T \ {Last(T)}]
      BY <1>1, <1>2, <2>2
    <3>2. g[T] = f[Last(T)] + g[T \ {Last(T)}] /\ h[T] = f[Last(T)] + h[T \ {Last(T)}]
      BY <2>2 DEF Adds
    <3> QED
      BY <3>1, <3>2
  <2> QED
    BY <2>1, <2>2
<1> HIDE DEF Same
<1>3. SUBSET S \subseteq Same
  BY <1>2, FiniteInduction
<1> QED
  BY <1>3 DEF Same

LEMMA SumIsSum ==
  ASSUME NEW S, IsFiniteSet(S), NEW f \in [S -> Int]
  PROVE  \E g \in [SUBSET S -> Int] : Adds(g, f, SUBSET S) /\ SumFunction(f) = g[S]
<1> DEFINE Solves(g) == g = [T \in SUBSET S |-> IF T = {} THEN 0 ELSE f[Last(T)] + g[T \ {Last(T)}]]
           s == CHOOSE g : Solves(g)
<1>1. SumFunction(f) = s[S]
  BY DEF SumFunction, SumFunctionOnSet, FoldFunctionOnSet, MapThenFoldSet, Last
<1>2. PICK g \in [SUBSET S -> Int] : Adds(g, f, SUBSET S)
  BY SumsExist
<1>3. Solves(g)
  BY <1>2 DEF Adds
<1>4. Solves(s)
  BY <1>3
<1> HIDE DEF s
<1>5. Adds(s, f, SUBSET S)
  BY <1>4 DEF Adds
<1> QED
  BY <1>1, <1>2, <1>5, SumIsUnique

LEMMA AddedCompare ==
  ASSUME NEW S, IsFiniteSet(S), S # {}, NEW f \in [S -> Int], NEW h \in [S -> Int],
         NEW a \in Int, NEW b \in Int, \A x \in S : a * h[x] < b * f[x],
         NEW F, Adds(F, f, SUBSET S), \A T \in SUBSET S : F[T] \in Int,
         NEW H, Adds(H, h, SUBSET S), \A T \in SUBSET S : H[T] \in Int
  PROVE  a * H[S] < b * F[S]
<1> DEFINE Less == {T \in SUBSET S : T # {} => a * H[T] < b * F[T]}
<1>1. ASSUME NEW T \in SUBSET S, \A x \in T : T \ {x} \in Less PROVE T \in Less
  <2> SUFFICES ASSUME T # {} PROVE a * H[T] < b * F[T]
    OBVIOUS
  <2> DEFINE x == Last(T)
             R == T \ {x}
  <2>1. x \in T /\ x \in S
    BY DEF Last
  <2>2. F[T] = f[x] + F[R] /\ H[T] = h[x] + H[R]
    BY DEF Adds
  <2>3. R = {} => F[R] = 0 /\ H[R] = 0
    BY DEF Adds
  <2>4. R # {} => a * H[R] < b * F[R]
    BY <1>1, <2>1
  <2>5. f[x] \in Int /\ h[x] \in Int /\ F[R] \in Int /\ H[R] \in Int /\ a * h[x] < b * f[x]
    BY <2>1
  <2> HIDE DEF x, R
  <2>6. a * H[R] =< b * F[R]
    BY <2>3, <2>4, <2>5
  <2>7. a * (h[x] + H[R]) = a * h[x] + a * H[R] /\ b * (f[x] + F[R]) = b * f[x] + b * F[R]
    BY <2>5
  <2> QED
    BY <2>2, <2>5, <2>6, <2>7
<1> HIDE DEF Less
<1>2. SUBSET S \subseteq Less
  BY <1>1, FiniteInduction
<1> QED
  BY <1>2 DEF Less

LEMMA SumsCompare ==
  ASSUME NEW S, IsFiniteSet(S), S # {}, NEW f \in [S -> Int], NEW h \in [S -> Int],
         NEW a \in Int, NEW b \in Int, \A x \in S : a * h[x] < b * f[x]
  PROVE  /\ SumFunction(f) \in Int /\ SumFunction(h) \in Int
         /\ a * SumFunction(h) < b * SumFunction(f)
<1>1. PICK F \in [SUBSET S -> Int] : Adds(F, f, SUBSET S) /\ SumFunction(f) = F[S]
  BY SumIsSum
<1>2. PICK H \in [SUBSET S -> Int] : Adds(H, h, SUBSET S) /\ SumFunction(h) = H[S]
  BY SumIsSum
<1> QED
  BY <1>1, <1>2, AddedCompare

-----------------------------------------------------------------------------
(* Values and typing. *)
Info == Infos \cup {Empty}

Looked == [slot : Slots, row : Rows, info : Info]

Request == [todo : SUBSET [slot : Slots, row : Rows], got : SUBSET Looked,
            stores : [code : Codes, info : Info] \cup {Nothing}, busy : BOOLEAN]

(* What a request in flight has listed of a stock is the current listing and
   whatever it has on its way into the cache. *)
ListedByRequest(r) ==
  /\ req[r].todo # {} => req[r].busy
  /\ req[r].busy => \A c \in Codes : Extract(listing[c]) \in listed[r][c]
  /\ req[r].stores # Nothing => req[r].busy /\ req[r].stores.info \in listed[r][req[r].stores.code]

Listings == [Codes -> SUBSET Info]

ReportsInv ==
  /\ holdings \in [Slots -> Rows \cup {Nothing}]
  /\ listing \in [Codes -> Infos]
  /\ cached \in [Codes -> Info \cup {Nothing}]
  /\ listed \in [Readers -> Listings]
  /\ carried \in Listings
  /\ req \in [Readers -> Request]
  /\ \A r \in Readers : IsFiniteSet(req[r].got) /\ ListedByRequest(r)
  /\ DividendIsRecent

LEMMA ExtractIsInfo == \A i \in Infos : Extract(i) \in Info
BY DEF Extract, Info

LEMMA HoldingsAreRows ==
  ASSUME ReportsInv
  PROVE  /\ IsFiniteSet(Held)
         /\ \A h \in Held : h \in Slots /\ holdings[h] \in Rows
BY ReportsAssumption, FS_Subset DEF Held, ReportsInv

(* A step of one request that leaves the cache and the listing alone. *)
LEMMA ReportStep ==
  ASSUME ReportsInv, NEW r \in Readers, NEW q \in Request, NEW l \in Listings, IsFiniteSet(q.got),
         q.todo # {} => q.busy,
         q.busy => \A c \in Codes : Extract(listing[c]) \in l[c],
         q.stores # Nothing => q.busy /\ q.stores.info \in l[q.stores.code],
         req' = [req EXCEPT ![r] = q], listed' = [listed EXCEPT ![r] = l],
         UNCHANGED listing
  PROVE  /\ req' \in [Readers -> Request]
         /\ listed' \in [Readers -> Listings]
         /\ \A x \in Readers : IsFiniteSet(req'[x].got) /\ ListedByRequest(x)'
<1>1. req'[r] = q /\ listed'[r] = l
  BY DEF ReportsInv
<1>2. \A x \in Readers \ {r} : req'[x] = req[x] /\ listed'[x] = listed[x]
  BY DEF ReportsInv
<1>3. req' \in [Readers -> Request] /\ listed' \in [Readers -> Listings]
  BY DEF ReportsInv
<1>4. IsFiniteSet(req'[r].got) /\ ListedByRequest(r)'
  BY <1>1 DEF ListedByRequest
<1>5. ASSUME NEW x \in Readers \ {r} PROVE IsFiniteSet(req'[x].got) /\ ListedByRequest(x)'
  BY <1>2 DEF ReportsInv, ListedByRequest
<1> QED
  BY <1>3, <1>4, <1>5

LEMMA ReaderActs ==
  ASSUME ReportsInv, NEW r \in Readers,
         AskDividends(r) \/ HitDividend(r) \/ FetchDividend(r) \/ StoreDividend(r) \/ AnswerDividends(r)
  PROVE  ReportsInv'
<1> USE DEF ReportsInv
<1> DEFINE Q(q) == q \in Request /\ IsFiniteSet(q.got)
<1>1. /\ req[r] \in Request /\ IsFiniteSet(req[r].got) /\ ListedByRequest(r)
      /\ Idle \in Request /\ listed[r] \in Listings
  BY FS_EmptySet DEF Idle, Request
<1>2. Idle.stores = Nothing /\ Idle.got = {} /\ Idle.todo = {} /\ ~ Idle.busy
  BY DEF Idle
<1>3. \A h \in req[r].todo, i \in Info :
        LET q == Got(r, h, i)
        IN  /\ Q(q) /\ q.stores = req[r].stores /\ q.busy = req[r].busy /\ req[r].busy
            /\ h.row.krx_code \in Codes
  <2> SUFFICES ASSUME NEW h \in req[r].todo, NEW i \in Info
               PROVE  LET q == Got(r, h, i)
                      IN  /\ Q(q) /\ q.stores = req[r].stores /\ q.busy = req[r].busy /\ req[r].busy
                          /\ h.row.krx_code \in Codes
    OBVIOUS
  <2>1. h \in [slot : Slots, row : Rows] /\ req[r].busy
    BY <1>1 DEF Request, ListedByRequest
  <2>2. [slot |-> h.slot, row |-> h.row, info |-> i] \in Looked
    BY <2>1 DEF Looked
  <2>3. h.row.krx_code \in Codes
    BY <2>1, ReportsAssumption
  <2> DEFINE x == [slot |-> h.slot, row |-> h.row, info |-> i]
             q == Got(r, h, i)
  <2>4. /\ q \in Request /\ q.got = req[r].got \cup {x} /\ q.stores = req[r].stores
        /\ q.busy = req[r].busy
    BY <1>1, <2>2 DEF Got, Request
  <2>5. IsFiniteSet(req[r].got \cup {x})
    BY <1>1, FS_AddElement
  <2> QED
    BY <2>1, <2>3, <2>4, <2>5
<1>4. CASE AskDividends(r)
  <2> DEFINE todo == {[slot |-> h, row |-> holdings[h]] : h \in Held}
             q == [Idle EXCEPT !.busy = TRUE, !.todo = todo]
             l == [c \in Codes |-> {Extract(listing[c])}]
  <2>1. todo \subseteq [slot : Slots, row : Rows]
    BY HoldingsAreRows
  <2>2. req' = [req EXCEPT ![r] = q] /\ listed' = [listed EXCEPT ![r] = l]
        /\ UNCHANGED <<holdings, listing, cached, carried>>
    BY <1>4 DEF AskDividends
  <2>3. l \in Listings /\ \A c \in Codes : Extract(listing[c]) \in l[c]
    BY ExtractIsInfo DEF Listings
  <2> HIDE DEF todo, l
  <2>4. q \in Request /\ q.got = Idle.got /\ q.stores = Idle.stores /\ q.busy
    BY <1>1, <2>1 DEF Request
  <2> HIDE DEF q
  <2> QED
    BY <1>2, <2>2, <2>3, <2>4, ReportStep, FS_EmptySet DEF DividendIsRecent
<1>5. CASE HitDividend(r)
  <2>1. PICK h \in req[r].todo : /\ cached[h.row.krx_code] # Nothing
                                 /\ req' = [req EXCEPT ![r] = Got(r, h, cached[h.row.krx_code])]
    BY <1>5 DEF HitDividend
  <2>2. cached[h.row.krx_code] \in Info
    <3>1. h.row.krx_code \in Codes
      BY <1>1, ReportsAssumption DEF Request
    <3> QED
      BY <2>1, <3>1
  <2>3. UNCHANGED <<holdings, listing, cached, listed, carried>> /\ req[r].stores = Nothing
    BY <1>5 DEF HitDividend
  <2> DEFINE q == Got(r, h, cached[h.row.krx_code])
  <2>4. Q(q) /\ q.stores = Nothing /\ q.busy /\ req[r].busy
    BY <1>3, <2>2, <2>3
  <2>5. req' = [req EXCEPT ![r] = q] /\ listed' = [listed EXCEPT ![r] = listed[r]]
    BY <2>1, <2>3
  <2> HIDE DEF q
  <2> QED
    BY <1>1, <2>3, <2>4, <2>5, ReportStep DEF ListedByRequest, DividendIsRecent
<1>6. CASE FetchDividend(r)
  <2>1. PICK h \in req[r].todo, failed \in BOOLEAN :
          LET c == h.row.krx_code
              i == IF failed THEN Empty ELSE Extract(listing[c])
          IN  /\ req' = [req EXCEPT ![r] = [Got(r, h, i) EXCEPT !.stores = [code |-> c, info |-> i]]]
              /\ listed' = [listed EXCEPT ![r][c] = @ \cup {i}]
              /\ UNCHANGED <<holdings, listing, cached, carried>>
    BY <1>6 DEF FetchDividend
  <2> DEFINE c == h.row.krx_code
             i == IF failed THEN Empty ELSE Extract(listing[c])
             q == [Got(r, h, i) EXCEPT !.stores = [code |-> c, info |-> i]]
             l == [listed[r] EXCEPT ![c] = @ \cup {i}]
  <2>2. c \in Codes
    BY <1>1, ReportsAssumption DEF Request
  <2>3. i \in Info
    BY <2>2, ExtractIsInfo DEF Info
  <2>4. /\ req' = [req EXCEPT ![r] = q] /\ listed' = [listed EXCEPT ![r] = l]
        /\ UNCHANGED <<holdings, listing, cached, carried>>
    BY <2>1
  <2> HIDE DEF i, c
  <2>5. l \in Listings /\ i \in l[c] /\ \A d \in Codes : listed[r][d] \subseteq l[d]
    BY <1>1, <2>2, <2>3 DEF Listings
  <2>6. Q(Got(r, h, i)) /\ Got(r, h, i).busy /\ req[r].busy
    BY <1>3, <2>3
  <2>7. Q(q) /\ q.stores = [code |-> c, info |-> i] /\ q.busy
    BY <2>2, <2>3, <2>6 DEF Request
  <2> HIDE DEF q, l
  <2>8. \A d \in Codes : Extract(listing[d]) \in l[d]
    BY <1>1, <2>5, <2>6 DEF ListedByRequest
  <2>9. q.stores # Nothing => q.stores.info \in l[q.stores.code]
    BY <2>5, <2>7
  <2> QED
    BY <2>4, <2>5, <2>7, <2>8, <2>9, ReportStep DEF DividendIsRecent
<1>7. CASE StoreDividend(r)
  <2> DEFINE q == [req[r] EXCEPT !.stores = Nothing]
             c == req[r].stores.code
  <2>1. q \in Request /\ q.got = req[r].got /\ q.stores = Nothing /\ q.busy = req[r].busy /\ q.todo = req[r].todo
    BY <1>1 DEF Request
  <2>2. req' = [req EXCEPT ![r] = q] /\ UNCHANGED <<holdings, listing, listed>>
    BY <1>7 DEF StoreDividend
  <2>3. /\ req[r].stores \in [code : Codes, info : Info] /\ req[r].stores.info \in listed[r][c] /\ c \in Codes
    BY <1>1, <1>7 DEF StoreDividend, Request, ListedByRequest
  <2>4. listed' = [listed EXCEPT ![r] = listed[r]]
    BY <2>2
  <2>5. /\ cached' \in [Codes -> Info \cup {Nothing}] /\ carried' \in Listings /\ DividendIsRecent'
    <3>1. CASE cached' = [cached EXCEPT ![c] = req[r].stores.info] /\ carried' = [carried EXCEPT ![c] = listed[r][c]]
      BY <1>1, <2>3, <3>1 DEF DividendIsRecent, Listings
    <3>2. CASE UNCHANGED <<cached, carried>>
      BY <3>2 DEF DividendIsRecent
    <3> QED
      BY <1>7, <3>1, <3>2 DEF StoreDividend
  <2> HIDE DEF q, c
  <2>6. (q.todo # {} => q.busy) /\ (q.busy => \A d \in Codes : Extract(listing[d]) \in listed[r][d])
    BY <1>1, <2>1 DEF ListedByRequest
  <2>7. /\ req' \in [Readers -> Request]
        /\ listed' \in [Readers -> Listings]
        /\ \A x \in Readers : IsFiniteSet(req'[x].got) /\ ListedByRequest(x)'
    BY <1>1, <2>1, <2>2, <2>4, <2>6, ReportStep
  <2> QED
    BY <2>2, <2>5, <2>7
<1>8. CASE AnswerDividends(r)
  <2>1. /\ req' = [req EXCEPT ![r] = Idle] /\ listed' = [listed EXCEPT ![r] = NothingListed]
        /\ UNCHANGED <<holdings, listing, cached, carried>>
    BY <1>8 DEF AnswerDividends
  <2>2. NothingListed \in Listings
    BY DEF NothingListed, Listings
  <2> QED
    BY <1>1, <1>2, <2>1, <2>2, ReportStep, FS_EmptySet DEF DividendIsRecent
<1> QED
  BY <1>4, <1>5, <1>6, <1>7, <1>8

(***************************************************************************)
(* The invariant of the reports holds whatever requests, changes of the    *)
(* holdings and of the listing, failures and expiries overlap.             *)
(***************************************************************************)
THEOREM ReportsInvHolds == ReportsSpec => []ReportsInv
<1>1. ReportsInit => ReportsInv
  <2> SUFFICES ASSUME ReportsInit PROVE ReportsInv
    OBVIOUS
  <2>1. Idle \in Request /\ Idle.got = {} /\ Idle.stores = Nothing /\ Idle.todo = {} /\ ~ Idle.busy
    BY DEF Idle, Request
  <2>2. \A c \in Codes : cached[c] = Nothing
    BY DEF ReportsInit
  <2>3. \A r \in Readers : req[r] = Idle
    BY DEF ReportsInit
  <2>4. DividendIsRecent /\ \A r \in Readers : ListedByRequest(r)
    BY <2>1, <2>2, <2>3 DEF ListedByRequest, DividendIsRecent
  <2>5. NothingListed \in Listings
    BY DEF NothingListed, Listings
  <2> QED
    BY <2>1, <2>3, <2>4, <2>5, FS_EmptySet DEF ReportsInit, ReportsInv
<1>2. ReportsInv /\ [ReportsNext]_reportsVars => ReportsInv'
  <2> SUFFICES ASSUME ReportsInv, [ReportsNext]_reportsVars PROVE ReportsInv'
    OBVIOUS
  <2>1. CASE ChangeHoldings
    BY <2>1 DEF ChangeHoldings, ReportsInv, ListedByRequest, DividendIsRecent
  <2>2. CASE AskPerformance
    BY <2>2 DEF AskPerformance, ReportsInv, ListedByRequest, DividendIsRecent
  <2>3. ASSUME NEW c \in Codes, DividendExpires(c) PROVE ReportsInv'
    <3>1. /\ cached' = [cached EXCEPT ![c] = Nothing] /\ carried' = [carried EXCEPT ![c] = {}]
          /\ UNCHANGED <<holdings, listing, listed, req>>
      BY <2>3 DEF DividendExpires
    <3>2. cached' \in [Codes -> Info \cup {Nothing}] /\ carried' \in Listings /\ DividendIsRecent'
      BY <3>1 DEF ReportsInv, DividendIsRecent, Listings
    <3> QED
      BY <3>1, <3>2 DEF ReportsInv, ListedByRequest
  <2>4. ASSUME NEW c \in Codes, ListingChanges(c) PROVE ReportsInv'
    <3> DEFINE l(r) == [listed[r] EXCEPT ![c] = IF req[r].busy THEN @ \cup {Extract(listing[c]')} ELSE @]
    <3>1. PICK i \in Infos : listing' = [listing EXCEPT ![c] = i]
      BY <2>4 DEF ListingChanges
    <3>2. listed' = [r \in Readers |-> l(r)] /\ UNCHANGED <<holdings, cached, carried, req>>
      BY <2>4 DEF ListingChanges
    <3>3. listing' \in [Codes -> Infos] /\ listing'[c] = i /\ \A d \in Codes \ {c} : listing'[d] = listing[d]
      BY <3>1 DEF ReportsInv
    <3>4. ASSUME NEW r \in Readers
          PROVE  /\ l(r) \in Listings /\ \A d \in Codes : listed[r][d] \subseteq l(r)[d]
                 /\ req[r].busy => Extract(listing'[c]) \in l(r)[c]
      BY <3>3, ExtractIsInfo DEF ReportsInv, Listings
    <3> HIDE DEF l
    <3>5. ASSUME NEW r \in Readers PROVE ListedByRequest(r)'
      <4>1. ListedByRequest(r) /\ req'[r] = req[r] /\ listed'[r] = l(r) /\ req[r] \in Request
        BY <3>2 DEF ReportsInv
      <4>2. req[r].busy => \A d \in Codes : Extract(listing'[d]) \in l(r)[d]
        BY <3>3, <3>4, <4>1 DEF ListedByRequest
      <4>3. req[r].stores # Nothing => req[r].stores.info \in l(r)[req[r].stores.code]
        BY <3>4, <4>1 DEF ListedByRequest, Request
      <4> QED
        BY <4>1, <4>2, <4>3 DEF ListedByRequest
    <3>6. listed' \in [Readers -> Listings]
      BY <3>2, <3>4
    <3> QED
      BY <3>2, <3>3, <3>5, <3>6 DEF ReportsInv, DividendIsRecent
  <2>5. CASE UNCHANGED reportsVars
    BY <2>5 DEF reportsVars, ReportsInv, ListedByRequest, DividendIsRecent
  <2> QED
    BY <2>1, <2>2, <2>3, <2>4, <2>5, ReaderActs DEF ReportsNext
<1> QED
  BY <1>1, <1>2, PTL DEF ReportsSpec

(***************************************************************************)
(* A failure or an old value of the listing outlives the request that      *)
(* stored it by one time to live at most, whatever the requests in flight: *)
(* none that hits it prolongs its life.                                     *)
(***************************************************************************)
THEOREM DividendRecent == ReportsSpec => []DividendIsRecent
<1>1. ReportsInv => DividendIsRecent
  BY DEF ReportsInv
<1> QED
  BY <1>1, ReportsInvHolds, PTL
-----------------------------------------------------------------------------
(***************************************************************************)
(* Of two sums over a set, the one divided by the other is no less than the *)
(* quotient of some values and no more than that of others.                 *)
(***************************************************************************)
LEMMA MeanLies ==
  ASSUME NEW S, IsFiniteSet(S), S # {}, NEW f \in [S -> Int], NEW h \in [S -> Int]
  PROVE  /\ SumFunction(f) \in Int /\ SumFunction(h) \in Int
         /\ \E x \in S : f[x] * SumFunction(h) =< SumFunction(f) * h[x]
         /\ \E x \in S : SumFunction(f) * h[x] =< f[x] * SumFunction(h)
<1> DEFINE F == SumFunction(f)
           H == SumFunction(h)
<1>1. F \in Int /\ H \in Int
  <2>1. PICK sums \in [SUBSET S -> Int] : F = sums[S]
    BY SumIsSum
  <2>2. PICK summed \in [SUBSET S -> Int] : H = summed[S]
    BY SumIsSum
  <2> QED
    BY <2>1, <2>2
<1> HIDE DEF F, H
<1>2. ASSUME \A x \in S : F * h[x] < H * f[x] PROVE FALSE
  <2>1. F * H < H * F
    BY <1>1, <1>2, SumsCompare DEF F, H
  <2> QED
    BY <1>1, <2>1
<1>3. ASSUME \A x \in S : H * f[x] < F * h[x] PROVE FALSE
  <2>1. H * F < F * H
    BY <1>1, <1>3, SumsCompare DEF F, H
  <2> QED
    BY <1>1, <2>1
<1>4. \A x \in S : f[x] \in Int /\ h[x] \in Int
  OBVIOUS
<1>5. \A x \in S : (~ (f[x] * H =< F * h[x]) => F * h[x] < H * f[x]) /\ (~ (F * h[x] =< f[x] * H) => H * f[x] < F * h[x])
  BY <1>1, <1>4
<1> QED
  BY <1>1, <1>2, <1>3, <1>5 DEF F, H

(* The part of a report that a row is, and what it says. *)
Part(price, h) == [slot |-> h, row |-> holdings[h], current |-> Current(holdings[h], price[h])]

LEMMA PartsAreNumbers ==
  ASSUME ReportsInv, NEW price \in [Held -> Prices \cup {Nothing}], NEW h \in Held
  PROVE  Part(price, h).current \in Int /\ Invested(Part(price, h).row) \in Int
<1>1. holdings[h] \in [krx_code : Codes, quantity : Nat \ {0}, avg_buy_price : Nat \ {0}]
  BY HoldingsAreRows, ReportsAssumption
<1>2. price[h] \in Prices \cup {Nothing} /\ Prices \subseteq Nat
  BY ReportsAssumption
<1>3. /\ holdings[h].quantity \in Int /\ holdings[h].avg_buy_price \in Int
      /\ price[h] # Nothing => price[h] \in Int
  <2>1. holdings[h].quantity \in Nat \ {0} /\ holdings[h].avg_buy_price \in Nat \ {0}
    BY <1>1
  <2>2. price[h] # Nothing => price[h] \in Nat
    BY <1>2
  <2> QED
    BY <2>1, <2>2
<1>4. Current(holdings[h], price[h]) \in Int /\ Invested(holdings[h]) \in Int
  BY <1>3 DEF Current, Invested
<1> QED
  BY <1>4 DEF Part

LEMMA PartsLie ==
  ASSUME ReportsInv, NEW price \in [Held -> Prices \cup {Nothing}], NEW H \in SUBSET Held, H # {},
         NEW P, P = {Part(price, h) : h \in H}
  PROVE  LET now == SumFunction([p \in P |-> p.current])
             paid == SumFunction([p \in P |-> Invested(p.row)])
         IN  /\ \E h \in H : AtMost(Current(holdings[h], price[h]), Invested(holdings[h]), now, paid)
             /\ \E h \in H : AtMost(now, paid, Current(holdings[h], price[h]), Invested(holdings[h]))
<1> DEFINE s == [h \in H |-> Part(price, h)]
           f == [p \in P |-> p.current]
           g == [p \in P |-> Invested(p.row)]
<1>1. IsFiniteSet(H)
  BY HoldingsAreRows, FS_Subset
<1>2. s \in Surjection(H, P)
  BY DEF Surjection
<1>3. IsFiniteSet(P) /\ P # {}
  <2> HIDE DEF s
  <2>1. IsFiniteSet(P)
    BY <1>1, <1>2, FS_Surjection
  <2>2. P # {}
    OBVIOUS
  <2> QED
    BY <2>1, <2>2
<1>4. \A p \in P : p.current \in Int /\ Invested(p.row) \in Int
  BY PartsAreNumbers
<1>5. f \in [P -> Int] /\ g \in [P -> Int]
  BY <1>4
<1>6. \A h \in H : LET p == Part(price, h) IN
        p \in P /\ f[p] = Current(holdings[h], price[h]) /\ g[p] = Invested(holdings[h])
  BY DEF Part
<1>7. \A p \in P : \E h \in H : p = Part(price, h)
  OBVIOUS
<1> HIDE DEF f, g
<1>8. /\ \E p \in P : f[p] * SumFunction(g) =< SumFunction(f) * g[p]
      /\ \E p \in P : SumFunction(f) * g[p] =< f[p] * SumFunction(g)
  BY <1>3, <1>5, MeanLies
<1>9. \E h \in H : AtMost(Current(holdings[h], price[h]), Invested(holdings[h]), SumFunction(f), SumFunction(g))
  BY <1>6, <1>7, <1>8 DEF AtMost
<1>10. \E h \in H : AtMost(SumFunction(f), SumFunction(g), Current(holdings[h], price[h]), Invested(holdings[h]))
  BY <1>6, <1>7, <1>8 DEF AtMost
<1> QED
  BY <1>9, <1>10 DEF f, g

LEMMA PerformanceLies ==
  ASSUME ReportsInv, NEW price \in [Held -> Prices \cup {Nothing}]
  PROVE  LET a == Performance(price)
         IN  /\ a.kind = "performance"
             /\ ReturnLies(a, a.total, DOMAIN a.price)
             /\ \A x \in Sectors :
                  ReturnLies(a, a.sectors[x], {h \in DOMAIN a.price : get_sector[a.rows[h].krx_code] = x})
<1> DEFINE a == Performance(price)
           P == {Part(price, h) : h \in Held}
           Now(S) == SumFunction([p \in S |-> p.current])
           Paid(S) == SumFunction([p \in S |-> Invested(p.row)])
<1>1. /\ a.kind = "performance" /\ a.price = price /\ a.rows = holdings
      /\ a.total.current = Now(P) /\ a.total.invested = Paid(P)
      /\ \A x \in Sectors : a.sectors[x].current = Now(Sector(P, x)) /\ a.sectors[x].invested = Paid(Sector(P, x))
  BY DEF Performance, Part
<1> HIDE DEF a, Now, Paid
<1>2. ASSUME NEW H \in SUBSET Held, NEW sum, NEW S, S = {Part(price, h) : h \in H},
             sum.current = Now(S), sum.invested = Paid(S)
      PROVE  ReturnLies(a, sum, H)
  <2>1. H # {} => /\ \E h \in H : AtMost(Current(holdings[h], price[h]), Invested(holdings[h]), Now(S), Paid(S))
                  /\ \E h \in H : AtMost(Now(S), Paid(S), Current(holdings[h], price[h]), Invested(holdings[h]))
    BY <1>2, PartsLie DEF Now, Paid
  <2> QED
    BY <1>1, <1>2, <2>1 DEF ReturnLies
<1>3. ReturnLies(a, a.total, DOMAIN a.price)
  BY <1>1, <1>2
<1>4. ASSUME NEW x \in Sectors
      PROVE  ReturnLies(a, a.sectors[x], {h \in DOMAIN a.price : get_sector[a.rows[h].krx_code] = x})
  <2> DEFINE H == {h \in Held : get_sector[holdings[h].krx_code] = x}
  <2>1. Sector(P, x) = {Part(price, h) : h \in H}
    BY DEF Sector, Part
  <2>2. ReturnLies(a, a.sectors[x], H)
    <3>1. H \in SUBSET Held
      OBVIOUS
    <3> HIDE DEF H, P
    <3> QED
      BY <1>1, <1>2, <2>1, <3>1
  <2>3. H = {h \in DOMAIN a.price : get_sector[a.rows[h].krx_code] = x}
    BY <1>1
  <2> QED
    BY <2>2, <2>3
<1> QED
  BY <1>1, <1>3, <1>4 DEF a

LEMMA DividendsLie ==
  ASSUME NEW got \in SUBSET Looked, IsFiniteSet(got)
  PROVE  LET a == Dividends(got) IN a.kind = "dividends" /\ YieldLies(a)
<1> DEFINE a == Dividends(got)
           S == Yielding(got)
           f == [g \in S |-> Yield(g) * Invested(g.row)]
           h == [g \in S |-> Invested(g.row)]
<1>1. a.kind = "dividends" /\ a.got = got /\ a.weighted = SumFunction(f) /\ a.weight = SumFunction(h)
  BY DEF Dividends
<1>2. S = {g \in a.got : g.info.dividend_yield # Nothing}
  BY <1>1 DEF Yielding
<1>3. ASSUME NEW g \in S PROVE Yield(g) \in Int /\ Invested(g.row) \in Nat \ {0}
  <2>1. g.row \in Rows /\ g.info \in Infos \cup {Empty} /\ g.info.dividend_yield # Nothing
    BY <1>3 DEF Yielding, Looked, Info
  <2>2. g.info \in Infos
    BY <2>1 DEF Empty
  <2>3. g.info.dividend_yield \in Nat
    BY <2>1, <2>2, ReportsAssumption
  <2>4. g.row.quantity \in Nat \ {0} /\ g.row.avg_buy_price \in Nat \ {0}
    BY <2>1, ReportsAssumption
  <2> QED
    BY <2>1, <2>3, <2>4 DEF Yield, Invested
<1>4. S \subseteq got
  BY DEF Yielding
<1>5. IsFiniteSet(S)
  BY <1>4, FS_Subset
<1> HIDE DEF a, S
<1>6. f \in [S -> Int] /\ h \in [S -> Int] /\ \A g \in S : f[g] = Yield(g) * h[g] /\ h[g] \in Nat \ {0}
  BY <1>3
<1> HIDE DEF f, h
<1>7. ASSUME S # {}
      PROVE  /\ \E g \in S : a.weighted >= Yield(g) * a.weight
             /\ \E g \in S : a.weighted =< Yield(g) * a.weight
  <2> DEFINE F == SumFunction(f)
             H == SumFunction(h)
  <2>1. /\ F \in Int /\ H \in Int
        /\ \E g \in S : f[g] * H =< F * h[g]
        /\ \E g \in S : F * h[g] =< f[g] * H
    BY <1>5, <1>6, <1>7, MeanLies
  <2> HIDE DEF F, H
  <2>2. ASSUME NEW y \in Int, NEW n \in Nat \ {0}
        PROVE  /\ (y * n) * H =< F * n => F >= y * H
               /\ F * n =< (y * n) * H => F =< y * H
    <3>1. (y * n) * H = (y * H) * n /\ y * H \in Int
      BY <2>1
    <3>2. \A u, v \in Int : u * n =< v * n => u =< v
      OBVIOUS
    <3> QED
      BY <2>1, <3>1, <3>2
  <2>3. \A g \in S : (f[g] * H =< F * h[g] => F >= Yield(g) * H) /\ (F * h[g] =< f[g] * H => F =< Yield(g) * H)
    BY <1>3, <1>6, <2>2
  <2>4. a.weighted = F /\ a.weight = H
    BY <1>1 DEF F, H
  <2> QED
    BY <2>1, <2>3, <2>4
<1> QED
  BY <1>1, <1>2, <1>7 DEF a, YieldLies

(***************************************************************************)
(* An average of a report lies among what it averages, for any holdings,   *)
(* prices and listing.                                                     *)
(***************************************************************************)
THEOREM AveragesLie == ReportsSpec => []AveragesLieWithin
<1>1. ReportsInit => AveragesLieWithin
  BY DEF ReportsInit, AveragesLieWithin, NoReport
<1>2. ReportsInv /\ AveragesLieWithin /\ [ReportsNext]_reportsVars => AveragesLieWithin'
  <2> SUFFICES ASSUME ReportsInv, AveragesLieWithin, [ReportsNext]_reportsVars PROVE AveragesLieWithin'
    OBVIOUS
  <2>1. CASE AskPerformance
    <3>1. PICK price \in [Held -> Prices \cup {Nothing}] : answer' = Performance(price)
      BY <2>1 DEF AskPerformance
    <3>2. /\ answer'.kind = "performance"
          /\ ReturnLies(answer', answer'.total, DOMAIN answer'.price)
          /\ \A x \in Sectors :
               ReturnLies(answer', answer'.sectors[x], {h \in DOMAIN answer'.price : get_sector[answer'.rows[h].krx_code] = x})
      BY <3>1, PerformanceLies
    <3> QED
      BY <3>2 DEF AveragesLieWithin
  <2>2. ASSUME NEW r \in Readers, AnswerDividends(r) PROVE AveragesLieWithin'
    <3>1. req[r].got \in SUBSET Looked /\ IsFiniteSet(req[r].got)
      BY DEF ReportsInv, Request
    <3>2. answer'.kind = "dividends" /\ YieldLies(answer')
      BY <2>2, <3>1, DividendsLie DEF AnswerDividends
    <3> QED
      BY <3>2 DEF AveragesLieWithin
  <2>3. CASE UNCHANGED answer
    BY <2>3 DEF AveragesLieWithin, ReturnLies, YieldLies
  <2>4. CASE answer' = NoReport
    BY <2>4 DEF AveragesLieWithin, NoReport
  <2>5. \/ AskPerformance \/ UNCHANGED answer \/ answer' = NoReport
        \/ \E r \in Readers : AnswerDividends(r)
    BY DEF ReportsNext, reportsVars, ChangeHoldings, AskDividends, HitDividend, FetchDividend,
           StoreDividend, DividendExpires, ListingChanges
  <2> QED
    BY <2>1, <2>2, <2>3, <2>4, <2>5
<1> QED
  BY <1>1, <1>2, ReportsInvHolds, PTL DEF ReportsSpec
-----------------------------------------------------------------------------
Data == UNION {[S -> Series] : S \in SUBSET Stocks}

Pos == Nat \ {0}
Frac == Pos \X Pos

Row == [trade_date : Nat, krx_code : Stocks, signal : {"buy", "sell", "hold"},
        growth : Frac]

Typed ==
  /\ runs \in [Runs -> Run]
  /\ results \in [Runs -> SUBSET Row]
  /\ task \in [Runs -> TaskStates]
  /\ found \in [Runs -> Data \cup {<<>>}]
  /\ failures \in 0..MaxFailures

(* Where the task is, the status is known, and whether the rows are there. *)
StepTellsStatus(r) ==
  /\ task[r] = "starting" => runs[r].status = "pending"
  /\ task[r] \in {"prices", "benchmark", "save", "raised"} =>
       runs[r].status = "running" /\ results[r] = {}
  /\ task[r] \in {"benchmark", "save"} => found[r] \in Data
  /\ task[r] = "finish" =>
       runs[r].status = "running" /\ results[r] = TradeRecords(runs[r].strategy, found[r])

StatusTells(r) ==
  /\ runs[r].status \in {Absent, "failed", "done"} => task[r] = "none"
  /\ runs[r].status \in {Absent, "pending", "failed"} => results[r] = {}
  /\ runs[r].status = "done" => results[r] = TradeRecords(runs[r].strategy, found[r])

RunInv(r) == StepTellsStatus(r) /\ StatusTells(r)

Inv == Typed /\ \A r \in Runs : RunInv(r)

(***************************************************************************)
(* The strategies: every row is a row, in particular the day before its    *)
(* date has a price to divide by.                                          *)
(***************************************************************************)
LEMMA RowIsTyped ==
  ASSUME NEW c \in Stocks, NEW s \in Series, NEW i \in DOMAIN s, i > 1,
         NEW signal \in {"buy", "sell", "hold"}
  PROVE  RowOf(c, s, i, signal) \in Row
<1> DEFINE P == [close : Nat \ {0}, volume : Nat \ {0}]
<1>1. s \in Seq(P)
  BY BacktestsAssumption
<1> HIDE DEF P
<1>2. i \in Nat /\ i - 1 \in DOMAIN s /\ s[i] \in P /\ s[i - 1] \in P
  BY <1>1
<1>3. s[i].close \in Pos /\ s[i - 1].close \in Pos
  BY <1>2 DEF P, Pos
<1> QED
  BY <1>2, <1>3 DEF RowOf, Row, Frac

LEMMA RecordsAreTyped ==
  ASSUME NEW strategy, NEW data \in Data
  PROVE  TradeRecords(strategy, data) \subseteq Row
<1>1. \A c \in DOMAIN data : c \in Stocks /\ data[c] \in Series
  BY DEF Data
<1>2. ASSUME NEW c \in Stocks, NEW s \in Series PROVE MomentumRows(c, s) \subseteq Row
  <2>1. \A i \in DOMAIN s : i \in Int
    BY BacktestsAssumption
  <2>2. \A i \in DOMAIN s : i > Lookback => i > 1
    BY <2>1, BacktestsAssumption
  <2> QED
    BY <2>2, RowIsTyped DEF MomentumRows
<1>3. ASSUME NEW c \in Stocks, NEW s \in Series PROVE VolumeRows(c, s) \subseteq Row
  <2>1. \A i \in DOMAIN s : i \in Int
    BY BacktestsAssumption
  <2>2. \A i \in DOMAIN s : i >= Lookback => i > 1
    BY <2>1, BacktestsAssumption
  <2> QED
    BY <2>2, RowIsTyped DEF VolumeRows
<1> QED
  BY <1>1, <1>2, <1>3 DEF TradeRecords

(***************************************************************************)
(* One step of one run, which leaves the others alone.                      *)
(***************************************************************************)
LEMMA OneRunSteps ==
  ASSUME Inv, NEW r \in Runs, Typed',
         \A q \in Runs \ {r} : /\ runs'[q] = runs[q] /\ results'[q] = results[q]
                               /\ task'[q] = task[q] /\ found'[q] = found[q],
         RunInv(r)'
  PROVE  Inv'
BY DEF Inv, RunInv, StepTellsStatus, StatusTells

LEMMA RequestStep ==
  ASSUME Inv, NEW r \in Runs, StartBacktest(r) \/ Execute(r)
  PROVE  Inv'
<1>1. CASE StartBacktest(r)
  <2>1. PICK s \in Strategies : runs' = [runs EXCEPT ![r] = [status |-> "pending", strategy |-> s]]
    BY <1>1 DEF StartBacktest
  <2>2. Typed'
    BY <1>1, <2>1, BacktestsAssumption DEF StartBacktest, Inv, Typed, Run
  <2>3. RunInv(r)'
    BY <1>1, <2>1 DEF StartBacktest, Inv, Typed, RunInv, StepTellsStatus, StatusTells, Absent
  <2> QED
    BY <1>1, <2>1, <2>2, <2>3, OneRunSteps DEF StartBacktest
<1>2. CASE Execute(r)
  <2>1. Typed'
    BY <1>2 DEF Execute, Inv, Typed, TaskStates
  <2>2. RunInv(r)'
    BY <1>2 DEF Execute, Inv, Typed, RunInv, StepTellsStatus, StatusTells, Absent
  <2> QED
    BY <1>2, <2>1, <2>2, OneRunSteps DEF Execute, Inv, Typed
<1> QED
  BY <1>1, <1>2

(***************************************************************************)
(* run_backtest.                                                            *)
(***************************************************************************)
LEMMA TaskStep ==
  ASSUME Inv, NEW r \in Runs,
         \/ SetRunning(r) \/ FetchPrices(r) \/ FetchBenchmark(r) \/ ComputationRaises(r)
         \/ SaveResults(r) \/ Finish(r) \/ MarkFailed(r)
  PROVE  Inv'
<1>1. Typed /\ RunInv(r)
  BY DEF Inv
<1>2. CASE SetRunning(r)
  <2>1. Typed'
    BY <1>1, <1>2 DEF SetRunning, SetStatus, Typed, Run, TaskStates
  <2>2. RunInv(r)'
    BY <1>1, <1>2 DEF SetRunning, SetStatus, Typed, Run, RunInv, StepTellsStatus, StatusTells, Absent
  <2> QED
    BY <1>1, <1>2, <2>1, <2>2, OneRunSteps DEF SetRunning, SetStatus, Typed
<1>3. CASE FetchPrices(r)
  <2>1. PICK d \in Data : found' = [found EXCEPT ![r] = d]
    BY <1>3 DEF FetchPrices, Data
  <2>2. Typed'
    BY <1>1, <1>3, <2>1 DEF FetchPrices, Typed, TaskStates
  <2>3. RunInv(r)'
    BY <1>1, <1>3, <2>1 DEF FetchPrices, Typed, RunInv, StepTellsStatus, StatusTells, Absent
  <2> QED
    BY <1>1, <1>3, <2>1, <2>2, <2>3, OneRunSteps DEF FetchPrices, Typed
<1>4. CASE FetchBenchmark(r) \/ ComputationRaises(r)
  <2>1. Typed'
    BY <1>1, <1>4 DEF FetchBenchmark, ComputationRaises, Typed, TaskStates
  <2>2. RunInv(r)'
    BY <1>1, <1>4
    DEF FetchBenchmark, ComputationRaises, Typed, RunInv, StepTellsStatus, StatusTells, Absent
  <2> QED
    BY <1>1, <1>4, <2>1, <2>2, OneRunSteps DEF FetchBenchmark, ComputationRaises, Typed
<1>5. CASE SaveResults(r)
  <2>1. TradeRecords(runs[r].strategy, found[r]) \subseteq Row
    BY <1>1, <1>5, RecordsAreTyped DEF RunInv, StepTellsStatus, SaveResults
  <2>2. Typed'
    BY <1>1, <1>5, <2>1 DEF SaveResults, Typed, TaskStates
  <2>3. RunInv(r)'
    BY <1>1, <1>5 DEF SaveResults, Typed, RunInv, StepTellsStatus, StatusTells, Absent
  <2> QED
    BY <1>1, <1>5, <2>2, <2>3, OneRunSteps DEF SaveResults, Typed
<1>6. CASE Finish(r)
  <2>1. Typed'
    BY <1>1, <1>6 DEF Finish, SetStatus, Typed, Run, TaskStates
  <2>2. RunInv(r)'
    BY <1>1, <1>6 DEF Finish, SetStatus, Typed, Run, RunInv, StepTellsStatus, StatusTells, Absent
  <2> QED
    BY <1>1, <1>6, <2>1, <2>2, OneRunSteps DEF Finish, SetStatus, Typed
<1>7. CASE MarkFailed(r)
  <2>1. Typed'
    BY <1>1, <1>7 DEF MarkFailed, SetStatus, Typed, Run, TaskStates
  <2>2. RunInv(r)'
    BY <1>1, <1>7 DEF MarkFailed, SetStatus, Typed, Run, RunInv, StepTellsStatus, StatusTells, Absent
  <2> QED
    BY <1>1, <1>7, <2>1, <2>2, OneRunSteps DEF MarkFailed, SetStatus, Typed
<1> QED
  BY <1>2, <1>3, <1>4, <1>5, <1>6, <1>7

LEMMA FailureStep ==
  ASSUME Inv, NEW r \in Runs, DatabaseFails(r)
  PROVE  Inv'
<1>1. Typed /\ RunInv(r)
  BY DEF Inv
<1>2. failures' \in 0..MaxFailures
  BY <1>1, BacktestsAssumption DEF DatabaseFails, Failure, Typed
<1>3. task' = [task EXCEPT ![r] = "none"] /\ UNCHANGED found
      /\ task[r] \in {"starting", "save", "finish", "raised"}
  BY DEF DatabaseFails
<1>4. CASE UNCHANGED <<runs, results>>
  <2>1. Typed' /\ RunInv(r)'
    BY <1>1, <1>2, <1>3, <1>4
    DEF Typed, TaskStates, RunInv, StepTellsStatus, StatusTells, Absent
  <2> QED
    BY <1>1, <1>3, <1>4, <2>1, OneRunSteps DEF Typed
<1>5. CASE /\ task[r] = "save" /\ UNCHANGED runs
           /\ results' = [results EXCEPT ![r] = @ \cup TradeRecords(runs[r].strategy, found[r])]
  <2>1. TradeRecords(runs[r].strategy, found[r]) \subseteq Row
    BY <1>1, <1>5, RecordsAreTyped DEF RunInv, StepTellsStatus
  <2>2. Typed'
    BY <1>1, <1>2, <1>3, <1>5, <2>1 DEF Typed, TaskStates
  <2>3. RunInv(r)'
    BY <1>1, <1>3, <1>5 DEF Typed, RunInv, StepTellsStatus, StatusTells, Absent
  <2> QED
    BY <1>1, <1>3, <1>5, <2>2, <2>3, OneRunSteps DEF Typed
<1>6. CASE task[r] = "finish" /\ SetStatus(r, "done") /\ UNCHANGED results
  <2>1. Typed'
    BY <1>1, <1>2, <1>3, <1>6 DEF SetStatus, Typed, Run, TaskStates
  <2>2. RunInv(r)'
    BY <1>1, <1>3, <1>6 DEF SetStatus, Typed, Run, RunInv, StepTellsStatus, StatusTells, Absent
  <2> QED
    BY <1>1, <1>3, <1>6, <2>1, <2>2, OneRunSteps DEF SetStatus, Typed
<1> QED
  BY <1>4, <1>5, <1>6 DEF DatabaseFails

LEMMA RestartStep == Inv /\ Restart => Inv'
<1> SUFFICES ASSUME Inv, Restart PROVE Inv'
  OBVIOUS
<1>1. failures' \in 0..MaxFailures
  BY BacktestsAssumption DEF Inv, Typed, Restart, Failure
<1>2. Typed'
  BY <1>1 DEF Inv, Typed, Restart, TaskStates
<1>3. \A r \in Runs : RunInv(r)'
  BY DEF Inv, Restart, RunInv, StepTellsStatus, StatusTells, Absent
<1> QED
  BY <1>2, <1>3 DEF Inv

-----------------------------------------------------------------------------
(***************************************************************************)
(* The invariant holds whatever runs, failures and restarts overlap.        *)
(***************************************************************************)
THEOREM InvHolds == Spec => []Inv
<1>1. Init => Inv
  BY BacktestsAssumption
  DEF Init, Inv, Typed, Run, TaskStates, RunInv, StepTellsStatus, StatusTells, Absent
<1>2. Inv /\ [Next]_vars => Inv'
  <2> SUFFICES ASSUME Inv, [Next]_vars PROVE Inv'
    OBVIOUS
  <2>1. ASSUME NEW r \in Runs, StartBacktest(r) \/ Execute(r) \/ RunBacktest(r) PROVE Inv'
    BY <2>1, RequestStep, TaskStep, FailureStep DEF RunBacktest
  <2>2. CASE Restart
    BY <2>2, RestartStep
  <2>3. CASE UNCHANGED vars
    BY <2>3 DEF vars, Inv, Typed, RunInv, StepTellsStatus, StatusTells
  <2> QED
    BY <2>1, <2>2, <2>3 DEF Next
<1> QED
  BY <1>1, <1>2, PTL DEF Spec

(***************************************************************************)
(* Type correctness: in particular every row a run stores is of a stock of *)
(* the universe, and its growth a fraction of two positive numbers.        *)
(***************************************************************************)
THEOREM TypeCorrect == Spec => []TypeOK
<1>1. Inv => TypeOK
  BY DEF Inv, Typed, TypeOK, Row, Frac, Pos
<1> QED
  BY <1>1, InvHolds, PTL

(***************************************************************************)
(* What get_run and get_results read of a run that says "done" is all of    *)
(* its rows; of a run that has not begun or failed there is none.           *)
(***************************************************************************)
THEOREM StatusIsTrue == Spec => []StatusTellsRows
<1>1. Inv => StatusTellsRows
  BY DEF Inv, RunInv, StatusTells, StatusTellsRows
<1> QED
  BY <1>1, InvHolds, PTL
-----------------------------------------------------------------------------
(***************************************************************************)
(* The order of positive fractions.                                         *)
(***************************************************************************)
LEMMA Cancel ==
  ASSUME NEW x \in Int, NEW y \in Int, NEW n \in Pos
  PROVE  x * n =< y * n <=> x =< y
BY DEF Pos

LEMMA Positive ==
  ASSUME NEW a \in Frac, NEW b \in Frac
  PROVE  /\ a[1] \in Pos /\ a[2] \in Pos /\ a = <<a[1], a[2]>>
         /\ a[1] * b[1] \in Pos /\ a[1] * b[2] \in Pos /\ a[2] * b[1] \in Pos /\ a[2] * b[2] \in Pos
<1>1. a[1] \in Pos /\ a[2] \in Pos /\ b[1] \in Pos /\ b[2] \in Pos /\ a = <<a[1], a[2]>>
  BY DEF Frac
<1>2. \A x, y \in Pos : x * y \in Pos
  BY DEF Pos
<1> QED
  BY <1>1, <1>2

LEMMA OperationsGiveFractions ==
  ASSUME NEW a \in Frac, NEW b \in Frac
  PROVE  Times(a, b) \in Frac /\ Ratio(a, b) \in Frac
BY Positive DEF Times, Ratio, Frac

LEMMA OrderIsTransitive ==
  ASSUME NEW a \in Frac, NEW b \in Frac, NEW c \in Frac, LessEq(a, b), LessEq(b, c)
  PROVE  LessEq(a, c)
<1> DEFINE a1 == a[1] a2 == a[2] b1 == b[1] b2 == b[2] c1 == c[1] c2 == c[2]
<1>1. a1 \in Pos /\ a2 \in Pos /\ b1 \in Pos /\ b2 \in Pos /\ c1 \in Pos /\ c2 \in Pos
  BY Positive
<1>2. a1 * b2 =< b1 * a2 /\ b1 * c2 =< c1 * b2
  BY DEF LessEq
<1> HIDE DEF a1, a2, b1, b2, c1, c2
<1>3. a1 * b2 \in Int /\ b1 * a2 \in Int /\ b1 * c2 \in Int /\ c1 * b2 \in Int /\ a1 * c2 \in Int /\ c1 * a2 \in Int
  BY <1>1 DEF Pos
<1>4. (a1 * b2) * c2 =< (b1 * a2) * c2 /\ (b1 * c2) * a2 =< (c1 * b2) * a2
  BY <1>1, <1>2, <1>3, Cancel
<1>5. /\ (a1 * b2) * c2 = (a1 * c2) * b2 /\ (b1 * a2) * c2 = (b1 * c2) * a2
      /\ (c1 * b2) * a2 = (c1 * a2) * b2
      /\ (b1 * c2) * a2 \in Int /\ (a1 * c2) * b2 \in Int /\ (c1 * a2) * b2 \in Int
  BY <1>1 DEF Pos
<1>6. (a1 * c2) * b2 =< (c1 * a2) * b2
  BY <1>4, <1>5
<1>7. a1 * c2 =< c1 * a2
  BY <1>1, <1>3, <1>6, Cancel
<1> QED
  BY <1>7 DEF LessEq, a1, a2, c1, c2

LEMMA OrderIsTotal ==
  ASSUME NEW a \in Frac, NEW b \in Frac
  PROVE  /\ ~ LessEq(a, b) => LessEq(b, a)
         /\ LessEq(a, a) /\ SameAs(a, a)
<1>1. a[1] * b[2] \in Int /\ b[1] * a[2] \in Int /\ a[1] * a[2] \in Int
  BY Positive DEF Pos
<1> QED
  BY <1>1 DEF LessEq, SameAs

(* The smaller what is fallen from, the smaller the fall. *)
LEMMA RatioFalls ==
  ASSUME NEW a \in Frac, NEW b \in Frac, NEW c \in Frac, LessEq(b, c)
  PROVE  LessEq(Ratio(a, c), Ratio(a, b))
<1> DEFINE a1 == a[1] a2 == a[2] b1 == b[1] b2 == b[2] c1 == c[1] c2 == c[2]
<1>1. a1 \in Pos /\ a2 \in Pos /\ b1 \in Pos /\ b2 \in Pos /\ c1 \in Pos /\ c2 \in Pos
  BY Positive
<1>2. b1 * c2 =< c1 * b2
  BY DEF LessEq
<1> HIDE DEF a1, a2, b1, b2, c1, c2
<1>3. b1 * c2 \in Int /\ c1 * b2 \in Int /\ a1 * a2 \in Pos
  BY <1>1 DEF Pos
<1>4. (b1 * c2) * (a1 * a2) =< (c1 * b2) * (a1 * a2)
  BY <1>2, <1>3, Cancel
<1>5. (a1 * c2) * (a2 * b1) = (b1 * c2) * (a1 * a2) /\ (a1 * b2) * (a2 * c1) = (c1 * b2) * (a1 * a2)
  BY <1>1 DEF Pos
<1>6. (a1 * c2) * (a2 * b1) =< (a1 * b2) * (a2 * c1)
  BY <1>4, <1>5
<1> QED
  BY <1>6 DEF LessEq, Ratio, a1, a2, b1, b2, c1, c2

LEMMA RatioToItself ==
  ASSUME NEW a \in Frac
  PROVE  LessEq(One, Ratio(a, a)) /\ SameAs(One, Ratio(a, a)) /\ One \in Frac
<1>1. a[1] \in Nat /\ a[2] \in Nat /\ a[1] * a[2] \in Nat /\ a[2] * a[1] = a[1] * a[2]
  BY Positive DEF Pos
<1>2. One \in Frac
  BY DEF One, Frac, Pos
<1> QED
  BY <1>1, <1>2 DEF LessEq, SameAs, Ratio, One

(***************************************************************************)
(* A function that is defined from one index to the next exists.            *)
(***************************************************************************)
LEMMA IntervalInduction ==
  ASSUME NEW a \in Nat, NEW b \in Nat, NEW G, a \in G,
         \A i \in a..b : i # a /\ i - 1 \in G => i \in G
  PROVE  a..b \subseteq G
<1> DEFINE H == {n \in Nat : a + n =< b => a + n \in G}
<1>1. 0 \in H
  OBVIOUS
<1>2. ASSUME NEW n \in Nat, n \in H PROVE n + 1 \in H
  <2> SUFFICES ASSUME a + (n + 1) =< b PROVE a + (n + 1) \in G
    OBVIOUS
  <2>1. a + (n + 1) \in a..b /\ a + (n + 1) # a /\ (a + (n + 1)) - 1 = a + n /\ a + n \in G
    BY <1>2
  <2> QED
    BY <2>1
<1> HIDE DEF H
<1>3. Nat \subseteq H
  BY <1>1, <1>2, NaturalInduction
<1>4. \A i \in a..b : i - a \in Nat /\ a + (i - a) = i /\ i =< b
  OBVIOUS
<1> QED
  BY <1>3, <1>4 DEF H

Follows(g, a, b, v0, step) == g[a] = v0 /\ \A i \in a..b : i # a => g[i] = step[<<i, g[i - 1]>>]

LEMMA Recursion ==
  ASSUME NEW a \in Nat, NEW b \in Nat, a =< b,
         NEW V, NEW v0, v0 \in V, NEW step, step \in [Nat \X V -> V]
  PROVE  \E g \in [a..b -> V] : Follows(g, a, b, v0, step)
<1> DEFINE Solves(g, n) == g[a] = v0 /\ \A i \in a..(a + n) : i # a => g[i] = step[<<i, g[i - 1]>>]
           H == {n \in Nat : \E g \in [a..(a + n) -> V] : Solves(g, n)}
<1>1. 0 \in H
  <2> DEFINE g == [i \in a..(a + 0) |-> v0]
  <2>1. g \in [a..(a + 0) -> V] /\ g[a] = v0 /\ \A i \in a..(a + 0) : i = a
    OBVIOUS
  <2> HIDE DEF g
  <2> QED
    BY <2>1
<1>2. ASSUME NEW n \in Nat, n \in H PROVE n + 1 \in H
  <2>1. PICK g \in [a..(a + n) -> V] : Solves(g, n)
    BY <1>2
  <2> DEFINE last == a + (n + 1)
             h == [i \in a..last |-> IF i = last THEN step[<<last, g[a + n]>>] ELSE g[i]]
  <2>2. last \in Nat /\ last - 1 = a + n /\ a + n \in a..(a + n) /\ \A i \in a..last : i # last => i \in a..(a + n)
    OBVIOUS
  <2>3. g[a + n] \in V
    BY <2>2
  <2>4. step[<<last, g[a + n]>>] \in V
    BY <2>2, <2>3
  <2>5. h \in [a..last -> V]
    BY <2>2, <2>4
  <2>6. h[a] = v0
    BY <2>1
  <2>7. ASSUME NEW i \in a..last, i # a PROVE h[i] = step[<<i, h[i - 1]>>]
    <3>1. i - 1 \in a..last /\ i - 1 # last /\ i - 1 \in a..(a + n)
      BY <2>7
    <3>2. h[i - 1] = g[i - 1]
      BY <3>1
    <3>3. CASE i = last
      BY <2>2, <3>1, <3>2, <3>3
    <3>4. CASE i # last
      BY <2>1, <2>7, <3>1, <3>2, <3>4
    <3> QED
      BY <3>3, <3>4
  <2> HIDE DEF h
  <2> QED
    BY <2>5, <2>6, <2>7
<1> HIDE DEF H
<1>3. b - a \in H /\ a + (b - a) = b
  BY <1>1, <1>2, NaturalInduction
<1> QED
  BY <1>3 DEF H, Follows

LEMMA LengthIs ==
  ASSUME NEW n \in Nat, NEW V, NEW f \in [1..n -> V]
  PROVE  f \in Seq(V) /\ Len(f) = n /\ DOMAIN f = 1..n
OBVIOUS

(***************************************************************************)
(* What the recursive definitions of the figures define.                    *)
(***************************************************************************)
LEMMA CumulativeIs ==
  ASSUME NEW n \in Nat, NEW f \in [1..n -> Frac]
  PROVE  Cumulative(f) \in [1..(n + 1) -> Frac]
<1> DEFINE Solves(g) == g = [i \in 0..n |-> IF i = 0 THEN One ELSE Times(g[i - 1], f[i])]
           s == CHOOSE g : Solves(g)
           step == [p \in Nat \X Frac |-> IF p[1] \in 1..n THEN Times(p[2], f[p[1]]) ELSE p[2]]
<1>1. Len(f) = n
  BY LengthIs
<1>2. Cumulative(f) = [i \in 1..(n + 1) |-> s[i - 1]]
  BY <1>1 DEF Cumulative
<1>3. step \in [Nat \X Frac -> Frac] /\ \A i \in 1..n, a \in Frac : step[<<i, a>>] = Times(a, f[i])
  BY OperationsGiveFractions
<1>4. One \in Frac
  BY RatioToItself DEF One, Frac, Pos
<1> HIDE DEF step
<1>5. PICK g \in [0..n -> Frac] : Follows(g, 0, n, One, step)
  <2>1. n \in Nat /\ One \in Frac /\ step \in [Nat \X Frac -> Frac] /\ 0 =< n /\ 0 \in Nat
    BY <1>3, <1>4
  <2> QED
    BY <2>1, Recursion
<1>6. \A i \in 0..n : i # 0 => i \in 1..n /\ g[i - 1] \in Frac
  OBVIOUS
<1>7. Solves(g)
  <2>1. \A i \in 0..n : g[i] = IF i = 0 THEN One ELSE Times(g[i - 1], f[i])
    BY <1>3, <1>5, <1>6 DEF Follows
  <2> QED
    BY <1>5, <2>1
<1>8. Solves(s)
  BY <1>7
<1> HIDE DEF s
<1>9. /\ s[0] = One
      /\ \A i \in 0..n : i # 0 => s[i] = Times(s[i - 1], f[i])
  BY <1>8
<1> DEFINE Good == {i \in 0..n : s[i] \in Frac}
<1>10. 0 \in Good
  BY <1>4, <1>9
<1>11. ASSUME NEW i \in 0..n, i # 0, i - 1 \in Good PROVE i \in Good
  <2>1. s[i - 1] \in Frac /\ f[i] \in Frac
    BY <1>6, <1>11
  <2> QED
    BY <1>9, <1>11, <2>1, OperationsGiveFractions
<1> HIDE DEF Good
<1>12. 0..n \subseteq Good
  <2>1. 0 \in Nat /\ n \in Nat /\ 0 =< n
    OBVIOUS
  <2> QED
    BY <1>10, <1>11, <2>1, IntervalInduction
<1>13. \A i \in 1..(n + 1) : i - 1 \in 0..n
  OBVIOUS
<1> QED
  BY <1>2, <1>12, <1>13 DEF Good

(* The highest value so far is one of them and no lower than any. *)
LEMMA PeakIs ==
  ASSUME NEW m \in Pos, NEW v \in [1..m -> Frac]
  PROVE  \A i \in 1..m : /\ \E j \in 1..i : Peak(v)[i] = v[j]
                         /\ \A j \in 1..i : LessEq(v[j], Peak(v)[i])
<1> DEFINE Higher(i, a) == IF LessEq(v[i], a) THEN a ELSE v[i]
           Solves(g) == g = [i \in DOMAIN v |-> IF i = 1 THEN v[1] ELSE
                                IF LessEq(v[i], g[i - 1]) THEN g[i - 1] ELSE v[i]]
           s == CHOOSE g : Solves(g)
           step == [p \in Nat \X Frac |-> IF p[1] \in 1..m THEN Higher(p[1], p[2]) ELSE p[2]]
<1>1. Peak(v) = s
  BY DEF Peak
<1>2. step \in [Nat \X Frac -> Frac] /\ \A i \in 1..m, a \in Frac : step[<<i, a>>] = Higher(i, a)
  OBVIOUS
<1>3. 1 \in 1..m /\ 1 \in Nat /\ m \in Nat /\ 1 =< m /\ v[1] \in Frac /\ DOMAIN v = 1..m
  BY DEF Pos
<1> HIDE DEF step
<1>4. PICK g \in [1..m -> Frac] : Follows(g, 1, m, v[1], step)
  BY <1>2, <1>3, Recursion
<1>5. \A i \in 1..m : i # 1 => g[i - 1] \in Frac
  BY <1>3
<1>6. Solves(g)
  <2>1. \A i \in 1..m : g[i] = IF i = 1 THEN v[1] ELSE Higher(i, g[i - 1])
    BY <1>2, <1>4, <1>5 DEF Follows
  <2> QED
    BY <1>3, <1>4, <2>1
<1>7. Solves(s)
  BY <1>6
<1> HIDE DEF s
<1>8. /\ s[1] = v[1]
      /\ \A i \in 1..m : i # 1 => s[i] = Higher(i, s[i - 1])
  BY <1>3, <1>7
<1> DEFINE Good == {i \in 1..m : /\ \E j \in 1..i : s[i] = v[j]
                                 /\ \A j \in 1..i : LessEq(v[j], s[i])}
<1>9. 1 \in Good
  BY <1>3, <1>8, OrderIsTotal
<1>10. ASSUME NEW i \in 1..m, i # 1, i - 1 \in Good PROVE i \in Good
  <2>1. /\ i - 1 \in 1..m /\ \A j \in 1..i : j \in 1..m /\ (j = i \/ j \in 1..(i - 1))
        /\ \A j \in 1..(i - 1) : j \in 1..i
    BY <1>10, <1>3
  <2>2. PICK j \in 1..(i - 1) : s[i - 1] = v[j]
    BY <1>10
  <2>3. s[i - 1] \in Frac /\ v[i] \in Frac /\ \A k \in 1..i : v[k] \in Frac
    BY <2>1, <2>2
  <2>4. CASE LessEq(v[i], s[i - 1])
    <3>1. s[i] = s[i - 1]
      BY <1>8, <1>10, <2>4
    <3> QED
      BY <1>10, <2>1, <2>2, <2>4, <3>1
  <2>5. CASE ~ LessEq(v[i], s[i - 1])
    <3>1. s[i] = v[i] /\ LessEq(s[i - 1], v[i]) /\ LessEq(v[i], v[i])
      BY <1>8, <1>10, <2>3, <2>5, OrderIsTotal
    <3>2. \A k \in 1..(i - 1) : LessEq(v[k], v[i])
      BY <1>10, <2>1, <2>3, <3>1, OrderIsTransitive
    <3> QED
      BY <2>1, <3>1, <3>2
  <2> QED
    BY <2>4, <2>5
<1> HIDE DEF Good
<1>11. 1..m \subseteq Good
  BY <1>3, <1>9, <1>10, IntervalInduction
<1> QED
  BY <1>1, <1>11 DEF Good

(* The worst ratio to the peak is the worst ratio of a value to one before. *)
LEMMA DrawdownIs ==
  ASSUME NEW m \in Pos, NEW v \in [1..m -> Frac]
  PROVE  /\ \A k \in 1..m : \A j \in 1..k : LessEq(Drawdown(v), Ratio(v[k], v[j]))
         /\ \E k \in 1..m : \E j \in 1..k : SameAs(Drawdown(v), Ratio(v[k], v[j]))
<1> DEFINE pk == Peak(v)
           here(i) == Ratio(v[i], pk[i])
           Lower(i, a) == IF LessEq(a, here(i)) THEN a ELSE here(i)
           Solves(g) == g = [i \in DOMAIN v |-> IF i = 1 THEN One ELSE
                                IF LessEq(g[i - 1], Ratio(v[i], Peak(v)[i])) THEN g[i - 1] ELSE Ratio(v[i], Peak(v)[i])]
           s == CHOOSE g : Solves(g)
           step == [p \in Nat \X Frac |-> IF p[1] \in 1..m THEN Lower(p[1], p[2]) ELSE p[2]]
<1>1. 1 \in 1..m /\ m \in 1..m /\ 1 \in Nat /\ m \in Nat /\ 1 =< m /\ DOMAIN v = 1..m /\ Len(v) = m
  BY LengthIs DEF Pos
<1>2. Drawdown(v) = s[m]
  BY <1>1 DEF Drawdown
<1>3. \A i \in 1..m : /\ v[i] \in Frac /\ pk[i] \in Frac /\ here(i) \in Frac
                      /\ \E j \in 1..i : pk[i] = v[j]
                      /\ \A j \in 1..i : j \in 1..m /\ v[j] \in Frac /\ LessEq(v[j], pk[i])
  <2> SUFFICES ASSUME NEW i \in 1..m
               PROVE  /\ v[i] \in Frac /\ pk[i] \in Frac /\ here(i) \in Frac
                      /\ \E j \in 1..i : pk[i] = v[j]
                      /\ \A j \in 1..i : j \in 1..m /\ v[j] \in Frac /\ LessEq(v[j], pk[i])
    OBVIOUS
  <2>1. \A j \in 1..i : j \in 1..m /\ v[j] \in Frac
    BY <1>1
  <2>2. (\E j \in 1..i : pk[i] = v[j]) /\ \A j \in 1..i : LessEq(v[j], pk[i])
    BY PeakIs
  <2>3. pk[i] \in Frac
    BY <2>1, <2>2
  <2> HIDE DEF pk
  <2> QED
    BY <2>1, <2>2, <2>3, OperationsGiveFractions
<1> HIDE DEF pk
<1>4. step \in [Nat \X Frac -> Frac] /\ \A i \in 1..m, a \in Frac : step[<<i, a>>] = Lower(i, a)
  BY <1>3
<1>5. One \in Frac
  BY DEF One, Frac, Pos
<1> HIDE DEF step
<1>6. PICK g \in [1..m -> Frac] : Follows(g, 1, m, One, step)
  BY <1>1, <1>4, <1>5, Recursion
<1>7. \A i \in 1..m : i # 1 => g[i - 1] \in Frac
  BY <1>1
<1>8. Solves(g)
  <2>1. \A i \in 1..m : g[i] = IF i = 1 THEN One ELSE Lower(i, g[i - 1])
    BY <1>4, <1>6, <1>7 DEF Follows
  <2> QED
    BY <1>1, <1>6, <2>1 DEF pk
<1>9. Solves(s)
  BY <1>8
<1> HIDE DEF s
<1>10. /\ s[1] = One
       /\ \A i \in 1..m : i # 1 => s[i] = Lower(i, s[i - 1])
  BY <1>1, <1>9 DEF pk
<1> DEFINE Good == {i \in 1..m : /\ s[i] \in Frac
                                 /\ \E k \in 1..i : \E j \in 1..k : SameAs(s[i], Ratio(v[k], v[j]))
                                 /\ \A k \in 1..i : \A j \in 1..k : LessEq(s[i], Ratio(v[k], v[j]))}
<1>11. 1 \in Good
  <2>1. \A k \in 1..1 : k = 1
    OBVIOUS
  <2>2. LessEq(One, Ratio(v[1], v[1])) /\ SameAs(One, Ratio(v[1], v[1]))
    BY <1>1, <1>3, RatioToItself
  <2> QED
    BY <1>1, <1>5, <1>10, <2>1, <2>2
<1>12. ASSUME NEW i \in 1..m, i # 1, i - 1 \in Good PROVE i \in Good
  <2>1. /\ i - 1 \in 1..m /\ i \in 1..i /\ \A k \in 1..i : k = i \/ k \in 1..(i - 1)
        /\ \A k \in 1..(i - 1) : k \in 1..i
    BY <1>12, <1>1
  <2>2. s[i - 1] \in Frac /\ here(i) \in Frac /\ s[i] = Lower(i, s[i - 1])
    BY <1>3, <1>10, <1>12
  <2>3. \A j \in 1..i : /\ LessEq(here(i), Ratio(v[i], v[j])) /\ Ratio(v[i], v[j]) \in Frac
    BY <1>3, RatioFalls, OperationsGiveFractions
  <2>4. \A k \in 1..(i - 1) : \A j \in 1..k : /\ LessEq(s[i - 1], Ratio(v[k], v[j]))
                                              /\ Ratio(v[k], v[j]) \in Frac
    <3> SUFFICES ASSUME NEW k \in 1..(i - 1), NEW j \in 1..k
                 PROVE  LessEq(s[i - 1], Ratio(v[k], v[j])) /\ Ratio(v[k], v[j]) \in Frac
      OBVIOUS
    <3>1. k \in 1..m /\ j \in 1..m
      BY <1>1
    <3> QED
      BY <1>12, <1>3, <3>1, OperationsGiveFractions
  <2>5. CASE LessEq(s[i - 1], here(i))
    <3>1. s[i] = s[i - 1]
      BY <2>2, <2>5
    <3>2. \A j \in 1..i : LessEq(s[i], Ratio(v[i], v[j]))
      BY <2>2, <2>3, <2>5, <3>1, OrderIsTransitive
    <3>3. \A k \in 1..i : \A j \in 1..k : LessEq(s[i], Ratio(v[k], v[j]))
      BY <2>1, <2>4, <3>1, <3>2
    <3>4. \E k \in 1..i : \E j \in 1..k : SameAs(s[i], Ratio(v[k], v[j]))
      BY <1>12, <2>1, <3>1
    <3> QED
      BY <2>2, <3>1, <3>3, <3>4
  <2>6. CASE ~ LessEq(s[i - 1], here(i))
    <3>1. s[i] = here(i) /\ LessEq(here(i), s[i - 1])
      BY <2>2, <2>6, OrderIsTotal
    <3> HIDE DEF here
    <3>2. \A k \in 1..(i - 1) : \A j \in 1..k : LessEq(s[i], Ratio(v[k], v[j]))
      BY <2>2, <2>4, <3>1, OrderIsTransitive
    <3>3. \A k \in 1..i : \A j \in 1..k : LessEq(s[i], Ratio(v[k], v[j]))
      BY <2>1, <2>3, <3>1, <3>2
    <3>4. PICK j \in 1..i : pk[i] = v[j]
      BY <1>3
    <3>5. SameAs(s[i], Ratio(v[i], v[j]))
      BY <2>2, <3>1, <3>4, OrderIsTotal DEF here
    <3> QED
      BY <2>1, <2>2, <3>1, <3>3, <3>5
  <2> QED
    BY <2>5, <2>6
<1> HIDE DEF Good
<1>13. 1..m \subseteq Good
  BY <1>1, <1>11, <1>12, IntervalInduction
<1>14. m \in Good
  BY <1>1, <1>13
<1> QED
  BY <1>2, <1>14 DEF Good

(***************************************************************************)
(* The order of the rows: a rank belongs to one row, and each row has one.  *)
(***************************************************************************)
Rows1Day(S) == \A x, y \in S : x.trade_date = y.trade_date /\ x.krx_code = y.krx_code => x = y

Rank(S, x) == Cardinality({y \in S : Before(y, x)})

LEMMA BeforeOrders ==
  ASSUME NEW S \in SUBSET Row, Rows1Day(S)
  PROVE  /\ \A x \in S : ~ Before(x, x)
         /\ \A x, y \in S : x # y => Before(x, y) \/ Before(y, x)
         /\ \A x, y, z \in S : Before(x, y) /\ Before(y, z) => Before(x, z)
<1>1. \A x \in S : x.trade_date \in Nat /\ x.krx_code \in Stocks
  BY DEF Row
<1>2. \A x \in S : Place[x.krx_code] \in Nat
  BY <1>1, BacktestsAssumption
<1>3. \A x, y \in S : x # y => x.trade_date # y.trade_date \/ Place[x.krx_code] # Place[y.krx_code]
  BY <1>1, BacktestsAssumption DEF Rows1Day
<1> QED
  BY <1>1, <1>2, <1>3 DEF Before

LEMMA RanksDiffer ==
  ASSUME NEW S \in SUBSET Row, IsFiniteSet(S), Rows1Day(S)
  PROVE  /\ \A x \in S : Rank(S, x) \in 0..(Cardinality(S) - 1)
         /\ \A x, y \in S : Rank(S, x) = Rank(S, y) => x = y
<1> DEFINE Below(x) == {y \in S : Before(y, x)}
<1>1. \A x \in S : Below(x) \in SUBSET S /\ x \notin Below(x) /\ IsFiniteSet(Below(x))
  BY BeforeOrders, FS_Subset
<1>2. ASSUME NEW x \in S PROVE Rank(S, x) \in 0..(Cardinality(S) - 1)
  <2>1. Below(x) \in SUBSET (S \ {x})
    BY <1>1
  <2>2. IsFiniteSet(S \ {x}) /\ Cardinality(S \ {x}) = Cardinality(S) - 1
    BY FS_RemoveElement
  <2>3. Cardinality(Below(x)) =< Cardinality(S) - 1
    BY <2>1, <2>2, FS_Subset
  <2>4. Cardinality(Below(x)) \in Nat /\ Cardinality(S) \in Nat
    BY <1>1, FS_CardinalityType
  <2> QED
    BY <2>3, <2>4 DEF Rank
<1>3. ASSUME NEW x \in S, NEW y \in S, Before(x, y) PROVE Rank(S, x) # Rank(S, y)
  <2>1. Below(x) \in SUBSET Below(y) /\ x \in Below(y) /\ x \notin Below(x)
    BY <1>1, <1>3, BeforeOrders
  <2>2. Cardinality(Below(x)) # Cardinality(Below(y))
    BY <1>1, <2>1, FS_Subset
  <2> QED
    BY <2>2 DEF Rank
<1>4. \A x, y \in S : Rank(S, x) = Rank(S, y) => x = y
  BY <1>3, BeforeOrders
<1> QED
  BY <1>2, <1>4

LEMMA RankedIs ==
  ASSUME NEW S \in SUBSET Row, IsFiniteSet(S), Rows1Day(S)
  PROVE  /\ Cardinality(S) \in Nat
         /\ Ranked(S) \in [1..Cardinality(S) -> S]
         /\ \A i \in 1..Cardinality(S) : Rank(S, Ranked(S)[i]) = i - 1
<1> DEFINE n == Cardinality(S)
           f == [x \in S |-> Rank(S, x)]
<1>1. n \in Nat /\ IsFiniteSet(0..(n - 1)) /\ Cardinality(0..(n - 1)) = n
  <2>1. n \in Nat
    BY FS_CardinalityType
  <2> HIDE DEF n
  <2>2. 0 \in Int /\ n - 1 \in Int /\ (0 > n - 1 <=> n = 0) /\ (n - 1) - 0 + 1 = n
    BY <2>1
  <2> QED
    BY <2>1, <2>2, FS_Interval
<1> HIDE DEF n
<1>2. f \in Injection(S, 0..(n - 1))
  <2>1. f \in [S -> 0..(n - 1)] /\ \A x, y \in S : f[x] = f[y] => x = y
    BY RanksDiffer DEF n
  <2> HIDE DEF f
  <2> QED
    BY <2>1 DEF Injection, IsInjective
<1>3. f \in Surjection(S, 0..(n - 1))
  <2> HIDE DEF f
  <2>1. Cardinality(S) = Cardinality(0..(n - 1))
    BY <1>1 DEF n
  <2> QED
    BY <1>1, <1>2, <2>1, FS_Injection
<1>4. ASSUME NEW i \in 1..n PROVE \E x \in S : Rank(S, x) = i - 1
  <2>1. i - 1 \in 0..(n - 1)
    BY <1>1
  <2>2. \E x \in S : f[x] = i - 1
    BY <1>3, <2>1 DEF Surjection
  <2> QED
    BY <2>2
<1>5. ASSUME NEW i \in 1..n PROVE Ranked(S)[i] \in S /\ Rank(S, Ranked(S)[i]) = i - 1
  <2> DEFINE x == CHOOSE x \in S : Cardinality({y \in S : Before(y, x)}) = i - 1
  <2>1. Ranked(S)[i] = x
    BY DEF Ranked, n
  <2>2. x \in S /\ Cardinality({y \in S : Before(y, x)}) = i - 1
    BY <1>4 DEF Rank
  <2> QED
    BY <2>1, <2>2 DEF Rank
<1>6. Ranked(S) \in [1..n -> S]
  BY <1>5 DEF Ranked, n
<1> QED
  BY <1>1, <1>5, <1>6 DEF n

(***************************************************************************)
(* The strategies give finitely many rows, and one for a day and a stock.   *)
(***************************************************************************)
Records(strategy, data, c) ==
  IF strategy = "momentum" THEN MomentumRows(c, data[c]) ELSE VolumeRows(c, data[c])

LEMMA RecordsOfOne ==
  ASSUME NEW strategy, NEW data, NEW c, data[c] \in Series
  PROVE  /\ IsFiniteSet(Records(strategy, data, c))
         /\ \A x \in Records(strategy, data, c) : x.krx_code = c
         /\ \A x, y \in Records(strategy, data, c) : x.trade_date = y.trade_date => x = y
<1> DEFINE s == data[c]
           m(i) == RowOf(c, s, i, IF s[i].close > s[i - Lookback].close THEN "buy" ELSE "sell")
           w(i) == RowOf(c, s, i, IF s[i].volume * Lookback > Volume(s, i) THEN "buy" ELSE "hold")
           x(i) == IF strategy = "momentum" THEN m(i) ELSE w(i)
           D == IF strategy = "momentum" THEN {j \in DOMAIN s : Len(s) >= Lookback /\ j > Lookback}
                ELSE {j \in DOMAIN s : j >= Lookback}
           f == [i \in D |-> x(i)]
           R == {x(i) : i \in D}
<1>1. Records(strategy, data, c) = R
  BY DEF Records, MomentumRows, VolumeRows
<1>2. \A i : x(i).trade_date = i /\ x(i).krx_code = c
  BY DEF RowOf
<1>3. IsFiniteSet(D)
  <2>1. s \in Seq([close : Nat \ {0}, volume : Nat \ {0}])
    BY BacktestsAssumption
  <2>2. DOMAIN s = 1..Len(s) /\ Len(s) \in Int
    BY <2>1
  <2>3. IsFiniteSet(DOMAIN s)
    <3>1. 1 \in Int
      OBVIOUS
    <3> QED
      BY <2>2, <3>1, FS_Interval
  <2>4. D \in SUBSET DOMAIN s
    OBVIOUS
  <2> HIDE DEF D
  <2> QED
    BY <2>3, <2>4, FS_Subset
<1> HIDE DEF x, D
<1>4. f \in Surjection(D, R)
  BY DEF Surjection
<1> HIDE DEF f, R
<1>5. IsFiniteSet(R)
  BY <1>3, <1>4, FS_Surjection
<1>6. \A y \in R : \E i \in D : y = x(i)
  BY DEF R
<1> QED
  BY <1>1, <1>2, <1>5, <1>6

LEMMA RecordsOfAll ==
  ASSUME NEW strategy, NEW data \in Data \cup {<<>>}
  PROVE  IsFiniteSet(TradeRecords(strategy, data)) /\ Rows1Day(TradeRecords(strategy, data))
<1>1. DOMAIN data \in SUBSET Stocks /\ \A c \in DOMAIN data : data[c] \in Series
  BY DEF Data
<1>2. IsFiniteSet(DOMAIN data)
  BY <1>1, BacktestsAssumption, FS_Subset
<1> DEFINE R == {Records(strategy, data, c) : c \in DOMAIN data}
           f == [c \in DOMAIN data |-> Records(strategy, data, c)]
<1>3. TradeRecords(strategy, data) = UNION R
  BY DEF TradeRecords, Records
<1>4. f \in Surjection(DOMAIN data, R)
  BY DEF Surjection
<1>5. \A x \in R : IsFiniteSet(x)
  BY <1>1, RecordsOfOne
<1>6. \A x \in UNION R : \E c \in DOMAIN data : x \in Records(strategy, data, c)
  OBVIOUS
<1>7. Rows1Day(UNION R)
  <2> SUFFICES ASSUME NEW x \in UNION R, NEW y \in UNION R, x.trade_date = y.trade_date, x.krx_code = y.krx_code
               PROVE  x = y
    BY DEF Rows1Day
  <2>1. PICK c \in DOMAIN data : x \in Records(strategy, data, c)
    BY <1>6
  <2>2. PICK d \in DOMAIN data : y \in Records(strategy, data, d)
    BY <1>6
  <2> HIDE DEF R
  <2> QED
    BY <1>1, <2>1, <2>2, RecordsOfOne
<1> HIDE DEF f, R
<1>8. IsFiniteSet(R)
  BY <1>2, <1>4, FS_Surjection
<1> QED
  BY <1>3, <1>5, <1>7, <1>8, FS_UNION

(* What the figures of a finished run are computed from. *)
LEMMA DoneRows ==
  ASSUME Inv, NEW r \in Runs, runs[r].status = "done"
  PROVE  results[r] \in SUBSET Row /\ IsFiniteSet(results[r]) /\ Rows1Day(results[r])
<1>1. results[r] = TradeRecords(runs[r].strategy, found[r])
  BY DEF Inv, RunInv, StatusTells
<1>2. found[r] \in Data \cup {<<>>} /\ results[r] \in SUBSET Row
  BY DEF Inv, Typed
<1> QED
  BY <1>1, <1>2, RecordsOfAll

LEMMA FactorsAreFractions ==
  ASSUME Inv, NEW r \in Runs, runs[r].status = "done"
  PROVE  /\ Cardinality(results[r]) \in Nat
         /\ [i \in 1..Cardinality(results[r]) |-> Ranked(results[r])[i].growth]
              \in [1..Cardinality(results[r]) -> Frac]
<1> DEFINE S == results[r]
           n == Cardinality(S)
           q == Ranked(S)
<1>1. n \in Nat /\ q \in [1..n -> S] /\ S \in SUBSET Row
  BY DoneRows, RankedIs
<1> HIDE DEF S, n, q
<1>2. \A i \in 1..n : q[i].growth \in Frac
  BY <1>1 DEF Row
<1>3. [i \in 1..n |-> q[i].growth] \in [1..n -> Frac]
  BY <1>2
<1> QED
  BY <1>1, <1>3 DEF S, n, q

(***************************************************************************)
(* The running peak of calculate_max_drawdown finds the worst fall of a     *)
(* finished run, for a series of any length and any prices.                *)
(***************************************************************************)
THEOREM DrawdownIsWorst == Spec => []DrawdownIsWorstFall
<1>1. Inv => DrawdownIsWorstFall
  <2> SUFFICES ASSUME Inv, NEW r \in Runs, runs[r].status = "done"
               PROVE  LET v == RunSeries(r)
                          later == UNION {{Ratio(v[j], v[i]) : j \in i..Len(v)} : i \in DOMAIN v}
                      IN  /\ \A f \in later : LessEq(Drawdown(v), f)
                          /\ \E f \in later : SameAs(Drawdown(v), f)
    BY DEF DrawdownIsWorstFall
  <2> DEFINE v == RunSeries(r)
             m == Cardinality(results[r]) + 1
             later == UNION {{Ratio(v[j], v[i]) : j \in i..Len(v)} : i \in DOMAIN v}
  <2>1. m \in Pos /\ m \in Nat /\ v \in [1..m -> Frac]
    <3> DEFINE n == Cardinality(results[r])
               f == [i \in 1..n |-> Ranked(results[r])[i].growth]
    <3>1. n \in Nat /\ f \in [1..n -> Frac]
      BY FactorsAreFractions
    <3>2. v = Cumulative(f) /\ m = n + 1
      BY DEF RunSeries
    <3> HIDE DEF n, f, v, m
    <3>3. Cumulative(f) \in [1..(n + 1) -> Frac]
      BY <3>1, CumulativeIs
    <3> QED
      BY <3>1, <3>2, <3>3 DEF Pos
  <2> HIDE DEF v, m
  <2>2. DOMAIN v = 1..m /\ Len(v) = m
    BY <2>1, LengthIs
  <2>3. ASSUME NEW f \in later PROVE LessEq(Drawdown(v), f)
    <3>1. PICK i \in 1..m : \E j \in i..m : f = Ratio(v[j], v[i])
      BY <2>2
    <3>2. PICK j \in i..m : f = Ratio(v[j], v[i])
      BY <3>1
    <3>3. j \in 1..m /\ i \in 1..j
      BY <2>1
    <3> QED
      BY <2>1, <3>2, <3>3, DrawdownIs
  <2>4. \E f \in later : SameAs(Drawdown(v), f)
    <3>1. PICK k \in 1..m : \E j \in 1..k : SameAs(Drawdown(v), Ratio(v[k], v[j]))
      BY <2>1, DrawdownIs
    <3>2. PICK j \in 1..k : SameAs(Drawdown(v), Ratio(v[k], v[j]))
      BY <3>1
    <3>3. j \in 1..m /\ k \in j..m
      BY <2>1
    <3>4. Ratio(v[k], v[j]) \in later
      BY <2>2, <3>3
    <3> QED
      BY <3>2, <3>4
  <2> QED
    BY <2>3, <2>4 DEF v
<1> QED
  BY <1>1, InvHolds, PTL

-----------------------------------------------------------------------------
(* The mean over one row is its own factor. *)
LEMMA MeanOfOne ==
  ASSUME NEW x \in Row
  PROVE  Mean({x}) = x.growth
<1> DEFINE S == {x}
           q == Ranked(S)
           Solves(g) == g = [i \in 0..Len(q) |-> IF i = 0 THEN <<0, 1>> ELSE Plus(g[i - 1], q[i].growth)]
           s == CHOOSE g : Solves(g)
<1>1. Cardinality(S) = 1 /\ IsFiniteSet(S) /\ S \in SUBSET Row /\ Rows1Day(S)
  BY FS_Singleton DEF Rows1Day
<1>2. q \in [1..1 -> S]
  BY <1>1, RankedIs
<1>3. Len(q) = 1 /\ q[1] = x
  <2>1. 1 \in 1..1 /\ 1 \in Nat
    OBVIOUS
  <2> HIDE DEF q
  <2>2. Len(q) = 1
    BY <1>2, <2>1, LengthIs
  <2>3. q[1] \in S
    BY <1>2, <2>1
  <2> QED
    BY <2>2, <2>3
<1>4. Mean(S) = Times(s[1], <<1, 1>>)
  BY <1>1, <1>3 DEF Mean
<1> HIDE DEF q
<1>5. x.growth \in Frac
  BY DEF Row
<1>6. Plus(<<0, 1>>, x.growth) = x.growth /\ Times(x.growth, <<1, 1>>) = x.growth
  <2>1. x.growth[1] \in Nat /\ x.growth[2] \in Nat /\ x.growth = <<x.growth[1], x.growth[2]>>
    BY <1>5, Positive DEF Pos
  <2> QED
    BY <2>1 DEF Plus, Times
<1>7. Solves([i \in 0..1 |-> IF i = 0 THEN <<0, 1>> ELSE x.growth])
  BY <1>3, <1>6
<1>8. Solves(s)
  BY <1>7
<1> HIDE DEF s
<1>9. s[0] = <<0, 1>> /\ s[1] = Plus(s[0], q[1].growth)
  BY <1>3, <1>8
<1> QED
  BY <1>3, <1>4, <1>6, <1>9

(***************************************************************************)
(* The rows of one stock are ordered as their days are.                     *)
(***************************************************************************)
Dates(A) == {x.trade_date : x \in A}

OneStock(S) == \A x, y \in S : x.krx_code = y.krx_code

LEMMA DaysAreRows ==
  ASSUME NEW S \in SUBSET Row, IsFiniteSet(S), Rows1Day(S), OneStock(S), NEW A \in SUBSET S
  PROVE  Cardinality(Dates(A)) = Cardinality(A)
<1> DEFINE f == [x \in A |-> x.trade_date]
<1>1. f \in [A -> Dates(A)] /\ \A x, y \in A : f[x] = f[y] => x = y
  BY DEF Dates, Rows1Day, OneStock
<1>2. \A t \in Dates(A) : \E x \in A : f[x] = t
  BY DEF Dates
<1> HIDE DEF f
<1>3. f \in Bijection(A, Dates(A))
  BY <1>1, <1>2 DEF Bijection, Injection, Surjection, IsInjective
<1>4. IsFiniteSet(A) /\ ExistsBijection(A, Dates(A))
  BY <1>3, FS_Subset DEF ExistsBijection
<1> QED
  BY <1>4, FS_Bijection

LEMMA DaysAreRanked ==
  ASSUME NEW S \in SUBSET Row, IsFiniteSet(S), Rows1Day(S), OneStock(S), NEW x \in S
  PROVE  Cardinality({e \in Dates(S) : e < x.trade_date}) = Rank(S, x)
<1> DEFINE A == {y \in S : Before(y, x)}
<1>1. \A y \in S : Before(y, x) <=> y.trade_date < x.trade_date
  <2>1. \A y \in S : y.krx_code = x.krx_code /\ y.krx_code \in Stocks
    BY DEF OneStock, Row
  <2>2. \A y \in S : Place[y.krx_code] = Place[x.krx_code] /\ Place[x.krx_code] \in Nat
    BY <2>1, BacktestsAssumption
  <2> QED
    BY <2>2 DEF Before
<1>2. {e \in Dates(S) : e < x.trade_date} = Dates(A)
  BY <1>1 DEF Dates
<1>3. A \in SUBSET S
  OBVIOUS
<1> HIDE DEF A
<1>4. Cardinality(Dates(A)) = Cardinality(A)
  BY <1>3, DaysAreRows
<1> QED
  BY <1>2, <1>4 DEF A, Rank

LEMMA SeriesAgree ==
  ASSUME NEW r, results[r] \in SUBSET Row, IsFiniteSet(results[r]), Rows1Day(results[r]), OneStock(results[r])
  PROVE  PortfolioSeries(r) = RunSeries(r)
<1> DEFINE S == results[r]
           n == Cardinality(S)
           q == Ranked(S)
           D == {x.trade_date : x \in S}
           first(i) == CHOOSE d \in D : Cardinality({e \in D : e < d}) = i - 1
<1>1. D = Dates(S)
  BY DEF Dates
<1>2. S \in SUBSET Row /\ IsFiniteSet(S) /\ Rows1Day(S) /\ OneStock(S)
  OBVIOUS
<1>3. PortfolioSeries(r) = Cumulative([i \in 1..Cardinality(D) |-> Mean({x \in S : x.trade_date = first(i)})])
  BY DEF PortfolioSeries
<1>4. RunSeries(r) = Cumulative([i \in 1..n |-> q[i].growth])
  BY DEF RunSeries
<1> HIDE DEF S, D
<1>5. Cardinality(D) = n
  BY <1>1, <1>2, DaysAreRows
<1>6. n \in Nat /\ q \in [1..n -> S] /\ \A i \in 1..n : Rank(S, q[i]) = i - 1
  BY <1>2, RankedIs
<1> HIDE DEF n, q
<1>7. \A x \in S : Cardinality({e \in D : e < x.trade_date}) = Rank(S, x)
  BY <1>1, <1>2, DaysAreRanked
<1>8. \A x, y \in S : Rank(S, x) = Rank(S, y) => x = y
  BY <1>2, RanksDiffer
<1>9. ASSUME NEW i \in 1..n PROVE Mean({x \in S : x.trade_date = first(i)}) = q[i].growth
  <2>1. q[i] \in S /\ Rank(S, q[i]) = i - 1 /\ q[i] \in Row
    BY <1>2, <1>6
  <2>2. q[i].trade_date \in D
    BY <1>1, <2>1 DEF Dates
  <2>3. first(i) \in D /\ Cardinality({e \in D : e < first(i)}) = i - 1
    BY <1>7, <2>1, <2>2
  <2> HIDE DEF first
  <2>4. PICK y \in S : first(i) = y.trade_date
    BY <1>1, <2>3 DEF Dates
  <2>5. y = q[i]
    BY <1>7, <1>8, <2>1, <2>3, <2>4
  <2>6. \A x \in S : x.trade_date = first(i) => x = q[i]
    BY <1>2, <2>1, <2>4, <2>5 DEF Rows1Day, OneStock
  <2>7. {x \in S : x.trade_date = first(i)} = {q[i]}
    BY <2>1, <2>4, <2>5, <2>6
  <2> QED
    BY <2>1, <2>7, MeanOfOne
<1> HIDE DEF first
<1>10. [i \in 1..Cardinality(D) |-> Mean({x \in S : x.trade_date = first(i)})] = [i \in 1..n |-> q[i].growth]
  BY <1>5, <1>9
<1> QED
  BY <1>3, <1>4, <1>10

(***************************************************************************)
(* get_run and get_results agree on the total return of a finished run of  *)
(* one stock, for a series of any length and any prices.                   *)
(***************************************************************************)
THEOREM RoutesAgree == Spec => []OneStockAgrees
<1>1. Inv => OneStockAgrees
  <2> SUFFICES ASSUME Inv, NEW r \in Runs, runs[r].status = "done",
                      Cardinality({x.krx_code : x \in results[r]}) = 1
               PROVE  SameAs(TotalReturn(RunSeries(r)), TotalReturn(PortfolioSeries(r)))
    BY DEF OneStockAgrees
  <2> DEFINE C == {x.krx_code : x \in results[r]}
  <2>1. results[r] \in SUBSET Row /\ IsFiniteSet(results[r]) /\ Rows1Day(results[r])
    BY DoneRows
  <2>2. IsFiniteSet(C)
    <3>1. C \in SUBSET Stocks
      BY <2>1 DEF Row
    <3> HIDE DEF C
    <3> QED
      BY <3>1, BacktestsAssumption, FS_Subset
  <2>3. PICK c : C = {c}
    BY <2>2, FS_Singleton
  <2>4. \A x \in results[r] : x.krx_code \in C
    OBVIOUS
  <2>5. OneStock(results[r])
    BY <2>3, <2>4 DEF OneStock
  <2>6. PortfolioSeries(r) = RunSeries(r)
    BY <2>1, <2>5, SeriesAgree
  <2> QED
    BY <2>6 DEF SameAs
<1> QED
  BY <1>1, InvHolds, PTL
=============================================================================
