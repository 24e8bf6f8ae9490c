------------------------- MODULE UserRequestsProofs -------------------------
(***************************************************************************)
(* Theorems about UserRequests for any requests, keys, names and bounds:    *)
(* what overlapping requests of one user cannot spoil.                      *)
(***************************************************************************)
EXTENDS UserRequests, FiniteSetTheorems, TLAPS

Shaped == req = [r \in Requests |->
                   [op |-> req[r].op, key |-> req[r].key, seen |-> req[r].seen]]

AdviceInv ==
  /\ advice \in [AdviceKeys -> Advices \cup {Nothing}]
  /\ shown \in [AdviceKeys -> SUBSET Advices]
  /\ OneAdviceADay
  /\ \A r \in InFlight("advice") :
       req[r].key \in AdviceKeys /\ req[r].seen \in Advices \cup {Nothing}

(* What a request will cache is about holdings its portfolio has had since. *)
PortfoliosInv ==
  /\ optimized = [p \in Portfolio |-> optimized[p]]
  /\ had = [p \in Portfolio |-> had[p]]
  /\ OptimizationIsRecent
  /\ \A r \in InFlight("optimize") :
       req[r].key \in Portfolio /\ req[r].seen \in since[r]

(* The creations in flight are counted with the presets there are. *)
PresetsInv ==
  /\ IsFiniteSet(presets) /\ creating \in Nat
  /\ Cardinality(presets) + Cardinality(InFlight("preset")) =<
       MAX_PRESETS_PER_USER + (IF creating > 1 THEN creating - 1 ELSE 0)

MailRow == [email : Emails, is_active : BOOLEAN]

(* The requests in flight have wished; the row never goes away. *)
MailRequests ==
  /\ mail \in MailRow \cup {Nothing}
  /\ \A r \in InFlight("subscribe") :
       /\ req[r].key \in Emails /\ req[r].key \in wishes
       /\ req[r].seen \in MailRow \cup {Nothing}
  /\ \A r \in InFlight("unsubscribe") :
       req[r].key = Off /\ Off \in wishes /\ req[r].seen \in MailRow
  /\ \A r \in MailInFlight : req[r].seen # Nothing => mail # Nothing

(* When all want it on: what a request takes for written already is, and stays. *)
TurningOn ==
  wishes \subseteq Emails =>
    \A r \in MailInFlight :
      /\ req[r].seen = Nothing => mail = Nothing \/ (mail.is_active /\ mail.email \in wishes)
      /\ req[r].seen # Nothing =>
           /\ req[r].seen.is_active => mail.is_active
           /\ req[r].seen.email = req[r].key => mail.email \in wishes

(* When all want it off, likewise. *)
TurningOff ==
  wishes = {Off} => \A r \in MailInFlight : ~ req[r].seen.is_active => ~ mail.is_active

MailInv == MailRequests /\ TurningOn /\ TurningOff /\ UnanimousMailHolds

(* A request about the preferences has each type still to write or written. *)
AllTypes(put) ==
  /\ put = [value |-> put.value, todo |-> put.todo, done |-> put.done]
  /\ put.todo \in Seq(Types)
  /\ \A t \in Types : t \in put.done \/ \E i \in DOMAIN put.todo : put.todo[i] = t

PrefsInv ==
  /\ prefs = [t \in Types |-> prefs[t]]
  /\ PreferencesAreOneRequests
  /\ \A r \in InFlight("put") : AllTypes(req[r].seen)

Inv == Shaped /\ AdviceInv /\ PortfoliosInv /\ PresetsInv /\ MailInv /\ PrefsInv

(***************************************************************************)
(* Steps of one request, and what they leave to the others.                 *)
(***************************************************************************)
LEMMA RequestSteps ==
  ASSUME Shaped, NEW r \in Requests
  PROVE  /\ \A op, key, seen : Begin(r, op, key, seen) =>
              /\ Shaped' /\ req[r].op = "none" /\ \A q \in Requests \ {r} : req'[q] = req[q]
              /\ req'[r] = [op |-> op, key |-> key, seen |-> seen]
         /\ AnswerAtOnce(r) => Shaped' /\ req' = req
         /\ Answer(r) =>
              Shaped' /\ req'[r].op = "none" /\ \A q \in Requests \ {r} : req'[q] = req[q]
         /\ \A v : Read(r, v) =>
              /\ Shaped' /\ \A q \in Requests \ {r} : req'[q] = req[q]
              /\ req'[r] = [op |-> req[r].op, key |-> req[r].key, seen |-> v]
<1>1. req[r] = [op |-> req[r].op, key |-> req[r].key, seen |-> req[r].seen]
  BY DEF Shaped
<1>2. ASSUME NEW op, NEW key, NEW seen, Begin(r, op, key, seen)
      PROVE  /\ Shaped' /\ req[r].op = "none" /\ \A q \in Requests \ {r} : req'[q] = req[q]
             /\ req'[r] = [op |-> op, key |-> key, seen |-> seen]
  BY <1>2 DEF Begin, Serve, Shaped
<1>3. AnswerAtOnce(r) => Shaped' /\ req' = req
  BY DEF AnswerAtOnce, Shaped
<1>4. Answer(r) => Shaped' /\ req'[r].op = "none" /\ \A q \in Requests \ {r} : req'[q] = req[q]
  BY DEF Answer, Free, Shaped
<1>5. ASSUME NEW v, Read(r, v)
      PROVE  /\ Shaped' /\ \A q \in Requests \ {r} : req'[q] = req[q]
             /\ req'[r] = [op |-> req[r].op, key |-> req[r].key, seen |-> v]
  BY <1>1, <1>5 DEF Read, Shaped
<1> QED
  BY <1>2, <1>3, <1>4, <1>5

(* No request with one of these operations comes, goes or reads. *)
Untouched(ops) ==
  \A r \in Requests : req'[r] = req[r] \/ (req[r].op \notin ops /\ req'[r].op \notin ops)

LEMMA UntouchedKeeps ==
  ASSUME NEW ops, Untouched(ops), NEW op \in ops
  PROVE  /\ InFlight(op)' = InFlight(op)
         /\ \A r \in InFlight(op) : req'[r] = req[r]
  BY DEF Untouched, InFlight

MailOps == {"subscribe", "unsubscribe"}

LEMMA AdviceKept == AdviceInv /\ UNCHANGED adviceVars /\ Untouched({"advice"}) => AdviceInv'
<1> SUFFICES ASSUME AdviceInv, UNCHANGED adviceVars, Untouched({"advice"}) PROVE AdviceInv'
  OBVIOUS
<1>1. InFlight("advice")' = InFlight("advice") /\ \A r \in InFlight("advice") : req'[r] = req[r]
  BY UntouchedKeeps
<1> QED
  BY <1>1 DEF AdviceInv, OneAdviceADay, adviceVars

LEMMA PresetsKept ==
  PresetsInv /\ UNCHANGED <<presets, creating>> /\ Untouched({"preset"}) => PresetsInv'
<1> SUFFICES ASSUME PresetsInv, UNCHANGED <<presets, creating>>, Untouched({"preset"})
             PROVE  PresetsInv'
  OBVIOUS
<1>1. InFlight("preset")' = InFlight("preset")
  BY UntouchedKeeps
<1> QED
  BY <1>1 DEF PresetsInv

LEMMA MailKept == MailInv /\ UNCHANGED <<mail, wishes>> /\ Untouched(MailOps) => MailInv'
<1> SUFFICES ASSUME MailInv, UNCHANGED <<mail, wishes>>, Untouched(MailOps) PROVE MailInv'
  OBVIOUS
<1>1. /\ InFlight("subscribe")' = InFlight("subscribe")
      /\ InFlight("unsubscribe")' = InFlight("unsubscribe")
      /\ \A r \in MailInFlight : req'[r] = req[r]
  BY UntouchedKeeps DEF MailOps, MailInFlight
<1>2. MailInFlight' = MailInFlight
  BY <1>1 DEF MailInFlight
<1>3. MailRequests'
  BY <1>1, <1>2 DEF MailInv, MailRequests, MailInFlight
<1>4. TurningOn' /\ TurningOff' /\ UnanimousMailHolds'
  BY <1>1, <1>2 DEF MailInv, TurningOn, TurningOff, UnanimousMailHolds
<1> QED
  BY <1>3, <1>4 DEF MailInv

LEMMA PrefsKept == PrefsInv /\ UNCHANGED prefs /\ Untouched({"put"}) => PrefsInv'
<1> SUFFICES ASSUME PrefsInv, UNCHANGED prefs, Untouched({"put"}) PROVE PrefsInv'
  OBVIOUS
<1>1. InFlight("put")' = InFlight("put") /\ \A r \in InFlight("put") : req'[r] = req[r]
  BY UntouchedKeeps
<1> QED
  BY <1>1 DEF PrefsInv, PreferencesAreOneRequests

(* What a portfolio has had since a request only grows while it is in flight. *)
LEMMA PortfoliosKept ==
  ASSUME PortfoliosInv, UNCHANGED portfolioVars \/ (UNCHANGED <<optimized, had>> /\ Remember),
         Untouched({"optimize"})
  PROVE  PortfoliosInv'
<1>1. /\ InFlight("optimize")' = InFlight("optimize")
      /\ \A r \in InFlight("optimize") : req'[r] = req[r]
  BY UntouchedKeeps
<1>2. \A r \in InFlight("optimize") : since[r] \subseteq since'[r]
  BY <1>1 DEF Remember, InFlight, portfolioVars
<1> QED
  BY <1>1, <1>2 DEF PortfoliosInv, OptimizationIsRecent, portfolioVars

(***************************************************************************)
(* Advice.                                                                  *)
(***************************************************************************)
OtherOps == {"optimize", "preset", "subscribe", "unsubscribe", "put"}

LEMMA AdviceStep ==
  ASSUME Shaped, AdviceInv, AdviceNext
  PROVE  Shaped' /\ AdviceInv' /\ Untouched(OtherOps)
<1>1. ASSUME NEW r \in Requests, NEW k \in AdviceKeys, FindAdvice(r, k)
      PROVE  Shaped' /\ AdviceInv' /\ Untouched(OtherOps)
  <2>1. CASE advice[k] # Nothing /\ AnswerAtOnce(r) /\ shown' = [shown EXCEPT ![k] = @ \cup {advice[k]}]
    <3>1. Shaped' /\ req' = req /\ UNCHANGED advice
      BY <1>1, <2>1, RequestSteps DEF FindAdvice
    <3>2. InFlight("advice")' = InFlight("advice")
      BY <3>1 DEF InFlight
    <3> QED
      BY <2>1, <3>1, <3>2 DEF AdviceInv, OneAdviceADay, Untouched
  <2>2. CASE advice[k] = Nothing /\ Begin(r, "advice", k, Nothing) /\ UNCHANGED shown
    <3>1. /\ Shaped' /\ \A q \in Requests \ {r} : req'[q] = req[q]
          /\ req[r].op = "none" /\ req'[r] = [op |-> "advice", key |-> k, seen |-> Nothing]
      BY <2>2, RequestSteps
    <3>2. UNCHANGED <<advice, shown>>
      BY <1>1, <2>2 DEF FindAdvice
    <3> QED
      BY <3>1, <3>2 DEF AdviceInv, OneAdviceADay, InFlight, Untouched, OtherOps
  <2> QED
    BY <1>1, <2>1, <2>2 DEF FindAdvice
<1>2. ASSUME NEW r \in Requests, GenerateAdvice(r)
      PROVE  Shaped' /\ AdviceInv' /\ Untouched(OtherOps)
  <2>1. UNCHANGED <<advice, shown>> /\ req[r].op = "advice"
    BY <1>2 DEF GenerateAdvice, adviceVars
  <2>2. CASE Answer(r)
    <3>1. Shaped' /\ req'[r].op = "none" /\ \A q \in Requests \ {r} : req'[q] = req[q]
      BY <2>2, RequestSteps
    <3> QED
      BY <2>1, <3>1 DEF AdviceInv, OneAdviceADay, InFlight, Untouched, OtherOps
  <2>3. CASE \E a \in Advices : Read(r, a)
    <3>1. PICK a \in Advices : Read(r, a)
      BY <2>3
    <3>2. /\ Shaped' /\ \A q \in Requests \ {r} : req'[q] = req[q]
          /\ req'[r] = [op |-> "advice", key |-> req[r].key, seen |-> a]
      BY <2>1, <3>1, RequestSteps
    <3> QED
      BY <2>1, <3>2 DEF AdviceInv, OneAdviceADay, InFlight, Untouched, OtherOps
  <2> QED
    BY <1>2, <2>2, <2>3 DEF GenerateAdvice
<1>3. ASSUME NEW r \in Requests, SaveAdvice(r)
      PROVE  Shaped' /\ AdviceInv' /\ Untouched(OtherOps)
  <2> DEFINE k == req[r].key
  <2>1. /\ Shaped' /\ req[r].op = "advice" /\ req'[r].op = "none"
        /\ \A q \in Requests \ {r} : req'[q] = req[q]
    BY <1>3, RequestSteps DEF SaveAdvice
  <2>2. k \in AdviceKeys /\ req[r].seen \in Advices
    BY <1>3 DEF SaveAdvice, AdviceInv, InFlight
  <2>3. \/ /\ advice[k] = Nothing /\ advice' = [advice EXCEPT ![k] = req[r].seen]
           /\ shown' = [shown EXCEPT ![k] = @ \cup {req[r].seen}]
        \/ UNCHANGED <<advice, shown>>
    BY <1>3 DEF SaveAdvice
  <2>4. advice[k] = Nothing => shown[k] = {}
    BY <2>2, AdviceAssumption DEF AdviceInv, OneAdviceADay
  <2> HIDE DEF k
  <2>5. /\ advice' \in [AdviceKeys -> Advices \cup {Nothing}]
        /\ shown' \in [AdviceKeys -> SUBSET Advices] /\ OneAdviceADay'
    BY <2>2, <2>3, <2>4 DEF AdviceInv, OneAdviceADay
  <2> QED
    BY <2>1, <2>5 DEF AdviceInv, InFlight, Untouched, OtherOps
<1>4. CASE ChangeWatchlist
  BY <1>4 DEF ChangeWatchlist, reqVars, Shaped, AdviceInv, OneAdviceADay, InFlight, Untouched
<1> QED
  BY <1>1, <1>2, <1>3, <1>4 DEF AdviceNext

(***************************************************************************)
(* Portfolios.                                                              *)
(***************************************************************************)
NotPortfolioOps == {"advice", "preset", "subscribe", "unsubscribe", "put"}

(* A step of the optimisations: what it caches its portfolio had since the request
   came in, and what a request begins with is what the portfolio has. *)
LEMMA OptimizationStep ==
  ASSUME PortfoliosInv, Remember,
         optimized' = [p \in Portfolio |-> optimized'[p]], had' = [p \in Portfolio |-> had'[p]],
         \A p \in Portfolio : optimized'[p] # Nothing =>
           \/ optimized'[p] = optimized[p] /\ had'[p] = had[p]
           \/ \E r \in InFlight("optimize") :
                req[r].key = p /\ optimized'[p] = req[r].seen /\ had'[p] = since[r],
         \A r \in Requests : req'[r].op = "optimize" =>
           \/ r \in InFlight("optimize") /\ req'[r] = req[r]
           \/ req'[r].key \in Portfolio /\ req'[r].seen = holdings'[req'[r].key]
  PROVE  PortfoliosInv'
<1>1. OptimizationIsRecent'
  BY DEF PortfoliosInv, OptimizationIsRecent
<1>2. \A r \in Requests : req'[r].op = "optimize" => req'[r].key \in Portfolio
  BY DEF PortfoliosInv
<1>3. ASSUME NEW r \in Requests, req'[r].op = "optimize"
      PROVE  req'[r].seen \in since'[r]
  <2>1. since'[r] = since[r] \cup {holdings'[req'[r].key]}
    BY <1>3 DEF Remember
  <2>2. req'[r].seen \in since[r] \/ req'[r].seen = holdings'[req'[r].key]
    BY <1>3 DEF PortfoliosInv
  <2> QED
    BY <2>1, <2>2
<1> QED
  BY <1>1, <1>2, <1>3 DEF PortfoliosInv, InFlight

LEMMA PortfoliosStep ==
  ASSUME Shaped, PortfoliosInv, PortfoliosNext
  PROVE  Shaped' /\ PortfoliosInv' /\ Untouched(NotPortfolioOps)
<1>1. ASSUME NEW r \in Requests, ChangeHoldings(r)
      PROVE  Shaped' /\ PortfoliosInv' /\ Untouched(NotPortfolioOps)
  <2>1. Shaped' /\ req' = req /\ UNCHANGED <<optimized, had>> /\ Remember
    BY <1>1, RequestSteps DEF ChangeHoldings
  <2> QED
    BY <2>1, PortfoliosKept DEF Untouched
<1>2. ASSUME NEW r \in Requests, NEW p \in Portfolio, AskOptimization(r, p)
      PROVE  Shaped' /\ PortfoliosInv' /\ Untouched(NotPortfolioOps)
  <2>1. UNCHANGED <<holdings, optimized, had>> /\ Remember
    BY <1>2 DEF AskOptimization
  <2>2. CASE AnswerAtOnce(r)
    <3>1. Shaped' /\ req' = req
      BY <2>2, RequestSteps
    <3> QED
      BY <2>1, <3>1, PortfoliosKept DEF Untouched
  <2>3. CASE Begin(r, "optimize", p, holdings[p])
    <3>1. /\ Shaped' /\ \A q \in Requests \ {r} : req'[q] = req[q]
          /\ req[r].op = "none" /\ req'[r] = [op |-> "optimize", key |-> p, seen |-> holdings[p]]
      BY <2>3, RequestSteps
    <3>2. PortfoliosInv'
      BY <2>1, <3>1, OptimizationStep DEF InFlight, PortfoliosInv
    <3> QED
      BY <3>1, <3>2 DEF Untouched, NotPortfolioOps
  <2> QED
    BY <1>2, <2>2, <2>3 DEF AskOptimization
<1>3. ASSUME NEW r \in Requests, CacheOptimization(r) \/ OptimizationFails(r)
      PROVE  Shaped' /\ PortfoliosInv' /\ Untouched(NotPortfolioOps)
  <2>1. /\ Shaped' /\ req[r].op = "optimize" /\ req'[r].op = "none"
        /\ \A q \in Requests \ {r} : req'[q] = req[q]
    BY <1>3, RequestSteps DEF CacheOptimization, OptimizationFails
  <2>2. /\ Remember /\ UNCHANGED holdings
        /\ \/ /\ optimized' = [optimized EXCEPT ![req[r].key] = req[r].seen]
              /\ had' = [had EXCEPT ![req[r].key] = since[r]]
           \/ UNCHANGED <<optimized, had>>
    BY <1>3 DEF CacheOptimization, OptimizationFails
  <2>3. /\ optimized' = [p \in Portfolio |-> optimized'[p]] /\ had' = [p \in Portfolio |-> had'[p]]
        /\ \A p \in Portfolio :
             \/ optimized'[p] = optimized[p] /\ had'[p] = had[p]
             \/ p = req[r].key /\ optimized'[p] = req[r].seen /\ had'[p] = since[r]
    BY <2>2 DEF PortfoliosInv
  <2>4. PortfoliosInv'
    BY <2>1, <2>2, <2>3, OptimizationStep DEF InFlight
  <2> QED
    BY <2>1, <2>4 DEF Untouched, NotPortfolioOps
<1>4. ASSUME NEW p \in Portfolio, ExpireOptimization(p)
      PROVE  Shaped' /\ PortfoliosInv' /\ Untouched(NotPortfolioOps)
  <2>1. /\ optimized' = [optimized EXCEPT ![p] = Nothing] /\ had' = [had EXCEPT ![p] = {}]
        /\ UNCHANGED <<since, req>>
    BY <1>4 DEF ExpireOptimization, reqVars
  <2>2. /\ optimized' = [q \in Portfolio |-> optimized'[q]] /\ had' = [q \in Portfolio |-> had'[q]]
        /\ \A q \in Portfolio :
             optimized'[q] # Nothing => optimized'[q] = optimized[q] /\ had'[q] = had[q]
    BY <2>1 DEF PortfoliosInv
  <2>3. OptimizationIsRecent'
    BY <2>2 DEF PortfoliosInv, OptimizationIsRecent
  <2>4. PortfoliosInv'
    BY <2>1, <2>2, <2>3 DEF PortfoliosInv, InFlight
  <2> QED
    BY <2>1, <2>4 DEF Shaped, Untouched
<1> QED
  BY <1>1, <1>2, <1>3, <1>4 DEF PortfoliosNext

(***************************************************************************)
(* Presets.                                                                 *)
(***************************************************************************)
NotPresetOps == {"advice", "optimize", "subscribe", "unsubscribe", "put"}

LEMMA MaxOfTwo ==
  ASSUME NEW a \in Int, NEW b \in Int
  PROVE  Max({a, b}) = IF a >= b THEN a ELSE b
<1>1. CASE a >= b
  <2>1. \A x \in {a, b} : (\A y \in {a, b} : x >= y) => x = a
    BY <1>1
  <2>2. a \in {a, b} /\ \A y \in {a, b} : a >= y
    BY <1>1
  <2> QED
    BY <1>1, <2>1, <2>2 DEF Max
<1>2. CASE ~ (a >= b)
  <2>1. \A x \in {a, b} : (\A y \in {a, b} : x >= y) => x = b
    BY <1>2
  <2>2. b \in {a, b} /\ \A y \in {a, b} : b >= y
    BY <1>2
  <2> QED
    BY <1>2, <2>1, <2>2 DEF Max
<1> QED
  BY <1>1, <1>2

LEMMA CountsInFlight ==
  ASSUME NEW r \in Requests, NEW op, \A q \in Requests \ {r} : req'[q] = req[q]
  PROVE  /\ Cardinality(InFlight(op)) \in Nat
         /\ req[r].op # op /\ req'[r].op = op =>
              Cardinality(InFlight(op)') = Cardinality(InFlight(op)) + 1
         /\ req[r].op = op /\ req'[r].op # op =>
              Cardinality(InFlight(op)') = Cardinality(InFlight(op)) - 1
<1>1. IsFiniteSet(InFlight(op)) /\ Cardinality(InFlight(op)) \in Nat
  BY RequestsAssumption, FS_Subset, FS_CardinalityType DEF InFlight
<1>2. CASE req[r].op # op /\ req'[r].op = op
  <2>1. InFlight(op)' = InFlight(op) \cup {r} /\ r \notin InFlight(op)
    BY <1>2 DEF InFlight
  <2> QED
    BY <1>1, <1>2, <2>1, FS_AddElement
<1>3. CASE req[r].op = op /\ req'[r].op # op
  <2>1. InFlight(op)' = InFlight(op) \ {r} /\ r \in InFlight(op)
    BY <1>3 DEF InFlight
  <2> QED
    BY <1>1, <1>3, <2>1, FS_RemoveElement
<1> QED
  BY <1>1, <1>2, <1>3

LEMMA PresetsStep ==
  ASSUME Shaped, PresetsInv, NEW r \in Requests, NEW name,
         CountPresets(r, name) \/ DeletePreset(r, name) \/ InsertPreset(r)
  PROVE  Shaped' /\ PresetsInv' /\ Untouched(NotPresetOps)
<1> DEFINE n == Cardinality(presets)
           f == Cardinality(InFlight("preset"))
<1>1. /\ IsFiniteSet(presets) /\ n \in Nat /\ f \in Nat /\ creating \in Nat
      /\ MAX_PRESETS_PER_USER \in Nat
      /\ n + f =< MAX_PRESETS_PER_USER + (IF creating > 1 THEN creating - 1 ELSE 0)
  <2>1. f \in Nat
    BY RequestsAssumption, FS_Subset, FS_CardinalityType DEF InFlight
  <2> QED
    BY <2>1, SettingsAssumption, FS_CardinalityType DEF PresetsInv
<1>2. CASE CountPresets(r, name)
  <2>1. UNCHANGED presets
    BY <1>2 DEF CountPresets
  <2>2. CASE AnswerAtOnce(r) /\ UNCHANGED creating
    <3>1. Shaped' /\ req' = req
      BY <2>2, RequestSteps
    <3>2. InFlight("preset")' = InFlight("preset")
      BY <3>1 DEF InFlight
    <3> QED
      BY <2>1, <2>2, <3>1, <3>2 DEF PresetsInv, Untouched
  <2>3. CASE /\ ~ (n >= MAX_PRESETS_PER_USER) /\ Begin(r, "preset", name, Nothing)
             /\ creating' = Max({creating, f + 1})
    <3>1. /\ Shaped' /\ \A q \in Requests \ {r} : req'[q] = req[q]
          /\ req[r].op = "none" /\ req'[r] = [op |-> "preset", key |-> name, seen |-> Nothing]
      BY <2>3, RequestSteps
    <3>2. Cardinality(InFlight("preset")') = f + 1
      BY <3>1, CountsInFlight
    <3>3. creating' \in Nat /\ creating' >= f + 1
      <4>1. creating' = IF creating >= f + 1 THEN creating ELSE f + 1
        BY <1>1, <2>3, MaxOfTwo
      <4> HIDE DEF f
      <4> QED
        BY <1>1, <4>1
    <3> HIDE DEF n, f
    <3>4. n + (f + 1) =< MAX_PRESETS_PER_USER + (IF creating' > 1 THEN creating' - 1 ELSE 0)
      BY <1>1, <2>3, <3>3
    <3>5. PresetsInv'
      BY <1>1, <2>1, <3>2, <3>3, <3>4 DEF PresetsInv, n
    <3> QED
      BY <3>1, <3>5 DEF Untouched, NotPresetOps
  <2> QED
    BY <1>2, <2>2, <2>3 DEF CountPresets
<1>3. CASE InsertPreset(r)
  <2>1. /\ presets' = presets \cup {req[r].key} /\ UNCHANGED creating
        /\ Shaped' /\ req[r].op = "preset" /\ req'[r].op = "none"
        /\ \A q \in Requests \ {r} : req'[q] = req[q]
    BY <1>3, RequestSteps DEF InsertPreset
  <2>2. Cardinality(InFlight("preset")') = f - 1
    BY <2>1, CountsInFlight
  <2>3. IsFiniteSet(presets') /\ Cardinality(presets') \in {n, n + 1}
    BY <1>1, <2>1, FS_AddElement
  <2>4. PresetsInv'
    <3> HIDE DEF n, f
    <3>1. Cardinality(presets') + (f - 1) =<
            MAX_PRESETS_PER_USER + (IF creating > 1 THEN creating - 1 ELSE 0)
      BY <1>1, <2>3
    <3> QED
      BY <1>1, <2>1, <2>2, <2>3, <3>1 DEF PresetsInv
  <2> QED
    BY <2>1, <2>4 DEF Untouched, NotPresetOps
<1>4. CASE DeletePreset(r, name)
  <2>1. Shaped' /\ req' = req /\ presets' = presets \ {name} /\ UNCHANGED creating
    BY <1>4, RequestSteps DEF DeletePreset
  <2>2. InFlight("preset")' = InFlight("preset")
    BY <2>1 DEF InFlight
  <2>3. IsFiniteSet(presets') /\ Cardinality(presets') \in {n, n - 1}
    BY <1>1, <2>1, FS_RemoveElement
  <2>4. PresetsInv'
    <3> HIDE DEF n, f
    <3>1. Cardinality(presets') + f =<
            MAX_PRESETS_PER_USER + (IF creating > 1 THEN creating - 1 ELSE 0)
      BY <1>1, <2>3
    <3> QED
      BY <1>1, <2>1, <2>2, <2>3, <3>1 DEF PresetsInv, f
  <2> QED
    BY <2>1, <2>4 DEF Untouched
<1> QED
  BY <1>2, <1>3, <1>4

(***************************************************************************)
(* Preferences.                                                             *)
(***************************************************************************)
NotPutOps == {"advice", "optimize", "preset", "subscribe", "unsubscribe"}

LEMMA EveryTypeInSequence ==
  ASSUME NEW items \in SetToSeqs(Types)
  PROVE  items \in Seq(Types) /\ \A t \in Types : \E i \in DOMAIN items : items[i] = t
<1> DEFINE n == Cardinality(Types)
<1>1. IsFiniteSet(Types) /\ n \in Nat
  BY SettingsAssumption, FS_CardinalityType
<1>2. items \in [1..n -> Types] /\ \A i, j \in 1..n : i # j => items[i] # items[j]
  BY DEF SetToSeqs
<1>3. items \in Injection(1..n, Types)
  BY <1>2 DEF Injection, IsInjective
<1>4. Cardinality(1..n) = n
  BY <1>1, FS_Interval
<1>5. items \in Surjection(1..n, Types)
  BY <1>1, <1>3, <1>4, FS_Injection
<1>6. items \in Seq(Types)
  BY <1>1, <1>2
<1> QED
  BY <1>2, <1>5, <1>6 DEF Surjection

LEMMA PrefsStep ==
  ASSUME Shaped, PrefsInv, NEW r \in Requests,
         PutPreferences(r) \/ UpsertItem(r) \/ DeadlockVictim(r) \/ CommitPreferences(r)
  PROVE  Shaped' /\ PrefsInv' /\ Untouched(NotPutOps)
<1>1. CASE PutPreferences(r)
  <2>1. PICK s \in Settings, items \in SetToSeqs(Types) :
          Begin(r, "put", Nothing, [value |-> s, todo |-> items, done |-> {}])
    BY <1>1 DEF PutPreferences
  <2>2. /\ Shaped' /\ \A q \in Requests \ {r} : req'[q] = req[q]
        /\ req[r].op = "none"
        /\ req'[r] = [op |-> "put", key |-> Nothing,
                      seen |-> [value |-> s, todo |-> items, done |-> {}]]
    BY <2>1, RequestSteps
  <2>3. AllTypes(req'[r].seen) /\ UNCHANGED prefs
    <3>1. AllTypes([value |-> s, todo |-> items, done |-> {}])
      BY EveryTypeInSequence DEF AllTypes
    <3>2. UNCHANGED prefs
      BY <1>1 DEF PutPreferences, settingsVars
    <3>3. req'[r].seen = [value |-> s, todo |-> items, done |-> {}]
      BY <2>2
    <3> QED
      BY <3>1, <3>2, <3>3
  <2>4. PrefsInv'
    BY <2>2, <2>3 DEF PrefsInv, PreferencesAreOneRequests, InFlight
  <2> QED
    BY <2>2, <2>4 DEF Untouched, NotPutOps
<1>2. CASE UpsertItem(r)
  <2> DEFINE put == req[r].seen
             new == [put EXCEPT !.todo = Tail(@), !.done = @ \cup {Head(put.todo)}]
  <2>1. /\ req[r].op = "put" /\ put.todo # <<>> /\ Read(r, new) /\ UNCHANGED prefs
        /\ AllTypes(put)
    BY <1>2 DEF UpsertItem, settingsVars, PrefsInv, InFlight
  <2>2. /\ Shaped' /\ \A q \in Requests \ {r} : req'[q] = req[q]
        /\ req'[r] = [op |-> "put", key |-> req[r].key, seen |-> new]
    BY <2>1, RequestSteps
  <2>3. AllTypes(new)
    <3> HIDE DEF put
    <3>1. new = [value |-> put.value, todo |-> Tail(put.todo), done |-> put.done \cup {Head(put.todo)}]
      <4>1. put = [value |-> put.value, todo |-> put.todo, done |-> put.done]
        BY <2>1 DEF AllTypes
      <4>2. PICK v, t, d : put = [value |-> v, todo |-> t, done |-> d]
        BY <4>1
      <4>3. put.value = v /\ put.todo = t /\ put.done = d
        BY <4>2
      <4>4. new = [[value |-> v, todo |-> t, done |-> d]
                     EXCEPT !.todo = Tail(t), !.done = d \cup {Head(t)}]
        BY <4>2, <4>3
      <4>5. new = [value |-> v, todo |-> Tail(t), done |-> d \cup {Head(t)}]
        <5> HIDE DEF new
        <5> QED
          BY <4>4
      <4> QED
        BY <4>3, <4>5
    <3>2. Tail(put.todo) \in Seq(Types)
      BY <2>1 DEF AllTypes
    <3>3. \A i \in DOMAIN put.todo :
            put.todo[i] = Head(put.todo) \/ \E j \in DOMAIN Tail(put.todo) : Tail(put.todo)[j] = put.todo[i]
      <4>1. ASSUME NEW i \in DOMAIN put.todo, i # 1
            PROVE  i - 1 \in DOMAIN Tail(put.todo) /\ Tail(put.todo)[i - 1] = put.todo[i]
        BY <2>1, <4>1 DEF AllTypes
      <4>2. put.todo[1] = Head(put.todo)
        BY <2>1 DEF AllTypes
      <4> QED
        BY <4>1, <4>2
    <3> HIDE DEF new
    <3> QED
      BY <2>1, <3>1, <3>2, <3>3 DEF AllTypes
  <2>4. PrefsInv'
    <3> HIDE DEF new
    <3> QED
      BY <2>1, <2>2, <2>3 DEF PrefsInv, PreferencesAreOneRequests, InFlight
  <2> QED
    BY <2>1, <2>2, <2>4 DEF Untouched, NotPutOps
<1>3. CASE DeadlockVictim(r)
  <2>1. /\ Shaped' /\ req[r].op = "put" /\ req'[r].op = "none"
        /\ \A q \in Requests \ {r} : req'[q] = req[q]
    BY <1>3, RequestSteps DEF DeadlockVictim, WaitsFor
  <2>2. PrefsInv'
    BY <1>3, <2>1 DEF DeadlockVictim, settingsVars, PrefsInv, PreferencesAreOneRequests, InFlight
  <2> QED
    BY <2>1, <2>2 DEF Untouched, NotPutOps
<1>4. CASE CommitPreferences(r)
  <2>1. /\ Shaped' /\ req[r].op = "put" /\ req'[r].op = "none"
        /\ \A q \in Requests \ {r} : req'[q] = req[q]
    BY <1>4, RequestSteps DEF CommitPreferences
  <2>2. \A t \in Types : t \in req[r].seen.done
    <3>1. req[r].seen.todo = <<>> /\ AllTypes(req[r].seen)
      BY <1>4 DEF CommitPreferences, PrefsInv, InFlight
    <3>2. \A i \in DOMAIN <<>> : FALSE
      OBVIOUS
    <3> QED
      BY <3>1, <3>2 DEF AllTypes
  <2>3. prefs' = [t \in Types |-> req[r].seen.value]
    BY <1>4, <2>2 DEF CommitPreferences
  <2>4. PrefsInv'
    BY <2>1, <2>3 DEF PrefsInv, PreferencesAreOneRequests, InFlight
  <2> QED
    BY <2>1, <2>4 DEF Untouched, NotPutOps
<1> QED
  BY <1>1, <1>2, <1>3, <1>4

(***************************************************************************)
(* The e-mail subscription.                                                 *)
(***************************************************************************)
NotMailOps == {"advice", "optimize", "preset", "put"}

(* A request about the mail begins with what is stored, and has wished. *)
LEMMA BeginMail ==
  ASSUME MailInv, NEW r \in Requests, NEW op \in MailOps, NEW w, UNCHANGED mail, Wish(w),
         \A q \in Requests \ {r} : req'[q] = req[q], req[r].op = "none",
         req'[r] = [op |-> op, key |-> w, seen |-> mail],
         op = "subscribe" => w \in Emails,
         op = "unsubscribe" => w = Off /\ mail # Nothing
  PROVE  MailInv'
<1>1. /\ InFlight(op)' = InFlight(op) \cup {r} /\ MailInFlight' = MailInFlight \cup {r}
      /\ \A o \in MailOps \ {op} : InFlight(o)' = InFlight(o)
      /\ \A q \in MailInFlight : q # r /\ req'[q] = req[q]
  BY DEF InFlight, MailInFlight, MailOps
<1>2. w \in wishes' /\ (MailInFlight # {} => wishes \subseteq wishes' /\ wishes' = wishes \cup {w})
  BY DEF Wish
<1>3. /\ MailRequests /\ TurningOn /\ TurningOff /\ mail \in MailRow \cup {Nothing}
      /\ Off \notin Emails /\ Nothing \notin MailRow
  BY SettingsAssumption DEF MailInv, MailRequests, MailRow
<1>4. \A q \in MailInFlight : req[q].key \in wishes /\ (req[q].key \in Emails \/ req[q].key = Off)
  BY <1>3 DEF MailRequests, MailInFlight
<1>5. MailRequests'
  <2>1. ASSUME NEW q \in InFlight("subscribe")'
        PROVE  /\ req'[q].key \in Emails /\ req'[q].key \in wishes'
               /\ req'[q].seen \in MailRow \cup {Nothing}
    <3>1. CASE q = r
      BY <1>2, <1>3, <2>1, <3>1 DEF InFlight, MailOps
    <3>2. CASE q # r
      <4>1. q \in InFlight("subscribe") /\ req'[q] = req[q]
        BY <2>1, <3>2 DEF InFlight
      <4> QED
        BY <1>2, <1>3, <4>1 DEF MailRequests, MailInFlight
    <3> QED
      BY <3>1, <3>2
  <2>2. ASSUME NEW q \in InFlight("unsubscribe")'
        PROVE  req'[q].key = Off /\ Off \in wishes' /\ req'[q].seen \in MailRow
    <3>1. CASE q = r
      BY <1>2, <1>3, <2>2, <3>1 DEF InFlight, MailOps
    <3>2. CASE q # r
      <4>1. q \in InFlight("unsubscribe") /\ req'[q] = req[q]
        BY <2>2, <3>2 DEF InFlight
      <4> QED
        BY <1>2, <1>3, <4>1 DEF MailRequests, MailInFlight
    <3> QED
      BY <3>1, <3>2
  <2>3. \A q \in MailInFlight' : req'[q].seen # Nothing => mail' # Nothing
    BY <1>1, <1>3 DEF MailRequests
  <2> QED
    BY <1>3, <2>1, <2>2, <2>3 DEF MailRequests
<1>6. TurningOn'
  BY <1>1, <1>2, <1>3 DEF TurningOn
<1>7. TurningOff'
  <2> SUFFICES ASSUME wishes' = {Off}, NEW q \in MailInFlight', ~ req'[q].seen.is_active
               PROVE  ~ mail.is_active
    BY DEF TurningOff
  <2>1. CASE q = r
    BY <2>1
  <2>2. CASE q # r
    <3>1. q \in MailInFlight /\ req'[q] = req[q] /\ wishes = {Off}
      BY <1>1, <1>2, <1>4, <2>2
    <3> QED
      BY <1>3, <3>1 DEF TurningOff
  <2> QED
    BY <2>1, <2>2
<1>8. UnanimousMailHolds'
  BY <1>1 DEF UnanimousMailHolds
<1> QED
  BY <1>5, <1>6, <1>7, <1>8 DEF MailInv

LEMMA ReadMailStep ==
  ASSUME Shaped, MailInv, NEW r \in Requests, ReadMail(r)
  PROVE  Shaped' /\ MailInv' /\ Untouched(NotMailOps)
<1>1. UNCHANGED mail
  BY DEF ReadMail
<1>2. ASSUME NEW e \in Emails, Begin(r, "subscribe", e, mail), Wish(e)
      PROVE  Shaped' /\ MailInv' /\ Untouched(NotMailOps)
  <2>1. /\ Shaped' /\ \A q \in Requests \ {r} : req'[q] = req[q]
        /\ req[r].op = "none" /\ req'[r] = [op |-> "subscribe", key |-> e, seen |-> mail]
    BY <1>2, RequestSteps
  <2>2. MailInv'
    BY <1>1, <1>2, <2>1, BeginMail DEF MailOps
  <2> QED
    BY <2>1, <2>2 DEF Untouched, NotMailOps
<1>3. CASE mail # Nothing /\ Begin(r, "unsubscribe", Off, mail) /\ Wish(Off)
  <2>1. /\ Shaped' /\ \A q \in Requests \ {r} : req'[q] = req[q]
        /\ req[r].op = "none" /\ req'[r] = [op |-> "unsubscribe", key |-> Off, seen |-> mail]
    BY <1>3, RequestSteps
  <2>2. MailInv'
    BY <1>1, <1>3, <2>1, BeginMail DEF MailOps
  <2> QED
    BY <2>1, <2>2 DEF Untouched, NotMailOps
<1>4. CASE mail = Nothing /\ AnswerAtOnce(r) /\ Wish(Off)
  <2>1. Shaped' /\ req' = req
    BY <1>4, RequestSteps
  <2>2. /\ InFlight("subscribe")' = InFlight("subscribe")
        /\ InFlight("unsubscribe")' = InFlight("unsubscribe")
        /\ MailInFlight' = MailInFlight
    BY <2>1 DEF InFlight, MailInFlight
  <2>3. Off \in wishes' /\ wishes' \subseteq wishes \cup {Off}
        /\ (MailInFlight # {} => wishes \subseteq wishes')
    BY <1>4 DEF Wish
  <2>4. MailRequests'
    BY <1>1, <2>1, <2>2, <2>3 DEF MailInv, MailRequests, MailInFlight
  <2>5. TurningOn' /\ UnanimousMailHolds'
    BY <1>1, <1>4, <2>3, SettingsAssumption DEF TurningOn, UnanimousMailHolds
  <2>6. TurningOff'
    <3>1. \A q \in MailInFlight : q \in InFlight("subscribe") \/ req[q].seen # Nothing
      BY SettingsAssumption DEF MailInv, MailRequests, MailInFlight, MailRow
    <3>2. \A q \in MailInFlight : req[q].key \in Emails /\ req[q].key \in wishes
      BY <1>4, <3>1 DEF MailInv, MailRequests, MailInFlight
    <3>3. wishes' = {Off} => MailInFlight = {}
      BY <2>3, <3>2, SettingsAssumption
    <3> QED
      BY <2>2, <3>3 DEF TurningOff
  <2> QED
    BY <2>1, <2>4, <2>5, <2>6 DEF MailInv, Untouched
<1> QED
  BY <1>2, <1>3, <1>4 DEF ReadMail

LEMMA MailRows ==
  /\ \A x \in Emails, b \in BOOLEAN :
       LET row == [email |-> x, is_active |-> b] IN
       row \in MailRow /\ row.email = x /\ row.is_active = b
  /\ \A row \in MailRow : row.email \in Emails /\ row.is_active \in BOOLEAN
BY DEF MailRow

(* A request that writes the row ends; the others keep what they have read. *)
LEMMA WritesEnd ==
  ASSUME MailRequests, UNCHANGED wishes, mail' \in MailRow \cup {Nothing},
         mail # Nothing => mail' # Nothing,
         NEW r \in MailInFlight, req'[r].op = "none", \A q \in Requests \ {r} : req'[q] = req[q]
  PROVE  /\ MailRequests' /\ MailInFlight' \subseteq MailInFlight
         /\ \A q \in MailInFlight' : req'[q] = req[q]
<1>1. /\ InFlight("subscribe")' \subseteq InFlight("subscribe")
      /\ InFlight("unsubscribe")' \subseteq InFlight("unsubscribe")
      /\ \A q \in InFlight("subscribe")' \cup InFlight("unsubscribe")' : req'[q] = req[q]
  BY DEF InFlight
<1>2. MailInFlight' \subseteq MailInFlight /\ \A q \in MailInFlight' : req'[q] = req[q]
  BY <1>1 DEF MailInFlight
<1> QED
  BY <1>1, <1>2 DEF MailRequests

LEMMA SubscribeStep ==
  ASSUME Shaped, MailInv, NEW r \in Requests, Subscribe(r)
  PROVE  Shaped' /\ MailInv' /\ Untouched(NotMailOps)
<1> DEFINE e == req[r].key
           s == req[r].seen
           address == IF s.email = e THEN mail.email ELSE e
           active == IF s.is_active = TRUE THEN mail.is_active ELSE TRUE
<1>1. /\ Shaped' /\ req[r].op = "subscribe" /\ req'[r].op = "none"
      /\ UNCHANGED wishes /\ \A q \in Requests \ {r} : req'[q] = req[q]
  BY RequestSteps DEF Subscribe
<1>2. /\ r \in MailInFlight /\ e \in Emails /\ e \in wishes /\ s \in MailRow \cup {Nothing}
      /\ mail \in MailRow \cup {Nothing} /\ (s # Nothing => mail # Nothing) /\ Nothing \notin MailRow
      /\ wishes # {Off}
  BY <1>1, SettingsAssumption DEF MailInv, MailRequests, MailInFlight, InFlight, MailRow
<1>3. \/ s = Nothing /\ mail = Nothing /\ mail' = [email |-> e, is_active |-> TRUE]
      \/ s = Nothing /\ mail # Nothing /\ mail' = mail
      \/ s # Nothing /\ mail' = [email |-> address, is_active |-> active]
  BY DEF Subscribe, Written
<1> HIDE DEF e, s
<1>4. mail' \in MailRow /\ mail' # Nothing
  <2>1. CASE s = Nothing /\ mail = Nothing /\ mail' = [email |-> e, is_active |-> TRUE]
    BY <1>2, <2>1, MailRows
  <2>2. CASE s = Nothing /\ mail # Nothing /\ mail' = mail
    BY <1>2, <2>2
  <2>3. CASE s # Nothing /\ mail' = [email |-> address, is_active |-> active]
    <3>1. address \in Emails /\ active \in BOOLEAN
      BY <1>2, <2>3, MailRows
    <3> HIDE DEF address, active
    <3> QED
      BY <1>2, <2>3, <3>1, MailRows
  <2> QED
    BY <1>3, <2>1, <2>2, <2>3
<1>5. /\ MailRequests' /\ MailInFlight' \subseteq MailInFlight
      /\ \A q \in MailInFlight' : req'[q] = req[q]
  BY <1>1, <1>2, <1>4, WritesEnd DEF MailInv
(* What turning the subscription on promises of the row it writes. *)
<1>6. ASSUME wishes \subseteq Emails
      PROVE  /\ mail'.is_active /\ mail'.email \in wishes
             /\ (mail # Nothing /\ mail.is_active => mail'.is_active)
             /\ (mail # Nothing /\ mail.email \in wishes => mail'.email \in wishes)
  <2>1. /\ s = Nothing => mail = Nothing \/ (mail.is_active /\ mail.email \in wishes)
        /\ s # Nothing => (s.is_active => mail.is_active) /\ (s.email = e => mail.email \in wishes)
    BY <1>2, <1>6 DEF MailInv, TurningOn, s, e
  <2>2. CASE s = Nothing
    BY <1>2, <1>3, <2>1, <2>2
  <2>3. CASE s # Nothing
    <3>1. mail'.email = address
      <4> HIDE DEF address, active
      <4> QED
        BY <1>3, <2>3
    <3>2. mail'.is_active = active
      <4> HIDE DEF address, active
      <4> QED
        BY <1>3, <2>3
    <3>3. s.is_active \in BOOLEAN /\ mail.is_active \in BOOLEAN
      BY <1>2, <2>3 DEF MailRow
    <3>4. mail'.is_active
      BY <2>1, <2>3, <3>2, <3>3
    <3> QED
      BY <1>2, <2>1, <2>3, <3>1, <3>4
  <2> QED
    BY <2>2, <2>3
<1>7. TurningOn'
  BY <1>1, <1>4, <1>5, <1>6 DEF TurningOn
<1>8. TurningOff' /\ UnanimousMailHolds'
  BY <1>1, <1>2, <1>4, <1>6 DEF TurningOff, UnanimousMailHolds
<1> QED
  BY <1>1, <1>5, <1>7, <1>8 DEF MailInv, Untouched, NotMailOps

LEMMA UnsubscribeStep ==
  ASSUME Shaped, MailInv, NEW r \in Requests, Unsubscribe(r)
  PROVE  Shaped' /\ MailInv' /\ Untouched(NotMailOps)
<1> DEFINE s == req[r].seen
<1>1. /\ Shaped' /\ req[r].op = "unsubscribe" /\ req'[r].op = "none"
      /\ UNCHANGED wishes /\ \A q \in Requests \ {r} : req'[q] = req[q]
  BY RequestSteps DEF Unsubscribe
<1>2. /\ r \in MailInFlight /\ Off \in wishes /\ s \in MailRow /\ s # Nothing
      /\ mail \in MailRow /\ ~ (wishes \subseteq Emails) /\ Nothing \notin MailRow
  BY <1>1, SettingsAssumption DEF MailInv, MailRequests, MailInFlight, InFlight, MailRow
<1>3. mail' = [mail EXCEPT !.is_active = IF s.is_active = FALSE THEN mail.is_active ELSE FALSE]
  BY DEF Unsubscribe, Written
<1> HIDE DEF s
<1>4. /\ mail' \in MailRow /\ mail' # Nothing
      /\ mail'.is_active = IF s.is_active = FALSE THEN mail.is_active ELSE FALSE
  BY <1>2, <1>3 DEF MailRow
<1>5. /\ MailRequests' /\ MailInFlight' \subseteq MailInFlight
      /\ \A q \in MailInFlight' : req'[q] = req[q]
  BY <1>1, <1>2, <1>4, WritesEnd DEF MailInv
<1>6. wishes = {Off} => ~ mail'.is_active
  <2>1. wishes = {Off} => (~ s.is_active => ~ mail.is_active)
    BY <1>2 DEF MailInv, TurningOff, s
  <2>2. s.is_active \in BOOLEAN /\ mail.is_active \in BOOLEAN
    BY <1>2 DEF MailRow
  <2> QED
    BY <1>4, <2>1, <2>2
<1>7. TurningOn' /\ TurningOff' /\ UnanimousMailHolds'
  BY <1>1, <1>2, <1>6 DEF TurningOn, TurningOff, UnanimousMailHolds
<1> QED
  BY <1>1, <1>5, <1>7 DEF MailInv, Untouched, NotMailOps

(***************************************************************************)
(* All together.                                                            *)
(***************************************************************************)
LEMMA NothingInFlight ==
  ASSUME req = [r \in Requests |-> Free]
  PROVE  Shaped /\ MailInFlight = {}
         /\ \A op \in MailOps \cup {"advice", "optimize", "preset", "put"} : InFlight(op) = {}
<1>1. \A op : op # "none" => InFlight(op) = {}
  BY DEF InFlight, Free
<1> QED
  BY <1>1 DEF MailOps, MailInFlight, Shaped, Free

LEMMA Initially == Init => Inv
<1> SUFFICES ASSUME Init PROVE Inv
  OBVIOUS
<1>1. /\ req = [r \in Requests |-> Free] /\ Shaped /\ MailInFlight = {}
      /\ \A op \in MailOps \cup {"advice", "optimize", "preset", "put"} : InFlight(op) = {}
  BY NothingInFlight DEF Init, RequestsInit
<1>2. AdviceInv
  BY <1>1 DEF Init, AdviceInit, AdviceInv, OneAdviceADay
<1>3. PortfoliosInv
  BY <1>1 DEF Init, PortfoliosInit, PortfoliosInv, OptimizationIsRecent
<1>4. PresetsInv
  BY <1>1, SettingsAssumption, FS_EmptySet DEF Init, SettingsInit, PresetsInv
<1>5. MailInv
  <2>1. InFlight("subscribe") = {} /\ InFlight("unsubscribe") = {}
    BY <1>1 DEF MailOps
  <2> QED
    BY <1>1, <2>1 DEF Init, SettingsInit, MailInv, MailRequests, TurningOn, TurningOff,
                      UnanimousMailHolds
<1>6. PrefsInv
  BY <1>1 DEF Init, SettingsInit, PrefsInv, PreferencesAreOneRequests
<1> QED
  BY <1>1, <1>2, <1>3, <1>4, <1>5, <1>6 DEF Inv

LEMMA RestartStep == Inv /\ Restart => Inv'
<1> SUFFICES ASSUME Inv, Restart PROVE Inv'
  OBVIOUS
<1>1. /\ Shaped' /\ MailInFlight' = {}
      /\ \A op \in MailOps \cup {"advice", "optimize", "preset", "put"} : InFlight(op)' = {}
  <2>1. req' = [r \in Requests |-> Free]
    BY DEF Restart
  <2>2. \A op : op # "none" => InFlight(op)' = {}
    BY <2>1 DEF InFlight, Free
  <2> QED
    BY <2>1, <2>2 DEF MailOps, MailInFlight, Shaped, Free
<1>2. AdviceInv'
  BY <1>1 DEF Inv, Restart, adviceVars, AdviceInv, OneAdviceADay
<1>3. PortfoliosInv'
  <2>1. \A r \in Requests : req'[r].op # "optimize"
    BY <1>1 DEF InFlight
  <2> QED
    BY <2>1, OptimizationStep DEF Inv, Restart, PortfoliosInv
<1>4. PresetsInv'
  <2>1. UNCHANGED <<presets, creating>> /\ PresetsInv
    BY DEF Inv, Restart
  <2>2. Cardinality(InFlight("preset")) \in Nat /\ Cardinality(presets) \in Nat
    BY <2>1, RequestsAssumption, FS_Subset, FS_CardinalityType DEF InFlight, PresetsInv
  <2>3. Cardinality(InFlight("preset")') = 0
    BY <1>1, FS_EmptySet
  <2> QED
    BY <2>1, <2>2, <2>3, SettingsAssumption DEF PresetsInv
<1>5. MailInv'
  <2>1. InFlight("subscribe")' = {} /\ InFlight("unsubscribe")' = {}
    BY <1>1 DEF MailOps
  <2>2. UNCHANGED mail /\ (wishes' # {} => MailInFlight = {} /\ UNCHANGED wishes)
    BY DEF Restart
  <2> QED
    BY <1>1, <2>1, <2>2 DEF Inv, MailInv, MailRequests, TurningOn, TurningOff, UnanimousMailHolds
<1>6. PrefsInv'
  BY <1>1 DEF Inv, Restart, PrefsInv, PreferencesAreOneRequests
<1> QED
  BY <1>1, <1>2, <1>3, <1>4, <1>5, <1>6 DEF Inv

LEMMA UntouchedFewer ==
  ASSUME NEW more, NEW ops, ops \subseteq more, Untouched(more)
  PROVE  Untouched(ops)
BY DEF Untouched

LEMMA Inductive == Inv /\ [Next]_vars => Inv'
<1> SUFFICES ASSUME Inv, [Next]_vars PROVE Inv'
  OBVIOUS
<1> USE DEF Inv
<1>1. CASE AdviceNext /\ UNCHANGED <<portfolioVars, settingsVars>>
  <2>1. Shaped' /\ AdviceInv' /\ Untouched(OtherOps)
    BY <1>1, AdviceStep
  <2>2. /\ Untouched({"optimize"}) /\ Untouched({"preset"}) /\ Untouched(MailOps)
        /\ Untouched({"put"})
    BY <2>1, UntouchedFewer DEF OtherOps, MailOps
  <2> QED
    BY <1>1, <2>1, <2>2, PortfoliosKept, PresetsKept, MailKept, PrefsKept DEF settingsVars
<1>2. CASE PortfoliosNext /\ UNCHANGED <<adviceVars, settingsVars>>
  <2>1. Shaped' /\ PortfoliosInv' /\ Untouched(NotPortfolioOps)
    BY <1>2, PortfoliosStep
  <2>2. /\ Untouched({"advice"}) /\ Untouched({"preset"}) /\ Untouched(MailOps)
        /\ Untouched({"put"})
    BY <2>1, UntouchedFewer DEF NotPortfolioOps, MailOps
  <2> QED
    BY <1>2, <2>1, <2>2, AdviceKept, PresetsKept, MailKept, PrefsKept DEF settingsVars
<1>3. CASE SettingsNext /\ UNCHANGED <<adviceVars, portfolioVars>>
  <2>1. PICK r \in Requests :
          \/ \E name \in PresetNames : CountPresets(r, name) \/ DeletePreset(r, name)
          \/ InsertPreset(r)
          \/ ReadMail(r) \/ Subscribe(r) \/ Unsubscribe(r)
          \/ PutPreferences(r) \/ UpsertItem(r) \/ DeadlockVictim(r) \/ CommitPreferences(r)
    BY <1>3 DEF SettingsNext
  <2>2. ASSUME NEW name, CountPresets(r, name) \/ DeletePreset(r, name) \/ InsertPreset(r)
        PROVE  Inv'
    <3>1. Shaped' /\ PresetsInv' /\ Untouched(NotPresetOps)
      BY <2>2, PresetsStep
    <3>2. UNCHANGED <<mail, wishes, prefs>>
      BY <2>2 DEF CountPresets, DeletePreset, InsertPreset
    <3>3. /\ Untouched({"advice"}) /\ Untouched({"optimize"}) /\ Untouched(MailOps)
          /\ Untouched({"put"})
      BY <3>1, UntouchedFewer DEF NotPresetOps, MailOps
    <3> QED
      BY <1>3, <3>1, <3>2, <3>3, AdviceKept, PortfoliosKept, MailKept, PrefsKept
  <2>3. ASSUME ReadMail(r) \/ Subscribe(r) \/ Unsubscribe(r)
        PROVE  Inv'
    <3>1. Shaped' /\ MailInv' /\ Untouched(NotMailOps)
      BY <2>3, ReadMailStep, SubscribeStep, UnsubscribeStep
    <3>2. UNCHANGED <<presets, creating, prefs>>
      BY <2>3 DEF ReadMail, Subscribe, Unsubscribe
    <3>3. /\ Untouched({"advice"}) /\ Untouched({"optimize"}) /\ Untouched({"preset"})
          /\ Untouched({"put"})
      BY <3>1, UntouchedFewer DEF NotMailOps
    <3> QED
      BY <1>3, <3>1, <3>2, <3>3, AdviceKept, PortfoliosKept, PresetsKept, PrefsKept
  <2>4. ASSUME PutPreferences(r) \/ UpsertItem(r) \/ DeadlockVictim(r) \/ CommitPreferences(r)
        PROVE  Inv'
    <3>1. Shaped' /\ PrefsInv' /\ Untouched(NotPutOps)
      BY <2>4, PrefsStep
    <3>2. UNCHANGED <<presets, creating, mail, wishes>>
      BY <2>4 DEF PutPreferences, UpsertItem, DeadlockVictim, CommitPreferences, settingsVars
    <3>3. /\ Untouched({"advice"}) /\ Untouched({"optimize"}) /\ Untouched({"preset"})
          /\ Untouched(MailOps)
      BY <3>1, UntouchedFewer DEF NotPutOps, MailOps
    <3> QED
      BY <1>3, <3>1, <3>2, <3>3, AdviceKept, PortfoliosKept, PresetsKept, MailKept
  <2> QED
    BY <2>1, <2>2, <2>3, <2>4
<1>4. CASE Restart
  BY <1>4, RestartStep
<1>5. CASE UNCHANGED vars
  <2>1. \A ops : Untouched(ops)
    BY <1>5 DEF vars, reqVars, Untouched
  <2>2. Shaped'
    BY <1>5 DEF vars, reqVars, Shaped
  <2> QED
    BY <1>5, <2>1, <2>2, AdviceKept, PortfoliosKept, PresetsKept, MailKept, PrefsKept
    DEF vars, settingsVars
<1> QED
  BY <1>1, <1>2, <1>3, <1>4, <1>5 DEF Next

(***************************************************************************)
(* The inductive invariant of the routes of a user's own data: what the     *)
(* requests in flight have read, and what that still says of the tables.    *)
(***************************************************************************)
THEOREM InvHolds == Spec => []Inv
<1>1. Init => Inv
  BY Initially
<1>2. Inv /\ [Next]_vars => Inv'
  BY Inductive
<1> QED
  BY <1>1, <1>2, PTL DEF Spec

(***************************************************************************)
(* However many requests race, the answers of one user, type and day show   *)
(* the one advice that is stored (advice/router.py).                        *)
(***************************************************************************)
THEOREM AnswersShowOne == Spec => []OneAdviceADay
<1>1. Inv => OneAdviceADay
  BY DEF Inv, AdviceInv
<1> QED
  BY <1>1, InvHolds, PTL

(***************************************************************************)
(* A cached optimisation is of holdings its portfolio had while the request *)
(* that stored it was in flight (portfolio/service.py).                     *)
(***************************************************************************)
THEOREM OptimizationOfOwn == Spec => []OptimizationIsRecent
<1>1. Inv => OptimizationIsRecent
  BY DEF Inv, PortfoliosInv
<1> QED
  BY <1>1, InvHolds, PTL

(***************************************************************************)
(* A user exceeds the limit on presets by races only, by one less than the  *)
(* creations that ever overlapped (screener/service.py).                    *)
(***************************************************************************)
THEOREM PresetsHold == Spec => []PresetsWithinRace
<1>1. Inv => PresetsWithinRace
  <2> SUFFICES ASSUME Inv PROVE PresetsWithinRace
    OBVIOUS
  <2>1. Cardinality(presets) \in Nat /\ Cardinality(InFlight("preset")) \in Nat
    BY RequestsAssumption, FS_Subset, FS_CardinalityType DEF Inv, PresetsInv, InFlight
  <2>2. creating \in Nat /\ MAX_PRESETS_PER_USER \in Nat
    BY SettingsAssumption DEF Inv, PresetsInv
  <2>3. Max({MAX_PRESETS_PER_USER, MAX_PRESETS_PER_USER + creating - 1})
          = IF MAX_PRESETS_PER_USER >= MAX_PRESETS_PER_USER + creating - 1
            THEN MAX_PRESETS_PER_USER ELSE MAX_PRESETS_PER_USER + creating - 1
    BY <2>2, MaxOfTwo
  <2>4. Cardinality(presets) + Cardinality(InFlight("preset")) =<
          MAX_PRESETS_PER_USER + (IF creating > 1 THEN creating - 1 ELSE 0)
    BY DEF Inv, PresetsInv
  <2> QED
    BY <2>1, <2>2, <2>3, <2>4 DEF PresetsWithinRace
<1> QED
  BY <1>1, InvHolds, PTL

(***************************************************************************)
(* Requests about the e-mail subscription that want the same get it, in     *)
(* whatever order they read and write (notifications/email_service.py).     *)
(***************************************************************************)
THEOREM UnanimousHolds == Spec => []UnanimousMailHolds
<1>1. Inv => UnanimousMailHolds
  BY DEF Inv, MailInv
<1> QED
  BY <1>1, InvHolds, PTL

(***************************************************************************)
(* Preferences are never a mixture of two bodies that name the same types   *)
(* (notifications/preferences.py).                                          *)
(***************************************************************************)
THEOREM PreferencesNeverMix == Spec => []PreferencesAreOneRequests
<1>1. Inv => PreferencesAreOneRequests
  BY DEF Inv, PrefsInv
<1> QED
  BY <1>1, InvHolds, PTL
=============================================================================
