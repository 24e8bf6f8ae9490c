----------------------- MODULE ConnectionRegistryProofs -----------------------
(***************************************************************************)
(* Theorems about ConnectionRegistry, for any number of connections and     *)
(* symbols.  The four lemmas state once what an operation of the            *)
(* ConnectionManager does to the two dictionaries; the theorems follow by   *)
(* looking at which operation each step of a coroutine calls.               *)
(***************************************************************************)
EXTENDS ConnectionRegistry, TLAPS

(* The part of TypeOK and the invariants that is about the dictionaries. *)
Registry ==
  /\ registered \subseteq Conns
  /\ connSymbols \in [Conns -> SUBSET Symbols]
  /\ listed \subseteq Symbols
  /\ symbolConns \in [Symbols -> SUBSET Conns]
  /\ IndexesAgree
  /\ ListedIffFollowed

(* The rest of TypeOK. *)
Control ==
  /\ handler \in [Conns -> {"new", "receive", "push", "unsubscribed", "done"}]
  /\ pushing \in [Conns -> SUBSET Symbols]
  /\ alive \subseteq Conns
  /\ quoted \subseteq Symbols
  /\ loop \in [pc : {"sleep", "symbol", "send"}, symbols : SUBSET Symbols,
               sym : Symbols \cup {NoSymbol}, targets : SUBSET Conns, dead : SUBSET Conns]

(* NoGhosts is what makes Accept harmless: it clears the entry of a connection
   the index by symbol must not mention. *)
Inv == Registry /\ Control /\ NoGhosts

(***************************************************************************)
(* ConnectionManager.connect, called for a connection with no symbols,      *)
(* keeps the dictionaries consistent.                                       *)
(***************************************************************************)
LEMMA ConnectKeepsRegistry ==
  ASSUME Registry, NEW ws \in Conns, connSymbols[ws] = {}, connect(ws)
  PROVE  /\ Registry'
         /\ connSymbols' = connSymbols
<1>1. connSymbols' = connSymbols
  BY DEF Registry, connect
<1> QED
  BY <1>1 DEF Registry, connect, IndexesAgree, ListedIffFollowed

(***************************************************************************)
(* ConnectionManager.disconnect keeps them consistent, empties the entries  *)
(* of the connections it is given and leaves the others alone.              *)
(***************************************************************************)
LEMMA DisconnectKeepsRegistry ==
  ASSUME Registry, NEW D \in SUBSET Conns, disconnect(D)
  PROVE  /\ Registry'
         /\ \A ws \in D : ws \notin registered' /\ connSymbols'[ws] = {}
         /\ \A ws \in Conns \ D : /\ ws \in registered' <=> ws \in registered
                                  /\ connSymbols'[ws] = connSymbols[ws]
         /\ \A s \in Symbols : symbolConns'[s] = symbolConns[s] \ D
<1>1. /\ registered' \subseteq Conns
      /\ connSymbols' \in [Conns -> SUBSET Symbols]
      /\ listed' \subseteq Symbols
      /\ symbolConns' \in [Symbols -> SUBSET Conns]
  BY DEF Registry, disconnect
<1>2. \A s \in Symbols : symbolConns'[s] = symbolConns[s] \ D
  BY DEF Registry, disconnect, Leaving, IndexesAgree
<1>3. \A ws \in Conns : connSymbols'[ws] = IF ws \in D THEN {} ELSE connSymbols[ws]
  BY DEF disconnect
<1>4. IndexesAgree'
  BY <1>2, <1>3 DEF Registry, IndexesAgree
<1>5. ListedIffFollowed'
  <2> SUFFICES ASSUME NEW s \in Symbols
               PROVE  s \in listed' <=> symbolConns'[s] # {}
    BY DEF ListedIffFollowed
  <2>1. symbolConns'[s] = symbolConns[s] \ Leaving(D, s)
    BY DEF disconnect
  <2>2. s \in listed' <=> s \in listed /\ (Leaving(D, s) = {} \/ symbolConns'[s] # {})
    BY <2>1 DEF disconnect
  <2>3. s \in listed <=> symbolConns[s] # {}
    BY DEF Registry, ListedIffFollowed
  <2>4. Leaving(D, s) = {} => symbolConns'[s] = symbolConns[s]
    BY <2>1
  <2> QED
    BY <2>1, <2>2, <2>3, <2>4
<1> QED
  BY <1>1, <1>2, <1>3, <1>4, <1>5 DEF Registry, disconnect

(***************************************************************************)
(* ConnectionManager.subscribe adds the connection to each symbol of the    *)
(* message, in both directions, and touches no other connection.            *)
(***************************************************************************)
LEMMA SubscribeKeepsRegistry ==
  ASSUME Registry, NEW ws \in Conns, NEW S \in SUBSET Symbols, subscribe(ws, S)
  PROVE  /\ Registry'
         /\ \A v \in Conns \ {ws} : /\ v \in registered' <=> v \in registered
                                    /\ connSymbols'[v] = connSymbols[v]
<1>1. /\ registered' \subseteq Conns
      /\ connSymbols' \in [Conns -> SUBSET Symbols]
      /\ listed' \subseteq Symbols
      /\ symbolConns' \in [Symbols -> SUBSET Conns]
  BY DEF Registry, subscribe
<1>2. IndexesAgree'
  BY DEF Registry, subscribe, IndexesAgree
<1>3. ListedIffFollowed'
  BY DEF Registry, subscribe, ListedIffFollowed
<1> QED
  BY <1>1, <1>2, <1>3 DEF Registry, subscribe

(***************************************************************************)
(* ConnectionManager.unsubscribe takes the connection out of each symbol of *)
(* the message, in both directions, and drops the symbols nobody is left on.*)
(***************************************************************************)
LEMMA UnsubscribeKeepsRegistry ==
  ASSUME Registry, NEW ws \in Conns, NEW S \in SUBSET Symbols, unsubscribe(ws, S)
  PROVE  /\ Registry'
         /\ registered' = registered
         /\ \A v \in Conns \ {ws} : connSymbols'[v] = connSymbols[v]
<1>1. /\ registered' \subseteq Conns
      /\ connSymbols' \in [Conns -> SUBSET Symbols]
      /\ listed' \subseteq Symbols
      /\ symbolConns' \in [Symbols -> SUBSET Conns]
  BY DEF Registry, unsubscribe
<1>2. IndexesAgree'
  BY DEF Registry, unsubscribe, IndexesAgree
<1>3. ListedIffFollowed'
  BY DEF Registry, unsubscribe, ListedIffFollowed
<1> QED
  BY <1>1, <1>2, <1>3 DEF Registry, unsubscribe
-----------------------------------------------------------------------------
LEMMA InvInit == Init => Inv
  BY SymbolsAssumption DEF Init, Inv, Registry, Control, IndexesAgree, ListedIffFollowed,
     NoGhosts, Asleep

(***************************************************************************)
(* Inv is inductive: one step per action, in the order of Next.             *)
(***************************************************************************)
LEMMA InvStep == Inv /\ [Next]_vars => Inv'
<1> SUFFICES ASSUME Inv, [Next]_vars PROVE Inv'
  OBVIOUS
<1> USE DEF Inv
<1>1. ASSUME NEW ws \in Conns, Accept(ws) PROVE Inv'
  <2>1. connSymbols[ws] = {} /\ connect(ws)
    BY <1>1 DEF Accept, At, NoGhosts
  <2>2. Registry' /\ connSymbols' = connSymbols
    BY <2>1, ConnectKeepsRegistry
  <2>3. Control'
    BY <1>1 DEF Accept, At, Control
  <2>4. NoGhosts'
    BY <1>1, <2>2 DEF Accept, At, Control, NoGhosts, connect
  <2> QED
    BY <2>2, <2>3, <2>4
<1>2. ASSUME NEW ws \in Conns, ReceiveSubscribe(ws) PROVE Inv'
  <2>1. PICK S \in SUBSET Symbols : subscribe(ws, S) /\ pushing' = [pushing EXCEPT ![ws] = S]
    BY <1>2 DEF ReceiveSubscribe
  <2>2. /\ Registry'
        /\ \A v \in Conns \ {ws} : /\ v \in registered' <=> v \in registered
                                   /\ connSymbols'[v] = connSymbols[v]
    BY <2>1, SubscribeKeepsRegistry
  <2>3. Control'
    BY <1>2, <2>1 DEF ReceiveSubscribe, At, Control
  <2>4. NoGhosts'
    BY <1>2, <2>2 DEF ReceiveSubscribe, At, Control, NoGhosts
  <2> QED
    BY <2>2, <2>3, <2>4
<1>3. ASSUME NEW ws \in Conns, ReceiveUnsubscribe(ws) PROVE Inv'
  <2>1. PICK S \in SUBSET Symbols : unsubscribe(ws, S)
    BY <1>3 DEF ReceiveUnsubscribe
  <2>2. /\ Registry'
        /\ registered' = registered
        /\ \A v \in Conns \ {ws} : connSymbols'[v] = connSymbols[v]
    BY <2>1, UnsubscribeKeepsRegistry
  <2>3. Control'
    BY <1>3 DEF ReceiveUnsubscribe, At, Control
  <2>4. NoGhosts'
    BY <1>3, <2>2 DEF ReceiveUnsubscribe, At, Control, NoGhosts
  <2> QED
    BY <2>2, <2>3, <2>4
<1>4. ASSUME NEW ws \in Conns, EndSession(ws) PROVE Inv'
  <2>1. disconnect({ws})
    BY <1>4 DEF EndSession
  <2>2. /\ Registry'
        /\ ws \notin registered' /\ connSymbols'[ws] = {}
        /\ \A v \in Conns \ {ws} : /\ v \in registered' <=> v \in registered
                                   /\ connSymbols'[v] = connSymbols[v]
    BY <2>1, DisconnectKeepsRegistry, {ws} \in SUBSET Conns
  <2>3. Control'
    BY <1>4 DEF EndSession, Control
  <2>4. NoGhosts'
    BY <1>4, <2>2 DEF EndSession, Control, NoGhosts
  <2> QED
    BY <2>2, <2>3, <2>4
<1>5. CASE Reap
  <2>1. disconnect(loop.dead) /\ loop.dead \in SUBSET Conns
    BY <1>5 DEF Reap, Control
  <2>2. /\ Registry'
        /\ \A v \in loop.dead : v \notin registered' /\ connSymbols'[v] = {}
        /\ \A v \in Conns \ loop.dead : /\ v \in registered' <=> v \in registered
                                        /\ connSymbols'[v] = connSymbols[v]
    BY <2>1, DisconnectKeepsRegistry
  <2>3. Control'
    BY <1>5 DEF Reap, Control
  <2>4. NoGhosts'
    BY <1>5, <2>2 DEF Reap, Control, NoGhosts
  <2> QED
    BY <2>2, <2>3, <2>4
<1>6. ASSUME NEW ws \in Conns, PushFirst(ws) \/ AckSubscribe(ws) \/ AckUnsubscribe(ws)
      PROVE Inv'
  <2>1. UNCHANGED registry
    BY <1>6 DEF PushFirst, AckSubscribe, AckUnsubscribe
  <2>2. Registry'
    BY <2>1 DEF registry, Registry, IndexesAgree, ListedIffFollowed
  <2>3. Control' /\ NoGhosts'
    BY <1>6, <2>1 DEF PushFirst, AckSubscribe, AckUnsubscribe, At, Control, NoGhosts, registry
  <2> QED
    BY <2>2, <2>3
<1>7. CASE WakeUp \/ NextSymbol \/ EndCycle \/ (\E ws \in Conns : SendTo(ws))
  <2>1. UNCHANGED registry /\ UNCHANGED handler
    BY <1>7 DEF WakeUp, NextSymbol, EndCycle, SendTo
  <2>2. Registry' /\ NoGhosts'
    BY <2>1 DEF registry, Registry, IndexesAgree, ListedIffFollowed, NoGhosts
  <2>3. CASE WakeUp
    BY <2>2, <2>3 DEF WakeUp, Control, Registry
  <2>4. CASE NextSymbol
    <3>1. PICK s \in loop.symbols :
            loop' = IF s \in quoted
                    THEN [loop EXCEPT !.pc = "send", !.symbols = @ \ {s}, !.sym = s,
                                      !.targets = symbolConns[s]]
                    ELSE [loop EXCEPT !.symbols = @ \ {s}]
      BY <2>4 DEF NextSymbol
    <3>2. /\ s \in Symbols
          /\ symbolConns[s] \in SUBSET Conns
          /\ loop.symbols \ {s} \in SUBSET Symbols
      BY DEF Control, Registry
    <3>3. CASE s \in quoted
      BY <3>1, <3>2, <3>3, <2>2, <2>4 DEF NextSymbol, Control
    <3>4. CASE s \notin quoted
      BY <3>1, <3>2, <3>4, <2>2, <2>4 DEF NextSymbol, Control
    <3> QED
      BY <3>3, <3>4
  <2>5. CASE EndCycle
    BY <2>2, <2>5 DEF EndCycle, Control, Asleep
  <2>6. CASE \E ws \in Conns : SendTo(ws)
    <3>1. PICK ws \in Conns : SendTo(ws)
      BY <2>6
    <3>2. /\ loop.targets \ {ws} \in SUBSET Conns
          /\ loop.dead \cup {ws} \in SUBSET Conns
      BY DEF Control
    <3>3. CASE loop' = [loop EXCEPT !.targets = @ \ {ws}]
      BY <3>1, <3>2, <3>3, <2>2 DEF SendTo, Control
    <3>4. CASE loop' = [loop EXCEPT !.targets = @ \ {ws}, !.dead = @ \cup {ws}]
      BY <3>1, <3>2, <3>4, <2>2 DEF SendTo, Control
    <3> QED
      BY <3>1, <3>3, <3>4 DEF SendTo
  <2> QED
    BY <1>7, <2>3, <2>4, <2>5, <2>6
<1>8. CASE PriceComesOrGoes \/ (\E ws \in Conns : ClientLeaves(ws)) \/ UNCHANGED vars
  <2>1. UNCHANGED registry /\ UNCHANGED handler /\ UNCHANGED <<pushing, loop>>
    BY <1>8 DEF PriceComesOrGoes, ClientLeaves, vars, registry
  <2>2. Registry' /\ NoGhosts'
    BY <2>1 DEF registry, Registry, IndexesAgree, ListedIffFollowed, NoGhosts
  <2>3. alive' \subseteq Conns /\ quoted' \subseteq Symbols
    BY <1>8, SymbolsAssumption DEF PriceComesOrGoes, ClientLeaves, vars, Control
  <2> QED
    BY <2>1, <2>2, <2>3 DEF Control
<1> QED
  BY <1>1, <1>2, <1>3, <1>4, <1>5, <1>6, <1>7, <1>8 DEF Next, Handler, Broadcast

THEOREM InvHolds == Spec => []Inv
  BY InvInit, InvStep, PTL DEF Spec

(***************************************************************************)
(* Every variable keeps the shape the code gives it.                        *)
(***************************************************************************)
THEOREM TypeCorrect == Spec => []TypeOK
<1>1. Inv => TypeOK
  BY DEF Inv, Registry, Control, TypeOK
<1> QED
  BY <1>1, InvHolds, PTL

(***************************************************************************)
(* The two dictionaries of the ConnectionManager are always one relation,   *)
(* and get_all_symbols names exactly the symbols somebody follows.          *)
(***************************************************************************)
THEOREM DictionariesAgree == Spec => [](IndexesAgree /\ ListedIffFollowed)
<1>1. Inv => IndexesAgree /\ ListedIffFollowed
  BY DEF Inv, Registry
<1> QED
  BY <1>1, InvHolds, PTL

(***************************************************************************)
(* A session that has ended, or has not begun, is nowhere in the registry.  *)
(***************************************************************************)
THEOREM SessionsLeaveNothing == Spec => []NoGhosts
<1>1. Inv => NoGhosts
  BY DEF Inv
<1> QED
  BY <1>1, InvHolds, PTL
-----------------------------------------------------------------------------
(* The refinement mapping of ConnectionRegistry, by name. *)
Sessions == {ws \in Conns : handler[ws] \notin {"new", "done"}}
Subs == {p \in Conns \X Symbols : p[1] \in symbolConns[p[2]]}

(***************************************************************************)
(* Every step of a coroutine is a step of SubscriptionRelation or changes   *)
(* neither the open sessions nor the relation.                              *)
(***************************************************************************)
LEMMA StepRefines ==
  Inv /\ [Next]_vars => [Relation!Next]_<<Sessions, Subs>>
<1> SUFFICES ASSUME Inv, [Next]_vars
             PROVE  Relation!Next \/ UNCHANGED <<Sessions, Subs>>
  OBVIOUS
<1> USE DEF Inv
<1>1. ASSUME NEW ws \in Conns, Accept(ws) PROVE Relation!Next
  <2>1. Subs' = Subs
    BY <1>1 DEF Accept, connect, Subs
  <2>2. ws \notin Sessions /\ Sessions' = Sessions \cup {ws}
    BY <1>1 DEF Accept, At, Control, Sessions
  <2>3. Relation!Open(ws)
    BY <2>1, <2>2 DEF Relation!Open, Sessions, Subs
  <2> QED
    BY <2>3 DEF Relation!Next
<1>2. ASSUME NEW ws \in Conns, ReceiveSubscribe(ws) PROVE Relation!Next
  <2>1. PICK S \in SUBSET Symbols : subscribe(ws, S)
    BY <1>2 DEF ReceiveSubscribe
  <2>2. Subs' = Subs \cup ({ws} \X S)
    BY <2>1 DEF subscribe, Subs, Registry
  <2>3. ws \in Sessions /\ Sessions' = Sessions
    BY <1>2 DEF ReceiveSubscribe, At, Control, Sessions
  <2>4. Relation!Subscribe(ws, S)
    BY <2>2, <2>3 DEF Relation!Subscribe, Sessions, Subs
  <2> QED
    BY <2>4 DEF Relation!Next
<1>3. ASSUME NEW ws \in Conns, ReceiveUnsubscribe(ws) PROVE Relation!Next
  <2>1. PICK S \in SUBSET Symbols : unsubscribe(ws, S)
    BY <1>3 DEF ReceiveUnsubscribe
  <2>2. Subs' = Subs \ ({ws} \X S)
    BY <2>1 DEF unsubscribe, Subs, Registry
  <2>3. ws \in Sessions /\ Sessions' = Sessions
    BY <1>3 DEF ReceiveUnsubscribe, At, Control, Sessions
  <2>4. Relation!Unsubscribe(ws, S)
    BY <2>2, <2>3 DEF Relation!Unsubscribe, Sessions, Subs
  <2> QED
    BY <2>4 DEF Relation!Next
<1>4. ASSUME NEW ws \in Conns, EndSession(ws) PROVE Relation!Next
  <2>1. \A s \in Symbols : symbolConns'[s] = symbolConns[s] \ {ws}
    BY <1>4, DisconnectKeepsRegistry, {ws} \in SUBSET Conns DEF EndSession
  <2>2. Subs' = {p \in Subs : p[1] \notin {ws}}
    BY <2>1 DEF Subs
  <2>3. ws \in Sessions /\ Sessions' = Sessions \ {ws}
    BY <1>4 DEF EndSession, Control, Sessions
  <2>4. Relation!Close(ws)
    BY <2>2, <2>3 DEF Relation!Close, Relation!Without, Sessions, Subs
  <2> QED
    BY <2>4 DEF Relation!Next
<1>5. CASE Reap
  <2>1. PICK D \in SUBSET Conns : D = loop.dead
    BY DEF Control
  <2>2. disconnect(D) /\ UNCHANGED handler
    BY <1>5, <2>1 DEF Reap, disconnect, Leaving
  <2>3. \A s \in Symbols : symbolConns'[s] = symbolConns[s] \ D
    BY <2>2, DisconnectKeepsRegistry
  <2>4. Subs' = {p \in Subs : p[1] \notin D}
    BY <2>3 DEF Subs
  <2>5. Relation!Reap(D)
    BY <2>2, <2>4 DEF Relation!Reap, Relation!Without, Sessions, Subs
  <2> QED
    BY <2>5 DEF Relation!Next
<1>6. ASSUME NEW ws \in Conns, PushFirst(ws) PROVE UNCHANGED <<Sessions, Subs>>
  BY <1>6 DEF PushFirst, registry, Sessions, Subs
<1>7. ASSUME NEW ws \in Conns, AckSubscribe(ws) \/ AckUnsubscribe(ws)
      PROVE UNCHANGED <<Sessions, Subs>>
  <2>1. UNCHANGED registry
    BY <1>7 DEF AckSubscribe, AckUnsubscribe
  <2>2. Sessions' = Sessions
    BY <1>7 DEF AckSubscribe, AckUnsubscribe, At, Control, Sessions
  <2> QED
    BY <2>1, <2>2 DEF registry, Subs
<1>8. CASE \/ WakeUp \/ NextSymbol \/ EndCycle \/ (\E ws \in Conns : SendTo(ws))
           \/ PriceComesOrGoes \/ (\E ws \in Conns : ClientLeaves(ws)) \/ UNCHANGED vars
  <2>1. UNCHANGED registry /\ UNCHANGED handler
    BY <1>8 DEF WakeUp, NextSymbol, EndCycle, SendTo, PriceComesOrGoes, ClientLeaves, vars,
       registry
  <2> QED
    BY <2>1 DEF registry, Sessions, Subs
<1> QED
  BY <1>1, <1>2, <1>3, <1>4, <1>5, <1>6, <1>7, <1>8 DEF Next, Handler, Broadcast

(***************************************************************************)
(* The registry, the handlers and the broadcast loop together implement the *)
(* subscription relation.                                                   *)
(***************************************************************************)
THEOREM ImplementsRelation == Spec => RelationSpec
<1>1. Init => Relation!Init
  BY DEF Init, Relation!Init
<1>2. Inv /\ [Next]_vars => [Relation!Next]_<<Sessions, Subs>>
  BY StepRefines
<1>3. Spec => Relation!Spec
  BY <1>1, <1>2, InvHolds, PTL DEF Spec, Relation!Spec, Sessions, Subs
<1> QED
  BY <1>3 DEF RelationSpec
=============================================================================
