------------------------- MODULE ConnectionRegistry -------------------------
(***************************************************************************)
(* The multiplexed price stream /ws/prices: ConnectionManager with its two *)
(* dictionaries, the handler coroutine of each WebSocket, and the broadcast *)
(* loop.  All run on one event loop, so a step of the model is the code     *)
(* between two awaits; the awaits that let another coroutine run are        *)
(* accept, receive_text, each send_json and the sleep between cycles.       *)
(*                                                                         *)
(* A dictionary is a set of present keys and a total function that is {}   *)
(* outside it: registered / connSymbols for _conn_symbols, listed /        *)
(* symbolConns for _symbol_conns.  A Conn is one WebSocket object: it is    *)
(* used for one session and never again.                                   *)
(***************************************************************************)
EXTENDS FiniteSets

CONSTANTS
  Conns,    \* WebSocket objects
  Symbols,  \* krx codes clients ask for
  Unsteady, \* those among them whose price lookup may fail
  NoSymbol  \* "no symbol being broadcast"

ASSUME SymbolsAssumption == NoSymbol \notin Symbols /\ Unsteady \subseteq Symbols

VARIABLES
  registered, connSymbols,   \* _conn_symbols
  listed, symbolConns,       \* _symbol_conns
  handler,      \* where the coroutine of each WebSocket is
  pushing,      \* symbols whose first price the handler has still to push
  alive,        \* clients that are still there
  quoted,       \* symbols get_price_or_mock has a price for
  loop          \* the broadcast loop: pc, symbols and connections still to serve

registry == <<registered, connSymbols, listed, symbolConns>>
vars == <<registered, connSymbols, listed, symbolConns, handler, pushing, alive,
          quoted, loop>>

Asleep == [pc |-> "sleep", symbols |-> {}, sym |-> NoSymbol, targets |-> {}, dead |-> {}]

Init ==
  /\ registered = {} /\ connSymbols = [ws \in Conns |-> {}]
  /\ listed = {}     /\ symbolConns = [s \in Symbols |-> {}]
  /\ handler = [ws \in Conns |-> "new"]
  /\ pushing = [ws \in Conns |-> {}]
  /\ alive = Conns
  /\ quoted \in SUBSET Symbols /\ Symbols \ Unsteady \subseteq quoted
  /\ loop = Asleep
-----------------------------------------------------------------------------
(***************************************************************************)
(* ConnectionManager.                                                      *)
(***************************************************************************)
connect(ws) ==
  /\ registered' = registered \cup {ws}
  /\ connSymbols' = [connSymbols EXCEPT ![ws] = {}]
  /\ UNCHANGED <<listed, symbolConns>>

(* disconnect, for every connection of D in turn: each is taken out of the
   symbols it is itself recorded to follow, and a symbol left with nobody is
   taken out of the index. *)
Leaving(D, s) == {ws \in D : s \in connSymbols[ws]}

(* Mutant: only _conn_symbols is cleaned. *)
disconnectOneIndex(D) ==
  /\ registered' = registered \ D
  /\ connSymbols' = [ws \in Conns |-> IF ws \in D THEN {} ELSE connSymbols[ws]]
  /\ UNCHANGED <<listed, symbolConns>>

disconnect(D) ==
  /\ registered' = registered \ D
  /\ connSymbols' = [ws \in Conns |-> IF ws \in D THEN {} ELSE connSymbols[ws]]
  /\ symbolConns' = [s \in Symbols |-> symbolConns[s] \ Leaving(D, s)]
  /\ listed' = {s \in listed : Leaving(D, s) = {} \/ symbolConns[s] \ Leaving(D, s) # {}}

(* Mutant: a subscription replaces the earlier ones. *)
subscribeReplaces(ws, S) ==
  /\ registered' = registered \cup {ws}
  /\ connSymbols' = [connSymbols EXCEPT ![ws] = S]
  /\ symbolConns' = [s \in Symbols |->
                       IF s \in S THEN symbolConns[s] \cup {ws} ELSE symbolConns[s] \ {ws}]
  /\ listed' = {s \in Symbols : s \in S \/ symbolConns[s] \ {ws} # {}}

(* subscribe: setdefault registers a connection the loop has dropped. *)
subscribe(ws, S) ==
  /\ registered' = registered \cup {ws}
  /\ connSymbols' = [connSymbols EXCEPT ![ws] = @ \cup S]
  /\ symbolConns' = [s \in Symbols |->
                       IF s \in S THEN symbolConns[s] \cup {ws} ELSE symbolConns[s]]
  /\ listed' = listed \cup S

(* Mutant: an emptied symbol stays in the index. *)
unsubscribeKeepsEmpty(ws, S) ==
  /\ UNCHANGED <<registered, listed>>
  /\ connSymbols' = [connSymbols EXCEPT ![ws] = @ \ S]
  /\ symbolConns' = [s \in Symbols |->
                       IF s \in S THEN symbolConns[s] \ {ws} ELSE symbolConns[s]]

(* unsubscribe: a connection that is not registered loses nothing, and the
   reverse index is cleaned for every symbol the message names. *)
unsubscribe(ws, S) ==
  /\ UNCHANGED registered
  /\ connSymbols' = [connSymbols EXCEPT ![ws] = @ \ S]
  /\ symbolConns' = [s \in Symbols |->
                       IF s \in S THEN symbolConns[s] \ {ws} ELSE symbolConns[s]]
  /\ listed' = {s \in listed : s \in S => symbolConns[s] \ {ws} # {}}
-----------------------------------------------------------------------------
(***************************************************************************)
(* The handler of a WebSocket: multiplex_price_stream.                     *)
(***************************************************************************)
At(ws, from, to) ==
  /\ handler[ws] = from
  /\ handler' = [handler EXCEPT ![ws] = to]

(* manager.connect: accept, then register. *)
Accept(ws) ==
  /\ At(ws, "new", "receive")
  /\ connect(ws)
  /\ UNCHANGED <<pushing, alive, quoted, loop>>

ReceiveSubscribe(ws) ==
  /\ ws \in alive
  /\ At(ws, "receive", "push")
  /\ \E S \in SUBSET Symbols :
       /\ subscribe(ws, S)
       /\ pushing' = [pushing EXCEPT ![ws] = S]
  /\ UNCHANGED <<alive, quoted, loop>>

(* The first price of one symbol of the message: nothing is sent when there is
   no price, and a send that fails is swallowed. *)
PushFirst(ws) ==
  /\ handler[ws] = "push"
  /\ \E s \in pushing[ws] : pushing' = [pushing EXCEPT ![ws] = @ \ {s}]
  /\ UNCHANGED <<registry, handler, alive, quoted, loop>>

(* The {"type": "subscribed"} answer. *)
AckSubscribe(ws) ==
  /\ pushing[ws] = {}
  /\ At(ws, "push", "receive")
  /\ UNCHANGED <<registry, pushing, alive, quoted, loop>>

ReceiveUnsubscribe(ws) ==
  /\ ws \in alive
  /\ At(ws, "receive", "unsubscribed")
  /\ \E S \in SUBSET Symbols : unsubscribe(ws, S)
  /\ UNCHANGED <<pushing, alive, quoted, loop>>

(* The {"type": "unsubscribed"} answer. *)
AckUnsubscribe(ws) ==
  /\ At(ws, "unsubscribed", "receive")
  /\ UNCHANGED <<registry, pushing, alive, quoted, loop>>

(* Mutant: the clean-up is not in a finally clause, so an answer that cannot be
   sent skips it. *)
EndSessionUnclean(ws) ==
  /\ handler[ws] \in {"receive", "push", "unsubscribed"}
  /\ handler[ws] # "receive" => ws \notin alive
  /\ handler' = [handler EXCEPT ![ws] = "done"]
  /\ IF handler[ws] = "receive" THEN disconnect({ws}) ELSE UNCHANGED registry
  /\ pushing' = [pushing EXCEPT ![ws] = {}]
  /\ UNCHANGED <<alive, quoted, loop>>

(* The finally clause: the client left (receive_text raises), an answer could
   not be sent to it, or a message had a shape the handler does not expect. *)
EndSession(ws) ==
  /\ handler[ws] \in {"receive", "push", "unsubscribed"}
  /\ handler[ws] # "receive" => ws \notin alive
  /\ handler[ws] = "push" => pushing[ws] = {}
  /\ handler' = [handler EXCEPT ![ws] = "done"]
  /\ disconnect({ws})
  /\ pushing' = [pushing EXCEPT ![ws] = {}]
  /\ UNCHANGED <<alive, quoted, loop>>
-----------------------------------------------------------------------------
(***************************************************************************)
(* The broadcast loop: price_broadcast_loop and broadcast_prices_once.      *)
(***************************************************************************)
WakeUp ==
  /\ loop.pc = "sleep"
  /\ listed # {}
  /\ loop' = [loop EXCEPT !.pc = "symbol", !.symbols = listed]
  /\ UNCHANGED <<registry, handler, pushing, alive, quoted>>

(* The next symbol of the list taken at the start of the cycle.  Without a
   price it is skipped; with one the subscribers of this moment are listed. *)
NextSymbol ==
  /\ loop.pc = "symbol"
  /\ \E s \in loop.symbols :
       loop' = IF s \in quoted
               THEN [loop EXCEPT !.pc = "send", !.symbols = @ \ {s}, !.sym = s,
                                 !.targets = symbolConns[s]]
               ELSE [loop EXCEPT !.symbols = @ \ {s}]
  /\ UNCHANGED <<registry, handler, pushing, alive, quoted>>

(* Mutant: a failed send ends the loop. *)
SendToRaises(ws) ==
  /\ loop.pc = "send"
  /\ ws \in loop.targets
  /\ loop' = IF ws \in alive THEN [loop EXCEPT !.targets = @ \ {ws}]
             ELSE [loop EXCEPT !.pc = "ended", !.targets = {}, !.sym = NoSymbol]
  /\ UNCHANGED <<registry, handler, pushing, alive, quoted>>

(* send_json to one of them.  To a client that is gone it may fail or may still
   be buffered. *)
SendTo(ws) ==
  /\ loop.pc = "send"
  /\ ws \in loop.targets
  /\ \/ loop' = [loop EXCEPT !.targets = @ \ {ws}]
     \/ /\ ws \notin alive
        /\ loop' = [loop EXCEPT !.targets = @ \ {ws}, !.dead = @ \cup {ws}]
  /\ UNCHANGED <<registry, handler, pushing, alive, quoted>>

(* All sends tried: the connections whose send failed are disconnected. *)
Reap ==
  /\ loop.pc = "send"
  /\ loop.targets = {}
  /\ disconnect(loop.dead)
  /\ loop' = [loop EXCEPT !.pc = "symbol", !.sym = NoSymbol, !.dead = {}]
  /\ UNCHANGED <<handler, pushing, alive, quoted>>

EndCycle ==
  /\ loop.pc = "symbol"
  /\ loop.symbols = {}
  /\ loop' = Asleep
  /\ UNCHANGED <<registry, handler, pushing, alive, quoted>>
-----------------------------------------------------------------------------
ClientLeaves(ws) ==
  /\ ws \in alive
  /\ handler[ws] # "new"
  /\ alive' = alive \ {ws}
  /\ UNCHANGED <<registry, handler, pushing, quoted, loop>>

PriceComesOrGoes ==
  /\ \E s \in Unsteady : quoted' = (quoted \ {s}) \cup ({s} \ quoted)
  /\ UNCHANGED <<registry, handler, pushing, alive, loop>>

Handler(ws) == \/ Accept(ws) \/ ReceiveSubscribe(ws) \/ PushFirst(ws) \/ AckSubscribe(ws)
               \/ ReceiveUnsubscribe(ws) \/ AckUnsubscribe(ws) \/ EndSession(ws)

Broadcast == WakeUp \/ NextSymbol \/ (\E ws \in Conns : SendTo(ws)) \/ Reap \/ EndCycle

Next == \/ \E ws \in Conns : Handler(ws) \/ ClientLeaves(ws)
        \/ Broadcast
        \/ PriceComesOrGoes

Spec == Init /\ [][Next]_vars

(***************************************************************************)
(* The event loop runs every ready coroutine: the broadcast loop goes round *)
(* for ever, and a handler that is not waiting for its client goes on.  A   *)
(* client is under no obligation to send anything.                          *)
(***************************************************************************)
GoesOn(ws) == \/ PushFirst(ws) \/ AckSubscribe(ws) \/ AckUnsubscribe(ws)
              \/ ws \notin alive /\ EndSession(ws)

Fairness == WF_vars(Broadcast) /\ \A ws \in Conns : WF_vars(GoesOn(ws))

FairSpec == Spec /\ Fairness
-----------------------------------------------------------------------------
TypeOK ==
  /\ registered \subseteq Conns
  /\ connSymbols \in [Conns -> SUBSET Symbols]
  /\ listed \subseteq Symbols
  /\ symbolConns \in [Symbols -> SUBSET Conns]
  /\ handler \in [Conns -> {"new", "receive", "push", "unsubscribed", "done"}]
  /\ pushing \in [Conns -> SUBSET Symbols]
  /\ alive \subseteq Conns
  /\ quoted \subseteq Symbols
  /\ loop \in [pc : {"sleep", "symbol", "send"}, symbols : SUBSET Symbols,
               sym : Symbols \cup {NoSymbol}, targets : SUBSET Conns, dead : SUBSET Conns]

(***************************************************************************)
(* The index by symbol and the sets by connection say the same, although   *)
(* disconnect and unsubscribe each clean one by way of the other, and a    *)
(* connection that was reaped may subscribe again.                         *)
(***************************************************************************)
IndexesAgree ==
  \A ws \in Conns, s \in Symbols : ws \in symbolConns[s] <=> s \in connSymbols[ws]

(***************************************************************************)
(* get_all_symbols names exactly the symbols somebody follows (REQ-SUB-005):*)
(* an entry that emptied would be priced every ten seconds for nobody.     *)
(***************************************************************************)
ListedIffFollowed == \A s \in Symbols : s \in listed <=> symbolConns[s] # {}

(***************************************************************************)
(* A finished session leaves nothing in the registry (REQ-WSM-005), also   *)
(* when the loop holds it in a list it took earlier.                       *)
(***************************************************************************)
NoGhosts ==
  \A ws \in Conns : handler[ws] \in {"new", "done"} =>
    /\ ws \notin registered
    /\ connSymbols[ws] = {}

(***************************************************************************)
(* A client that has stayed and is subscribed to a symbol with a price     *)
(* keeps receiving it, whatever other clients do to the registry           *)
(* (REQ-WSM-003).                                                          *)
(***************************************************************************)
Follows(ws, s) == ws \in alive /\ ws \in symbolConns[s] /\ s \in quoted

PricesKeepComing ==
  \A ws \in Conns, s \in Symbols :
    <>[]Follows(ws, s) => []<>(loop.sym = s /\ ws \in loop.targets)

(***************************************************************************)
(* A client that left is out of the registry in the end, for good: a late  *)
(* step of its handler does not bring it back.                             *)
(***************************************************************************)
DeadAreReleased ==
  \A ws \in Conns : [](ws \notin alive => <>[](ws \notin registered))

(***************************************************************************)
(* The registry implements one relation between sessions and symbols.      *)
(***************************************************************************)
Relation == INSTANCE SubscriptionRelation WITH
  sessions <- {ws \in Conns : handler[ws] \notin {"new", "done"}},
  subs <- {p \in Conns \X Symbols : p[1] \in symbolConns[p[2]]}

RelationSpec == Relation!Spec
=============================================================================
