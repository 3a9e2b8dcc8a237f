----------------------------- MODULE MarketView -----------------------------
(***************************************************************************)
(* What one dashboard shows of the market: the loads it starts (three      *)
(* requests each, applied together, never cancelled), the live trades its  *)
(* socket brings, and the symbol the user has selected, over the API's     *)
(* trade tape, its reader of the Redis book and its Socket.IO relay.       *)
(*                                                                         *)
(* The exchange is an environment here: trades commit and are announced in *)
(* order or lost (module MatchingEngine), and an order's entry in the book *)
(* changes in one transaction.                                             *)
(***************************************************************************)
EXTENDS Integers, SequencesExt

CONSTANTS
    Symbols, FirstSymbol,
    Orders, SideOf,     \* resting orders, and the side of each
    Rank,               \* the order of the index: by price, then by sequence number
    BookDepth,          \* members of each index the API reads: 100
    TapeLimit,          \* trades the API answers with and the page keeps: 50
    MaxSockets,         \* MAX_SOCKETS_PER_IP
    MaxLoads,           \* bound: loads under way at once
    Scenarios           \* bounds of one behaviour

None == "none"
Loads == 1..MaxLoads
Allowance == [trades : Nat, changes : Nat, selections : Nat, orders : Nat, faults : Nat]

ASSUME MarketAssumption ==
    /\ FirstSymbol \in Symbols /\ None \notin Symbols
    /\ IsFiniteSet(Orders) /\ SideOf \in [Orders -> {"buy", "sell"}]
    /\ Rank \in [Orders -> Nat] /\ BookDepth \in Nat \ {0}
    /\ TapeLimit \in Nat \ {0} /\ MaxSockets \in Nat \ {0} /\ MaxLoads \in Nat \ {0}
    /\ Scenarios \subseteq Allowance

VARIABLES
    left,           \* what a behaviour may still do
    tape,           \* of each symbol: its trades, newest first
    announced,      \* of each symbol: committed trades the relay has not handled, in order
    book,           \* of each symbol and order: what remains of it, 0 if it does not rest
    selected,
    link,           \* the page's socket
    counted,        \* the relay: sockets it counts for the page's address
    wire,           \* live trades on their way to the page
    loads,          \* the loads under way
    placing,        \* the symbol of the order being placed
    shown, price,   \* the page: its trades, newest first, and the trade it has its price from
    bookShown,
    tapeOf,         \* history: the symbol of the trades applied last since the selection
    slipped,        \* history: trades that came while the page was not ready for them
    bookHad,        \* history: what each order had while the book on show was loaded
    bookBehind      \* history: the orders that its reading of the index did not reach

world == <<tape, announced, book>>
socket == <<link, counted, wire>>
view == <<shown, price, bookShown, tapeOf, bookHad, bookBehind>>
vars == <<left, world, selected, socket, loads, placing, view, slipped>>

NoTrade == [symbol |-> None, number |-> 0]
Empty == [o \in Orders |-> 0]
Started(s) ==
    [symbol |-> s, trades |-> <<>>, tapeRead |-> "no", listed |-> {}, entries |-> Empty,
     bookRead |-> "bids", had |-> [o \in Orders |-> {book[s][o]}], behind |-> {}]
NoLoad ==
    [symbol |-> None, trades |-> <<>>, tapeRead |-> "no", listed |-> {}, entries |-> Empty,
     bookRead |-> "bids", had |-> [o \in Orders |-> {}], behind |-> {}]

Idle(l) == loads[l].symbol = None
UnderWay == \E l \in Loads : ~Idle(l)

May(what) == left[what] > 0 /\ left' = [left EXCEPT ![what] = @ - 1]

Init ==
    /\ left \in Scenarios
    /\ tape = [s \in Symbols |-> <<>>] /\ announced = [s \in Symbols |-> <<>>]
    /\ book = [s \in Symbols |-> Empty]
    /\ selected = FirstSymbol
    /\ link = "connecting" /\ counted = 0 /\ wire = <<>>
    /\ loads = [l \in Loads |-> IF l = 1 THEN Started(FirstSymbol) ELSE NoLoad]
    /\ placing = None
    /\ shown = <<>> /\ price = NoTrade /\ bookShown = Empty /\ tapeOf = None
    /\ slipped = {} /\ bookHad = [o \in Orders |-> {0}] /\ bookBehind = {}

-----------------------------------------------------------------------------
(* The exchange.                                                           *)

Trade(s) ==
    LET t == [symbol |-> s, number |-> Len(tape[s]) + 1]
    IN  /\ May("trades")
        /\ tape' = [tape EXCEPT ![s] = <<t>> \o @]
        /\ announced' = [announced EXCEPT ![s] = Append(@, t)]
        /\ UNCHANGED <<book, selected, socket, loads, placing, view, slipped>>

Seen(r, o, remaining) == [r EXCEPT !.had = [r.had EXCEPT ![o] = @ \cup {remaining}]]

(* An order is booked, filled in part, or removed: index and hash change   *)
(* in one MULTI.                                                           *)
ChangeBook(s, o) ==
    /\ May("changes")
    /\ \E r \in 0..2 :
          /\ r # book[s][o]
          /\ book' = [book EXCEPT ![s] = [@ EXCEPT ![o] = r]]
          /\ loads' = [l \in Loads |->
                         IF loads[l].symbol = s THEN Seen(loads[l], o, r) ELSE loads[l]]
    /\ UNCHANGED <<tape, announced, selected, socket, placing, view, slipped>>

(* The engine dies between COMMIT and publish, or Redis drops the message. *)
LoseAnnouncement(s) ==
    /\ announced[s] # <<>> /\ May("faults")
    /\ announced' = [announced EXCEPT ![s] = Tail(@)]
    /\ slipped' = slipped \cup {Head(announced[s])}
    /\ UNCHANGED <<tape, book, selected, socket, loads, placing, view>>

-----------------------------------------------------------------------------
(* The relay.                                                              *)

(* The room of a symbol holds the page if its socket has joined it.        *)
Relay(s) ==
    LET t == Head(announced[s])
    IN  /\ announced[s] # <<>>
        /\ announced' = [announced EXCEPT ![s] = Tail(@)]
        /\ IF link = "joined" /\ s = selected
             THEN wire' = Append(wire, t) /\ slipped' = slipped
             ELSE wire' = wire /\ slipped' = slipped \cup {t}
        /\ UNCHANGED <<left, tape, book, selected, link, counted, loads, placing, view>>

(* Mutant: one more than the cap.                                          *)
AdmittedOver(sockets) == sockets <= MaxSockets

Admitted(sockets) == sockets < MaxSockets

(* The middleware counts the socket, or refuses it: then the client does   *)
(* not try again.                                                          *)
Connect ==
    /\ link = "connecting"
    /\ IF Admitted(counted)
         THEN link' = "joined" /\ counted' = counted + 1
         ELSE link' = "refused" /\ counted' = counted
    /\ UNCHANGED <<left, world, selected, wire, loads, placing, view, slipped>>

(* The connection breaks; the client connects again by itself, and the     *)
(* relay sees the old socket close in its own time.                        *)
LoseConnection ==
    /\ link = "joined" /\ May("faults")
    /\ link' = "connecting" /\ wire' = <<>> /\ counted' = counted
    /\ slipped' = slipped \cup ToSet(wire)
    /\ UNCHANGED <<world, selected, loads, placing, view>>

Mine == IF link = "joined" THEN 1 ELSE 0

SeeClose ==
    /\ counted > Mine /\ counted' = counted - 1
    /\ UNCHANGED <<left, world, selected, link, wire, loads, placing, view, slipped>>

-----------------------------------------------------------------------------
(* Loads: the order book and the trade tape, read by the API.              *)

StartLoad(s) ==
    \E l \in Loads :
        /\ Idle(l) /\ \A k \in Loads : Idle(k) => l <= k
        /\ loads' = [loads EXCEPT ![l] = Started(s)]

Newest(trades) == SubSeq(trades, 1, IF Len(trades) < TapeLimit THEN Len(trades) ELSE TapeLimit)

ReadTape(l) ==
    /\ loads[l].tapeRead = "no"
    /\ loads' = [loads EXCEPT ![l] =
                   [@ EXCEPT !.tapeRead = "ok", !.trades = Newest(tape[loads[l].symbol])]]

Resting(s, side) == {o \in Orders : SideOf[o] = side /\ book[s][o] > 0}

Ahead(s, o) == Cardinality({p \in Resting(s, SideOf[o]) : Rank[p] < Rank[o]})

(* Mutant: a range that ends before its last index.                        *)
FirstButOne(s, side) == {o \in Resting(s, side) : Ahead(s, o) < BookDepth - 1}

First(s, side) == {o \in Resting(s, side) : Ahead(s, o) < BookDepth}

Behind(s, side) == {o \in Resting(s, side) : Ahead(s, o) >= BookDepth}

Indexed(r, side, next) ==
    [r EXCEPT !.bookRead = next, !.listed = @ \cup First(r.symbol, side),
              !.behind = @ \cup Behind(r.symbol, side)]

(* The first members of the index of bids, then of that of asks.           *)
ReadIndex(l) ==
    \/ /\ loads[l].bookRead = "bids"
       /\ loads' = [loads EXCEPT ![l] = Indexed(loads[l], "buy", "asks")]
    \/ /\ loads[l].bookRead = "asks"
       /\ loads' = [loads EXCEPT ![l] = Indexed(loads[l], "sell", "entries")]

(* Mutant: an entry without a hash is kept, with no number remaining.      *)
EntryKept(remaining) == IF remaining = 0 THEN -1 ELSE remaining

Entry(remaining) == remaining

WithEntry(r, o) ==
    [r EXCEPT !.listed = @ \ {o},
              !.entries = [@ EXCEPT ![o] = Entry(book[r.symbol][o])]]

(* The hash of each listed order, the bids' first; an entry without one is *)
(* left out.                                                               *)
ReadEntry(l, o) ==
    /\ loads[l].bookRead = "entries" /\ o \in loads[l].listed
    /\ SideOf[o] = "sell" => \A k \in loads[l].listed : SideOf[k] = "sell"
    /\ loads' = [loads EXCEPT ![l] = WithEntry(loads[l], o)]

(* A request answered with an error status leaves its part of the page.    *)
FailRead(l) ==
    /\ May("faults")
    /\ \/ /\ loads[l].tapeRead = "no"
          /\ loads' = [loads EXCEPT ![l] = [@ EXCEPT !.tapeRead = "failed"]]
       \/ /\ loads[l].bookRead # "failed"
          /\ loads' = [loads EXCEPT ![l] = [@ EXCEPT !.bookRead = "failed", !.listed = {}]]

Read(l) ==
    /\ ~Idle(l)
    /\ \/ (ReadTape(l) \/ ReadIndex(l) \/ \E o \in Orders : ReadEntry(l, o)) /\ left' = left
       \/ FailRead(l)
    /\ UNCHANGED <<world, selected, socket, placing, view, slipped>>

Answered(l) ==
    /\ ~Idle(l) /\ loads[l].tapeRead # "no"
    /\ loads[l].bookRead \in {"entries", "failed"} /\ loads[l].listed = {}

-----------------------------------------------------------------------------
(* The page.                                                               *)

(* Whatever is selected by now, and whatever arrived since it was read.    *)
Apply(l) ==
    /\ Answered(l)
    /\ IF loads[l].bookRead = "entries"
         THEN /\ bookShown' = loads[l].entries
              /\ bookHad' = loads[l].had /\ bookBehind' = loads[l].behind
         ELSE UNCHANGED <<bookShown, bookHad, bookBehind>>
    /\ IF loads[l].tapeRead = "ok"
         THEN /\ shown' = loads[l].trades /\ tapeOf' = loads[l].symbol
              /\ price' = IF loads[l].trades = <<>> THEN price ELSE Head(loads[l].trades)
         ELSE UNCHANGED <<shown, tapeOf, price>>
    /\ loads' = [loads EXCEPT ![l] = NoLoad]
    /\ UNCHANGED <<left, world, selected, socket, placing, slipped>>

(* A request that throws: nothing of the load is applied.                  *)
Abandon(l) ==
    /\ ~Idle(l) /\ May("faults")
    /\ loads' = [loads EXCEPT ![l] = NoLoad]
    /\ UNCHANGED <<world, selected, socket, placing, view, slipped>>

(* Mutant: a live trade replaces the list.                                 *)
OnlyNewest(t, trades) == <<t>>

Prepended(t, trades) == Newest(<<t>> \o trades)

(* A live trade is shown at once; a load under way may overwrite it.       *)
Deliver ==
    /\ wire # <<>>
    /\ wire' = Tail(wire)
    /\ shown' = Prepended(Head(wire), shown) /\ price' = Head(wire)
    /\ slipped' = IF UnderWay THEN slipped \cup {Head(wire)} ELSE slipped
    /\ UNCHANGED <<left, world, selected, link, counted, loads, placing, bookShown, tapeOf>>
    /\ UNCHANGED <<bookHad, bookBehind>>

(* Mutant: the old socket keeps its listeners.                             *)
Listening(trades) == trades

Silenced(trades) == <<>>

(* The effects of a new selection: the old socket is closed, its listeners *)
(* go, another connects, and a load is started.                            *)
Select(s) ==
    /\ s # selected /\ May("selections")
    /\ selected' = s
    /\ link' = "connecting" /\ wire' = Silenced(wire) /\ counted' = counted
    /\ slipped' = slipped \cup ToSet(wire)
    /\ tapeOf' = None
    /\ StartLoad(s)
    /\ UNCHANGED <<world, placing, shown, price, bookShown, bookHad, bookBehind>>

(* One order at a time.                                                    *)
PlaceOrder ==
    /\ placing = None /\ May("orders")
    /\ placing' = selected
    /\ UNCHANGED <<world, selected, socket, loads, view, slipped>>

(* Once it is accepted the page loads again: the symbol it was placed for. *)
OrderAnswered ==
    /\ placing # None
    /\ placing' = None
    /\ StartLoad(placing) \/ loads' = loads
    /\ UNCHANGED <<left, world, selected, socket, view, slipped>>

-----------------------------------------------------------------------------
Exchange == \E s \in Symbols :
    Trade(s) \/ LoseAnnouncement(s) \/ \E o \in Orders : ChangeBook(s, o)
RelayStep == Connect \/ LoseConnection \/ SeeClose \/ \E s \in Symbols : Relay(s)
Page == Deliver \/ PlaceOrder \/ OrderAnswered \/ \E s \in Symbols : Select(s)
Load(l) == Read(l) \/ Apply(l) \/ Abandon(l)
Next == Exchange \/ RelayStep \/ Page \/ \E l \in Loads : Load(l)

Spec == Init /\ [][Next]_vars
-----------------------------------------------------------------------------
(* Properties.                                                             *)

Trades == [symbol : Symbols, number : Nat]
LoadRecord ==
    [symbol : Symbols \cup {None}, trades : Seq(Trades), tapeRead : {"no", "ok", "failed"},
     listed : SUBSET Orders, entries : [Orders -> Nat],
     bookRead : {"bids", "asks", "entries", "failed"}, had : [Orders -> SUBSET Nat],
     behind : SUBSET Orders]

(* Types, and the relay's count: at least the page's own socket, at most   *)
(* the cap.                                                                *)
MarketTypeOK ==
    /\ left \in Allowance
    /\ tape \in [Symbols -> Seq(Trades)] /\ announced \in [Symbols -> Seq(Trades)]
    /\ book \in [Symbols -> [Orders -> Nat]]
    /\ selected \in Symbols /\ placing \in Symbols \cup {None}
    /\ link \in {"connecting", "joined", "refused"} /\ counted \in Mine..MaxSockets
    /\ wire \in Seq(Trades) /\ shown \in Seq(Trades) /\ price \in Trades \cup {NoTrade}
    /\ tapeOf \in Symbols \cup {None} /\ slipped \subseteq Trades
    /\ loads \in [Loads -> LoadRecord]

(* Once the trades applied last are those of the selected symbol, the page *)
(* shows no other symbol's: no event of an old socket comes through.  Its  *)
(* price is that of the newest trade shown; with none to show it may still *)
(* be the price of the symbol before.                                      *)
ViewOfSelection ==
    /\ tapeOf = selected => \A i \in DOMAIN shown : shown[i].symbol = selected
    /\ shown # <<>> => price = Head(shown)

(* The live tape is complete but for what can be named: of the selected    *)
(* symbol a trade is missing only if it is still coming, has been pushed   *)
(* off the end, or was announced while the page was not in the room or had *)
(* a load under way.  None is shown more than twice.                       *)
TapeExplained ==
    /\ tapeOf = selected /\ Len(shown) < TapeLimit =>
          ToSet(tape[selected]) \subseteq
              ToSet(shown) \cup ToSet(announced[selected]) \cup ToSet(wire) \cup slipped
    /\ \A i, j, k \in DOMAIN shown : shown[i] = shown[j] /\ shown[j] = shown[k] =>
          i = j \/ j = k \/ i = k

(* Every order is shown with what remained of it at some moment of the     *)
(* load.  It is left out only if at some moment it did not rest, or if as  *)
(* many orders of its side as the API reads, a hundred, were ahead of it   *)
(* in the index when that was read.                                        *)
BookShowsRested == \A o \in Orders :
    bookShown[o] \in bookHad[o] \/ (bookShown[o] = 0 /\ o \in bookBehind)
=============================================================================
