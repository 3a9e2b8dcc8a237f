-------------------------- MODULE MarketViewProofs --------------------------
(***************************************************************************)
(* Proofs about MarketView, for any symbols, orders, tape, cap and loads:  *)
(* the types, whose trades the page shows, and what its book shows.        *)
(***************************************************************************)
EXTENDS MarketView, FiniteSetTheorems, TLAPS

-----------------------------------------------------------------------------
(* The invariant: every sequence holds trades of one symbol, and a load    *)
(* has of each order it has read something the order had, or its index did *)
(* not reach the order.                                                    *)

OfSymbol(s) == [symbol : {s}, number : Nat]

Unread(r, o) == r.bookRead = "bids" \/ (r.bookRead = "asks" /\ SideOf[o] = "sell")
Known(r, o) == r.bookRead = "entries" \/ (r.bookRead = "asks" /\ SideOf[o] = "buy")

Shows(r, o) == r.entries[o] \in r.had[o] \/ (r.entries[o] = 0 /\ o \in r.behind)

LoadFits(r, b) ==
    /\ r \in LoadRecord
    /\ r.trades \in Seq(OfSymbol(r.symbol))
    /\ r.symbol # None => \A o \in Orders : b[r.symbol][o] \in r.had[o]
    /\ \A o \in Orders : Unread(r, o) => r.entries[o] = 0
    /\ r.symbol # None => \A o \in Orders : Known(r, o) => o \in r.listed \/ Shows(r, o)

WorldFits ==
    /\ left \in Allowance
    /\ tape \in [Symbols -> Seq(Trades)] /\ announced \in [Symbols -> Seq(Trades)]
    /\ \A s \in Symbols : tape[s] \in Seq(OfSymbol(s)) /\ announced[s] \in Seq(OfSymbol(s))
    /\ book \in [Symbols -> [Orders -> Nat]]
    /\ selected \in Symbols /\ placing \in Symbols \cup {None}
    /\ link \in {"connecting", "joined", "refused"} /\ counted \in Mine..MaxSockets
    /\ wire \in Seq(OfSymbol(selected))

LoadsFit ==
    /\ DOMAIN loads = Loads /\ loads = [l \in Loads |-> loads[l]]
    /\ \A l \in Loads : LoadFits(loads[l], book)

ViewFits ==
    /\ shown \in Seq(Trades) /\ price \in Trades \cup {NoTrade}
    /\ tapeOf \in Symbols \cup {None} /\ slipped \subseteq Trades
    /\ tapeOf = selected => shown \in Seq(OfSymbol(selected))
    /\ shown # <<>> => price = Head(shown)
    /\ bookShown \in [Orders -> Nat] /\ bookHad \in [Orders -> SUBSET Nat]
    /\ bookBehind \subseteq Orders /\ BookShowsRested

MarketInv == WorldFits /\ LoadsFit /\ ViewFits

-----------------------------------------------------------------------------
(* Sequences of trades.                                                    *)

LEMMA OfSymbolIsTrade ==
    ASSUME NEW s \in Symbols
    PROVE  /\ OfSymbol(s) \subseteq Trades
           /\ \A q \in Seq(OfSymbol(s)) : q \in Seq(Trades)
  <1>1. OfSymbol(s) \subseteq Trades
    BY DEF OfSymbol, Trades
  <1>2. ASSUME NEW q \in Seq(OfSymbol(s)) PROVE q \in Seq(Trades)
    BY <1>1
  <1> QED BY <1>1, <1>2

LEMMA NewestType ==
    ASSUME NEW S, NEW q \in Seq(S)
    PROVE  /\ Newest(q) \in Seq(S)
           /\ q # <<>> => Newest(q) # <<>> /\ Head(Newest(q)) = Head(q)
  <1> DEFINE n == IF Len(q) < TapeLimit THEN Len(q) ELSE TapeLimit
  <1>1. n \in Nat /\ n <= Len(q) /\ (q # <<>> => n >= 1)
    BY MarketAssumption
  <1> HIDE DEF n
  <1>2. SubSeq(q, 1, n) \in Seq(S) /\ Len(SubSeq(q, 1, n)) = n
    BY <1>1
  <1>3. ASSUME q # <<>> PROVE SubSeq(q, 1, n) # <<>> /\ Head(SubSeq(q, 1, n)) = Head(q)
    BY <1>1, <1>2, <1>3
  <1> QED BY <1>2, <1>3 DEF Newest, n

LEMMA PrependType ==
    ASSUME NEW S, NEW q \in Seq(S), NEW t \in S
    PROVE  /\ <<t>> \o q \in Seq(S)
           /\ Newest(<<t>> \o q) \in Seq(S) /\ Newest(<<t>> \o q) # <<>>
           /\ Head(Newest(<<t>> \o q)) = t
  <1>1. <<t>> \o q \in Seq(S) /\ <<t>> \o q # <<>> /\ Head(<<t>> \o q) = t
    OBVIOUS
  <1> QED BY <1>1, NewestType

LEMMA SetOfSeq ==
    ASSUME NEW S, NEW q \in Seq(S)
    PROVE  ToSet(q) \subseteq S
  BY DEF ToSet

LEMMA HeadTail ==
    ASSUME NEW S, NEW q \in Seq(S), q # <<>>
    PROVE  Head(q) \in S /\ Tail(q) \in Seq(S)
  OBVIOUS

LEMMA MayType == ASSUME left \in Allowance, NEW what, May(what) PROVE left' \in Allowance
  BY DEF May, Allowance

-----------------------------------------------------------------------------
(* Loads.                                                                  *)

(* Of the resting orders, those the API does not read are behind.          *)
LEMMA FirstOrBehind ==
    ASSUME NEW s, NEW side
    PROVE  /\ First(s, side) \subseteq Orders /\ Behind(s, side) \subseteq Orders
           /\ Resting(s, side) = First(s, side) \cup Behind(s, side)
  <1>1. ASSUME NEW o \in Orders PROVE Ahead(s, o) \in Nat
    <2>1. {p \in Resting(s, SideOf[o]) : Rank[p] < Rank[o]} \subseteq Orders
      BY DEF Resting
    <2>2. IsFiniteSet({p \in Resting(s, SideOf[o]) : Rank[p] < Rank[o]})
      BY <2>1, FS_Subset, MarketAssumption
    <2> QED BY <2>2, FS_CardinalityType DEF Ahead
  <1>2. \A o \in Orders : Ahead(s, o) < BookDepth \/ Ahead(s, o) >= BookDepth
    BY <1>1, MarketAssumption
  <1>3. Resting(s, side) \subseteq Orders
    BY DEF Resting
  <1> QED BY <1>2, <1>3 DEF First, Behind

LEMMA StartedFits ==
    ASSUME NEW s \in Symbols, book \in [Symbols -> [Orders -> Nat]]
    PROVE  LoadFits(Started(s), book)
  <1>1. Started(s) \in LoadRecord
    BY DEF Started, LoadRecord, Empty
  <1> QED BY <1>1 DEF LoadFits, Started, Empty, Known

LEMMA NoLoadFits == \A b : LoadFits(NoLoad, b)
  <1>1. NoLoad \in LoadRecord
    BY DEF NoLoad, LoadRecord, Empty
  <1> QED BY <1>1 DEF LoadFits, NoLoad, Empty, Known

(* One load changes, to a record that fits.                                *)
LEMMA OneLoadFits ==
    ASSUME LoadsFit, book' = book, NEW l \in Loads, NEW r, LoadFits(r, book),
           loads' = [loads EXCEPT ![l] = r]
    PROVE  LoadsFit'
  BY DEF LoadsFit

LEMMA StartLoadFits ==
    ASSUME LoadsFit, book' = book, book \in [Symbols -> [Orders -> Nat]], NEW s \in Symbols,
           StartLoad(s)
    PROVE  LoadsFit'
  BY StartedFits, OneLoadFits DEF StartLoad

LEMMA LoadsUntouched == LoadsFit /\ UNCHANGED <<loads, book>> => LoadsFit'
  BY DEF LoadsFit

LEMMA ReadTapeFits ==
    ASSUME WorldFits, LoadsFit, book' = book, NEW l \in Loads, ~Idle(l), ReadTape(l)
    PROVE  LoadsFit'
  <1> DEFINE r == loads[l]
             trades == Newest(tape[loads[l].symbol])
             next == [r EXCEPT !.tapeRead = "ok", !.trades = trades]
  <1>1. LoadFits(r, book) /\ r \in LoadRecord /\ r.symbol \in Symbols
    BY DEF LoadsFit, LoadFits, Idle, LoadRecord
  <1>2. trades \in Seq(OfSymbol(r.symbol)) /\ trades \in Seq(Trades)
    BY <1>1, NewestType DEF WorldFits
  <1>3. loads' = [loads EXCEPT ![l] = next]
    BY DEF ReadTape
  <1> HIDE DEF r, trades
  <1>4. next \in LoadRecord
    BY <1>1, <1>2 DEF LoadRecord
  <1>5. /\ next.symbol = r.symbol /\ next.trades = trades /\ next.listed = r.listed
        /\ next.entries = r.entries /\ next.bookRead = r.bookRead /\ next.had = r.had
        /\ next.behind = r.behind
    BY <1>1 DEF LoadRecord
  <1> HIDE DEF next
  <1>6. LoadFits(next, book)
    BY <1>1, <1>2, <1>4, <1>5 DEF LoadFits, Unread, Known, Shows
  <1> QED BY <1>3, <1>6, OneLoadFits

LEMMA ReadIndexFits ==
    ASSUME WorldFits, LoadsFit, book' = book, NEW l \in Loads, ~Idle(l), ReadIndex(l)
    PROVE  LoadsFit'
  <1> DEFINE r == loads[l]
  <1>1. LoadFits(r, book) /\ r \in LoadRecord /\ r.symbol \in Symbols
    BY DEF LoadsFit, LoadFits, Idle, LoadRecord
  <1>2. ASSUME NEW o \in Orders
        PROVE  /\ SideOf[o] \in {"buy", "sell"} /\ book[r.symbol][o] \in Nat
               /\ book[r.symbol][o] \in r.had[o]
               /\ Unread(r, o) => r.entries[o] = 0
    <2>1. SideOf[o] \in {"buy", "sell"}
      BY MarketAssumption
    <2>2. book[r.symbol][o] \in Nat
      BY <1>1 DEF WorldFits
    <2>3. r.symbol # None
      BY <1>1 DEF Idle
    <2> QED BY <1>1, <2>1, <2>2, <2>3 DEF LoadFits
  <1>3. \A side : /\ First(r.symbol, side) \subseteq Orders
                   /\ Behind(r.symbol, side) \subseteq Orders
    BY FirstOrBehind
  <1>4. \A o \in Orders : \A side :
          SideOf[o] = side => \/ o \in First(r.symbol, side) \/ o \in Behind(r.symbol, side)
                             \/ book[r.symbol][o] = 0
    <2>1. \A o \in Orders : \A side :
            SideOf[o] = side /\ o \notin Resting(r.symbol, side) => book[r.symbol][o] = 0
      BY <1>2 DEF Resting
    <2> QED BY <2>1, FirstOrBehind
  <1>5. CASE /\ r.bookRead = "bids"
             /\ loads' = [loads EXCEPT ![l] = Indexed(r, "buy", "asks")]
    <2> DEFINE next == Indexed(r, "buy", "asks")
    <2>1. next \in LoadRecord
      BY <1>1, <1>3 DEF LoadRecord, Indexed
    <2>2. /\ next.symbol = r.symbol /\ next.trades = r.trades /\ next.entries = r.entries
          /\ next.had = r.had /\ next.bookRead = "asks" 
          /\ next.listed = r.listed \cup First(r.symbol, "buy")
          /\ next.behind = r.behind \cup Behind(r.symbol, "buy")
      BY <1>1 DEF LoadRecord, Indexed
    <2> HIDE DEF r
    <2>3. loads' = [loads EXCEPT ![l] = next]
      BY <1>5
    <2> HIDE DEF next
    <2>4. \A o \in Orders : Known(next, o) => o \in next.listed \/ Shows(next, o)
      BY <1>2, <1>4, <1>5, <2>2 DEF Known, Unread, Shows
    <2>5. \A o \in Orders : Unread(next, o) => next.entries[o] = 0
      BY <1>2, <1>5, <2>2 DEF Unread
    <2>6. LoadFits(next, book)
      BY <1>1, <2>1, <2>2, <2>4, <2>5 DEF LoadFits
    <2> QED BY <2>3, <2>6, OneLoadFits
  <1>6. CASE /\ r.bookRead = "asks"
             /\ loads' = [loads EXCEPT ![l] = Indexed(r, "sell", "entries")]
    <2> DEFINE next == Indexed(r, "sell", "entries")
    <2>1. next \in LoadRecord
      BY <1>1, <1>3 DEF LoadRecord, Indexed
    <2>2. /\ next.symbol = r.symbol /\ next.trades = r.trades /\ next.entries = r.entries
          /\ next.had = r.had /\ next.bookRead = "entries"
          /\ next.listed = r.listed \cup First(r.symbol, "sell")
          /\ next.behind = r.behind \cup Behind(r.symbol, "sell")
      BY <1>1 DEF LoadRecord, Indexed
    <2> HIDE DEF r
    <2>3. loads' = [loads EXCEPT ![l] = next]
      BY <1>6
    <2> HIDE DEF next
    <2>4. \A o \in Orders : o \in next.listed \/ Shows(next, o)
      <3> SUFFICES ASSUME NEW o \in Orders PROVE o \in next.listed \/ Shows(next, o)
        OBVIOUS
      <3>1. CASE SideOf[o] = "buy"
        BY <1>1, <1>6, <2>2, <3>1, MarketAssumption DEF LoadFits, Known, Shows
      <3>2. CASE SideOf[o] = "sell"
        BY <1>2, <1>4, <1>6, <2>2, <3>2 DEF Unread, Shows
      <3> QED BY <1>2, <3>1, <3>2
    <2>5. \A o \in Orders : ~Unread(next, o)
      BY <2>2 DEF Unread
    <2>6. LoadFits(next, book)
      BY <1>1, <2>1, <2>2, <2>4, <2>5 DEF LoadFits
    <2> QED BY <2>3, <2>6, OneLoadFits
  <1> QED BY <1>5, <1>6 DEF ReadIndex

LEMMA ReadEntryFits ==
    ASSUME WorldFits, LoadsFit, book' = book, NEW l \in Loads, ~Idle(l), NEW o \in Orders,
           ReadEntry(l, o)
    PROVE  LoadsFit'
  <1> DEFINE r == loads[l]
             remains == book[r.symbol][o]
             next == WithEntry(r, o)
  <1>1. LoadFits(r, book) /\ r \in LoadRecord /\ r.symbol \in Symbols /\ r.bookRead = "entries"
    BY DEF LoadsFit, LoadFits, Idle, LoadRecord, ReadEntry
  <1>2. r.symbol # None
    BY DEF Idle
  <1>3. remains \in Nat /\ remains \in r.had[o]
    BY <1>1, <1>2 DEF LoadFits, WorldFits
  <1>4. loads' = [loads EXCEPT ![l] = next]
    BY Zenon DEF ReadEntry, Entry
  <1>0. next = [r EXCEPT !.listed = r.listed \ {o}, !.entries = [r.entries EXCEPT ![o] = remains]]
    BY DEF WithEntry, Entry
  <1> HIDE DEF r, remains, next
  <1>5. next \in LoadRecord
    BY <1>0, <1>1, <1>3 DEF LoadRecord
  <1>6. /\ next.symbol = r.symbol /\ next.trades = r.trades
        /\ next.entries = [r.entries EXCEPT ![o] = remains]
        /\ next.had = r.had /\ next.bookRead = "entries" /\ next.listed = r.listed \ {o}
        /\ next.behind = r.behind
    BY <1>0, <1>1 DEF LoadRecord
  <1>7. r.entries \in [Orders -> Nat]
    BY <1>1 DEF LoadRecord
  <1>8. \A k \in Orders : k \in next.listed \/ Shows(next, k)
    BY <1>1, <1>2, <1>3, <1>6, <1>7 DEF LoadFits, Known, Shows
  <1>9. LoadFits(next, book)
    BY <1>1, <1>5, <1>6, <1>8 DEF LoadFits, Unread
  <1> QED BY <1>4, <1>9, OneLoadFits

LEMMA FailReadFits ==
    ASSUME LoadsFit, book' = book, NEW l \in Loads, FailRead(l)
    PROVE  LoadsFit'
  <1> DEFINE r == loads[l]
             noTape == [r EXCEPT !.tapeRead = "failed"]
             noBook == [r EXCEPT !.bookRead = "failed", !.listed = {}]
  <1>1. LoadFits(r, book) /\ r \in LoadRecord
    BY DEF LoadsFit, LoadFits
  <1>2. loads' = [loads EXCEPT ![l] = noTape] \/ loads' = [loads EXCEPT ![l] = noBook]
    BY DEF FailRead
  <1> HIDE DEF r
  <1>3. LoadFits(noTape, book)
    <2>1. noTape \in LoadRecord
      BY <1>1 DEF LoadRecord
    <2>2. /\ noTape.symbol = r.symbol /\ noTape.trades = r.trades /\ noTape.listed = r.listed
          /\ noTape.entries = r.entries /\ noTape.bookRead = r.bookRead /\ noTape.had = r.had
          /\ noTape.behind = r.behind
      BY <1>1 DEF LoadRecord
    <2> HIDE DEF noTape
    <2> QED BY <1>1, <2>1, <2>2 DEF LoadFits, Unread, Known, Shows
  <1>4. LoadFits(noBook, book)
    <2>1. noBook \in LoadRecord
      BY <1>1 DEF LoadRecord
    <2>2. /\ noBook.symbol = r.symbol /\ noBook.trades = r.trades
          /\ noBook.bookRead = "failed" /\ noBook.had = r.had
      BY <1>1 DEF LoadRecord
    <2> HIDE DEF noBook
    <2> QED BY <1>1, <2>1, <2>2 DEF LoadFits, Unread, Known
  <1> HIDE DEF noTape, noBook
  <1> QED BY <1>2, <1>3, <1>4, OneLoadFits

(* A change to an order is seen by the loads of its symbol.                *)
LEMMA ChangeBookFits ==
    ASSUME WorldFits, LoadsFit, NEW s \in Symbols, NEW o \in Orders, ChangeBook(s, o)
    PROVE  book' \in [Symbols -> [Orders -> Nat]] /\ LoadsFit'
  <1>1. PICK n \in 0..2 :
          /\ book' = [book EXCEPT ![s] = [@ EXCEPT ![o] = n]]
          /\ loads' = [l \in Loads |->
                         IF loads[l].symbol = s THEN Seen(loads[l], o, n) ELSE loads[l]]
    BY DEF ChangeBook
  <1>2. /\ book' \in [Symbols -> [Orders -> Nat]]
        /\ \A k \in Symbols, j \in Orders :
              book'[k][j] = IF k = s /\ j = o THEN n ELSE book[k][j]
    <2>1. book \in [Symbols -> [Orders -> Nat]] /\ n \in Nat
      BY DEF WorldFits
    <2>2. [book[s] EXCEPT ![o] = n] \in [Orders -> Nat]
      BY <2>1
    <2> QED BY <1>1, <2>1, <2>2
  <1>3. ASSUME NEW l \in Loads PROVE LoadFits(loads'[l], book')
    <2> DEFINE r == loads[l]
               had == [r.had EXCEPT ![o] = @ \cup {n}]
               next == Seen(r, o, n)
    <2>1. LoadFits(r, book) /\ r \in LoadRecord
      BY DEF LoadsFit, LoadFits
    <2>2. CASE r.symbol # s
      <3>1. loads'[l] = r
        BY <1>1, <2>2
      <3>2. \A j \in Orders : r.symbol # None => book'[r.symbol][j] = book[r.symbol][j]
        BY <1>2, <2>1, <2>2 DEF LoadRecord
      <3> HIDE DEF r
      <3> QED BY <2>1, <3>1, <3>2 DEF LoadFits
    <2>3. CASE r.symbol = s
      <3>1. loads'[l] = next
        BY <1>1, <2>3
      <3>d. next = [r EXCEPT !.had = had]
        BY DEF Seen
      <3> HIDE DEF r, next
      <3>a. r.had \in [Orders -> SUBSET Nat]
        BY <2>1 DEF LoadRecord
      <3>b. had \in [Orders -> SUBSET Nat] /\ \A j \in Orders : r.had[j] \subseteq had[j]
        BY <3>a
      <3>c. n \in had[o]
        BY <3>a
      <3> HIDE DEF had
      <3>2. /\ next.symbol = r.symbol /\ next.trades = r.trades /\ next.listed = r.listed
            /\ next.entries = r.entries /\ next.bookRead = r.bookRead /\ next.had = had
            /\ next.behind = r.behind
        BY <2>1, <3>d DEF LoadRecord
      <3>3. next \in LoadRecord
        BY <2>1, <3>b, <3>d DEF LoadRecord
      <3>4. \A j \in Orders : r.had[j] \subseteq next.had[j] /\ n \in next.had[o]
        BY <3>2, <3>b, <3>c
      <3>5. /\ \A j \in Orders : Unread(next, j) => next.entries[j] = 0
            /\ next.trades \in Seq(OfSymbol(next.symbol))
        BY <2>1, <3>2 DEF LoadFits, Unread
      <3>6. next.symbol # None => \A j \in Orders : book'[next.symbol][j] \in next.had[j]
        BY <1>2, <2>1, <2>3, <3>2, <3>4 DEF LoadFits
      <3>7. next.symbol # None =>
              \A j \in Orders : Known(next, j) => j \in next.listed \/ Shows(next, j)
        BY <2>1, <3>2, <3>4 DEF LoadFits, Known, Shows
      <3> QED BY <3>1, <3>3, <3>5, <3>6, <3>7 DEF LoadFits
    <2> QED BY <2>2, <2>3
  <1>4. DOMAIN loads' = Loads /\ loads' = [l \in Loads |-> loads'[l]]
    BY <1>1
  <1> QED BY <1>2, <1>3, <1>4 DEF LoadsFit

-----------------------------------------------------------------------------
(* Every step keeps the invariant.                                         *)

LEMMA ViewUntouched ==
    ASSUME ViewFits, selected' = selected, UNCHANGED view, slipped' \subseteq Trades
    PROVE  ViewFits'
  BY DEF ViewFits, view, BookShowsRested

LEMMA MarketInit == Init => MarketInv
  <1> SUFFICES ASSUME Init PROVE MarketInv
    OBVIOUS
  <1>1. /\ <<>> \in Seq(Trades) /\ \A s \in Symbols : <<>> \in Seq(OfSymbol(s))
        /\ Empty \in [Orders -> Nat] /\ \A o \in Orders : Empty[o] = 0
        /\ 0 \in 0..MaxSockets
    BY MarketAssumption DEF Empty
  <1>2. book \in [Symbols -> [Orders -> Nat]]
    BY <1>1 DEF Init
  <1>3. LoadsFit
    <2>1. /\ loads = [l \in Loads |-> IF l = 1 THEN Started(FirstSymbol) ELSE NoLoad]
      BY DEF Init
    <2> QED BY <1>2, <2>1, StartedFits, NoLoadFits, MarketAssumption DEF LoadsFit
  <1>4. WorldFits
    BY <1>1, <1>2, MarketAssumption DEF Init, WorldFits, Mine
  <1>5. ViewFits
    BY <1>1, MarketAssumption DEF Init, ViewFits, BookShowsRested
  <1> QED BY <1>3, <1>4, <1>5 DEF MarketInv

LEMMA ExchangeKeepsInv == MarketInv /\ Exchange => MarketInv'
  <1> SUFFICES ASSUME MarketInv, NEW s \in Symbols,
                      Trade(s) \/ LoseAnnouncement(s) \/ \E o \in Orders : ChangeBook(s, o)
               PROVE  MarketInv'
    BY DEF Exchange
  <1>0. WorldFits /\ LoadsFit /\ ViewFits
    BY DEF MarketInv
  <1>a. slipped \subseteq Trades
    BY <1>0 DEF ViewFits
  <1>1. CASE Trade(s)
    <2> DEFINE t == [symbol |-> s, number |-> Len(tape[s]) + 1]
    <2>1. /\ tape[s] \in Seq(OfSymbol(s)) /\ announced[s] \in Seq(OfSymbol(s))
          /\ tape[s] \in Seq(Trades) /\ announced[s] \in Seq(Trades)
          /\ tape \in [Symbols -> Seq(Trades)] /\ announced \in [Symbols -> Seq(Trades)]
          /\ \A k \in Symbols : tape[k] \in Seq(OfSymbol(k)) /\ announced[k] \in Seq(OfSymbol(k))
      BY <1>0 DEF WorldFits
    <2>2. t \in OfSymbol(s) /\ t \in Trades
      BY <2>1 DEF OfSymbol, Trades
    <2>3. /\ tape' = [tape EXCEPT ![s] = <<t>> \o @]
          /\ announced' = [announced EXCEPT ![s] = Append(@, t)]
          /\ left' \in Allowance
          /\ UNCHANGED <<book, selected, socket, loads, placing, view, slipped>>
      BY <1>0, <1>1, MayType DEF Trade, WorldFits
    <2> HIDE DEF t
    <2>4. /\ <<t>> \o tape[s] \in Seq(OfSymbol(s)) /\ <<t>> \o tape[s] \in Seq(Trades)
          /\ Append(announced[s], t) \in Seq(OfSymbol(s)) /\ Append(announced[s], t) \in Seq(Trades)
      BY <2>1, <2>2, PrependType
    <2>5. /\ tape' \in [Symbols -> Seq(Trades)] /\ announced' \in [Symbols -> Seq(Trades)]
          /\ \A k \in Symbols : tape'[k] \in Seq(OfSymbol(k)) /\ announced'[k] \in Seq(OfSymbol(k))
      BY <2>1, <2>3, <2>4
    <2>6. WorldFits'
      BY <1>0, <2>3, <2>5 DEF WorldFits, socket, Mine
    <2> QED BY <1>0, <1>a, <2>3, <2>6, LoadsUntouched, ViewUntouched DEF MarketInv
  <1>2. CASE LoseAnnouncement(s)
    <2>1. /\ announced[s] \in Seq(OfSymbol(s)) /\ announced[s] \in Seq(Trades)
          /\ announced \in [Symbols -> Seq(Trades)]
          /\ \A k \in Symbols : announced[k] \in Seq(OfSymbol(k))
      BY <1>0 DEF WorldFits
    <2>2. /\ announced[s] # <<>> /\ announced' = [announced EXCEPT ![s] = Tail(@)]
          /\ left' \in Allowance /\ slipped' = slipped \cup {Head(announced[s])}
          /\ UNCHANGED <<tape, book, selected, socket, loads, placing, view>>
      BY <1>0, <1>2, MayType DEF LoseAnnouncement, WorldFits
    <2>3. /\ Head(announced[s]) \in Trades /\ Tail(announced[s]) \in Seq(Trades)
          /\ Tail(announced[s]) \in Seq(OfSymbol(s))
      BY <2>1, <2>2, HeadTail
    <2>4. /\ announced' \in [Symbols -> Seq(Trades)]
          /\ \A k \in Symbols : announced'[k] \in Seq(OfSymbol(k))
      BY <2>1, <2>2, <2>3
    <2>5. WorldFits'
      BY <1>0, <2>2, <2>4 DEF WorldFits, socket, Mine
    <2> QED BY <1>0, <1>a, <2>2, <2>3, <2>5, LoadsUntouched, ViewUntouched DEF MarketInv
  <1>3. ASSUME NEW o \in Orders, ChangeBook(s, o) PROVE MarketInv'
    <2>1. /\ left' \in Allowance
          /\ UNCHANGED <<tape, announced, selected, socket, placing, view, slipped>>
      BY <1>0, <1>3, MayType DEF ChangeBook, WorldFits
    <2>2. book' \in [Symbols -> [Orders -> Nat]] /\ LoadsFit'
      BY <1>0, <1>3, ChangeBookFits
    <2>3. WorldFits'
      BY <1>0, <2>1, <2>2 DEF WorldFits, socket, Mine
    <2> QED BY <1>0, <1>a, <2>1, <2>2, <2>3, ViewUntouched DEF MarketInv
  <1> QED BY <1>1, <1>2, <1>3

LEMMA RelayKeepsInv == MarketInv /\ RelayStep => MarketInv'
  <1> SUFFICES ASSUME MarketInv, RelayStep PROVE MarketInv'
    OBVIOUS
  <1>0. WorldFits /\ LoadsFit /\ ViewFits
    BY DEF MarketInv
  <1>a. slipped \subseteq Trades /\ MaxSockets \in Nat \ {0}
    BY <1>0, MarketAssumption DEF ViewFits
  <1>b. /\ selected \in Symbols /\ wire \in Seq(OfSymbol(selected)) /\ wire \in Seq(Trades)
        /\ counted \in Mine..MaxSockets
    BY <1>0, OfSymbolIsTrade DEF WorldFits
  <1>1. CASE Connect
    <2>1. /\ UNCHANGED <<left, world, selected, wire, loads, placing, view, slipped>>
          /\ link' \in {"connecting", "joined", "refused"}
          /\ link = "connecting"
          /\ \/ link' = "joined" /\ counted < MaxSockets /\ counted' = counted + 1
             \/ link' = "refused" /\ counted' = counted
      BY <1>1 DEF Connect, Admitted
    <2>2. counted' \in Mine'..MaxSockets
      BY <1>a, <1>b, <2>1 DEF Mine
    <2>3. WorldFits'
      BY <1>0, <2>1, <2>2 DEF WorldFits, world
    <2> QED BY <1>0, <1>a, <2>1, <2>3, LoadsUntouched, ViewUntouched DEF MarketInv, world
  <1>2. CASE LoseConnection
    <2>1. /\ UNCHANGED <<world, selected, loads, placing, view>> /\ left' \in Allowance
          /\ link' = "connecting" /\ wire' = <<>> /\ counted' = counted
          /\ slipped' = slipped \cup ToSet(wire)
      BY <1>0, <1>2, MayType DEF LoseConnection, WorldFits
    <2>2. counted' \in Mine'..MaxSockets
      BY <1>a, <1>b, <2>1 DEF Mine
    <2>3. wire' \in Seq(OfSymbol(selected'))
      BY <2>1
    <2>4. WorldFits'
      BY <1>0, <2>1, <2>2, <2>3 DEF WorldFits, world
    <2>5. slipped' \subseteq Trades
      BY <1>a, <1>b, <2>1, SetOfSeq
    <2> QED BY <1>0, <2>1, <2>4, <2>5, LoadsUntouched, ViewUntouched DEF MarketInv, world
  <1>3. CASE SeeClose
    <2>1. /\ UNCHANGED <<left, world, selected, link, wire, loads, placing, view, slipped>>
          /\ counted > Mine /\ counted' = counted - 1
      BY <1>3 DEF SeeClose
    <2>2. counted' \in Mine'..MaxSockets
      BY <1>a, <1>b, <2>1 DEF Mine
    <2>3. WorldFits'
      BY <1>0, <2>1, <2>2 DEF WorldFits, world
    <2> QED BY <1>0, <1>a, <2>1, <2>3, LoadsUntouched, ViewUntouched DEF MarketInv, world
  <1>4. ASSUME NEW s \in Symbols, Relay(s) PROVE MarketInv'
    <2> DEFINE t == Head(announced[s])
    <2>1. /\ announced[s] # <<>> /\ announced' = [announced EXCEPT ![s] = Tail(@)]
          /\ UNCHANGED <<left, tape, book, selected, link, counted, loads, placing, view>>
          /\ \/ s = selected /\ wire' = Append(wire, t) /\ slipped' = slipped
             \/ wire' = wire /\ slipped' = slipped \cup {t}
      BY <1>4 DEF Relay
    <2>2. /\ announced[s] \in Seq(OfSymbol(s)) /\ announced[s] \in Seq(Trades)
          /\ announced \in [Symbols -> Seq(Trades)]
          /\ \A k \in Symbols : announced[k] \in Seq(OfSymbol(k))
      BY <1>0 DEF WorldFits
    <2>3. /\ t \in Trades /\ t \in OfSymbol(s) /\ Tail(announced[s]) \in Seq(Trades)
          /\ Tail(announced[s]) \in Seq(OfSymbol(s))
      BY <2>1, <2>2, HeadTail
    <2>4. /\ announced' \in [Symbols -> Seq(Trades)]
          /\ \A k \in Symbols : announced'[k] \in Seq(OfSymbol(k))
      BY <2>1, <2>2, <2>3
    <2> HIDE DEF t
    <2>5. wire' \in Seq(OfSymbol(selected')) /\ slipped' \subseteq Trades
      <3>1. s = selected => Append(wire, t) \in Seq(OfSymbol(selected))
        BY <1>b, <2>3
      <3>2. selected' = selected
        BY <2>1
      <3> QED BY <1>a, <1>b, <2>1, <2>3, <3>1, <3>2
    <2>6. WorldFits'
      BY <1>0, <2>1, <2>4, <2>5 DEF WorldFits, Mine
    <2> QED BY <1>0, <2>1, <2>5, <2>6, LoadsUntouched, ViewUntouched DEF MarketInv
  <1> QED BY <1>1, <1>2, <1>3, <1>4 DEF RelayStep

LEMMA PageKeepsInv == MarketInv /\ Page => MarketInv'
  <1> SUFFICES ASSUME MarketInv, Page PROVE MarketInv'
    OBVIOUS
  <1>0. WorldFits /\ LoadsFit /\ ViewFits
    BY DEF MarketInv
  <1>a. slipped \subseteq Trades /\ shown \in Seq(Trades) /\ MaxSockets \in Nat \ {0}
    BY <1>0, MarketAssumption DEF ViewFits
  <1>b. /\ selected \in Symbols /\ wire \in Seq(OfSymbol(selected)) /\ wire \in Seq(Trades)
        /\ counted \in Mine..MaxSockets /\ book \in [Symbols -> [Orders -> Nat]]
        /\ placing \in Symbols \cup {None}
    BY <1>0, OfSymbolIsTrade DEF WorldFits
  <1>1. CASE Deliver
    <2> DEFINE t == Head(wire)
    <2>1. /\ wire # <<>> /\ wire' = Tail(wire)
          /\ shown' = Newest(<<t>> \o shown) /\ price' = t
          /\ slipped' \in {slipped, slipped \cup {t}}
          /\ UNCHANGED <<left, world, selected, link, counted, loads, placing, bookShown, tapeOf,
                         bookHad, bookBehind>>
      BY <1>1 DEF Deliver, Prepended
    <2>2. t \in OfSymbol(selected) /\ t \in Trades /\ Tail(wire) \in Seq(OfSymbol(selected))
      BY <1>b, <2>1, HeadTail
    <2> HIDE DEF t
    <2>3. /\ shown' \in Seq(Trades) /\ shown' # <<>> /\ Head(shown') = t
          /\ tapeOf' = selected' => shown' \in Seq(OfSymbol(selected'))
      <3>1. /\ Newest(<<t>> \o shown) \in Seq(Trades) /\ Newest(<<t>> \o shown) # <<>>
            /\ Head(Newest(<<t>> \o shown)) = t
        BY <1>a, <2>2, PrependType
      <3>2. tapeOf = selected => Newest(<<t>> \o shown) \in Seq(OfSymbol(selected))
        <4>1. tapeOf = selected => shown \in Seq(OfSymbol(selected))
          BY <1>0 DEF ViewFits
        <4> QED BY <2>2, <4>1, PrependType
      <3>3. tapeOf' = tapeOf /\ selected' = selected
        BY <2>1
      <3> QED BY <2>1, <3>1, <3>2, <3>3
    <2>4. WorldFits'
      BY <1>0, <2>1, <2>2 DEF WorldFits, world, Mine
    <2>5. ViewFits'
      BY <1>0, <1>a, <2>1, <2>2, <2>3 DEF ViewFits, BookShowsRested
    <2> QED BY <1>0, <2>1, <2>4, <2>5, LoadsUntouched DEF MarketInv, world
  <1>2. CASE PlaceOrder
    <2>1. /\ placing' = selected /\ left' \in Allowance
          /\ UNCHANGED <<world, selected, socket, loads, view, slipped>>
      BY <1>0, <1>2, MayType DEF PlaceOrder, WorldFits
    <2>2. WorldFits'
      BY <1>0, <2>1 DEF WorldFits, world, socket, Mine
    <2> QED BY <1>0, <1>a, <2>1, <2>2, LoadsUntouched, ViewUntouched DEF MarketInv, world
  <1>3. CASE OrderAnswered
    <2>1. /\ placing' = None /\ placing \in Symbols
          /\ StartLoad(placing) \/ loads' = loads
          /\ UNCHANGED <<left, world, selected, socket, view, slipped>>
      BY <1>3, <1>b DEF OrderAnswered
    <2>2. book' = book
      BY <2>1 DEF world
    <2>3. StartLoad(placing) => LoadsFit'
      BY <1>0, <1>b, <2>1, <2>2, StartLoadFits
    <2>4. LoadsFit'
      BY <1>0, <2>1, <2>2, <2>3, LoadsUntouched
    <2>5. WorldFits'
      BY <1>0, <2>1 DEF WorldFits, world, socket, Mine
    <2> QED BY <1>0, <1>a, <2>1, <2>4, <2>5, ViewUntouched DEF MarketInv
  <1>4. ASSUME NEW s \in Symbols, Select(s) PROVE MarketInv'
    <2>1. /\ selected' = s /\ link' = "connecting" /\ wire' = <<>> /\ counted' = counted
          /\ slipped' = slipped \cup ToSet(wire) /\ tapeOf' = None /\ StartLoad(s)
          /\ left' \in Allowance
          /\ UNCHANGED <<world, placing, shown, price, bookShown, bookHad, bookBehind>>
      BY <1>0, <1>4, MayType DEF Select, Silenced, WorldFits
    <2>2. LoadsFit'
      <3>1. book' = book
        BY <2>1 DEF world
      <3> QED BY <1>0, <1>b, <2>1, <3>1, StartLoadFits
    <2>3. counted' \in Mine'..MaxSockets /\ wire' \in Seq(OfSymbol(selected'))
      BY <1>a, <1>b, <2>1 DEF Mine
    <2>4. WorldFits'
      BY <1>0, <2>1, <2>3 DEF WorldFits, world
    <2>5. slipped' \subseteq Trades /\ tapeOf' # selected'
      BY <1>a, <1>b, <2>1, SetOfSeq, MarketAssumption
    <2>6. ViewFits'
      BY <1>0, <2>1, <2>5 DEF ViewFits, BookShowsRested
    <2> QED BY <2>2, <2>4, <2>6 DEF MarketInv
  <1> QED BY <1>1, <1>2, <1>3, <1>4 DEF Page

LEMMA LoadKeepsInv ==
    ASSUME MarketInv, NEW l \in Loads, Load(l)
    PROVE  MarketInv'
  <1>0. WorldFits /\ LoadsFit /\ ViewFits
    BY DEF MarketInv
  <1>a. slipped \subseteq Trades
    BY <1>0 DEF ViewFits
  <1>1. CASE Read(l)
    <2>1. /\ UNCHANGED <<world, selected, socket, placing, view, slipped>> /\ ~Idle(l)
          /\ left' \in Allowance /\ book' = book
      BY <1>0, <1>1, MayType DEF Read, FailRead, WorldFits, world
    <2>2. LoadsFit'
      BY <1>0, <1>1, <2>1, ReadTapeFits, ReadIndexFits, ReadEntryFits, FailReadFits DEF Read
    <2>3. WorldFits'
      BY <1>0, <2>1 DEF WorldFits, world, socket, Mine
    <2> QED BY <1>0, <1>a, <2>1, <2>2, <2>3, ViewUntouched DEF MarketInv
  <1>2. CASE Abandon(l)
    <2>1. /\ UNCHANGED <<world, selected, socket, placing, view, slipped>>
          /\ left' \in Allowance /\ book' = book /\ loads' = [loads EXCEPT ![l] = NoLoad]
      BY <1>0, <1>2, MayType DEF Abandon, WorldFits, world
    <2>2. LoadsFit'
      BY <1>0, <2>1, NoLoadFits, OneLoadFits
    <2>3. WorldFits'
      BY <1>0, <2>1 DEF WorldFits, world, socket, Mine
    <2> QED BY <1>0, <1>a, <2>1, <2>2, <2>3, ViewUntouched DEF MarketInv
  <1>3. CASE Apply(l)
    <2> DEFINE r == loads[l]
    <2>1. /\ UNCHANGED <<left, world, selected, socket, placing, slipped>>
          /\ book' = book /\ loads' = [loads EXCEPT ![l] = NoLoad]
          /\ r.symbol # None /\ r.listed = {}
      BY <1>3 DEF Apply, world, Answered, Idle
    <2>2. /\ \/ /\ r.bookRead = "entries" /\ bookShown' = r.entries
                /\ bookHad' = r.had /\ bookBehind' = r.behind
             \/ UNCHANGED <<bookShown, bookHad, bookBehind>>
          /\ \/ /\ shown' = r.trades /\ tapeOf' = r.symbol
                /\ price' = IF r.trades = <<>> THEN price ELSE Head(r.trades)
             \/ UNCHANGED <<shown, tapeOf, price>>
      BY <1>3 DEF Apply
    <2>3. LoadFits(r, book) /\ r \in LoadRecord
      BY <1>0 DEF LoadsFit, LoadFits
    <2> HIDE DEF r
    <2>4. LoadsFit'
      BY <1>0, <2>1, NoLoadFits, OneLoadFits
    <2>5. WorldFits'
      BY <1>0, <2>1 DEF WorldFits, world, socket, Mine
    <2>6. /\ r.entries \in [Orders -> Nat] /\ r.had \in [Orders -> SUBSET Nat]
          /\ r.behind \subseteq Orders /\ r.trades \in Seq(Trades) /\ r.symbol \in Symbols
          /\ r.trades \in Seq(OfSymbol(r.symbol))
      BY <2>1, <2>3 DEF LoadRecord, LoadFits
    <2>7. r.bookRead = "entries" => \A o \in Orders : Shows(r, o)
      BY <2>1, <2>3 DEF LoadFits, Known
    <2>8. /\ bookShown' \in [Orders -> Nat] /\ bookHad' \in [Orders -> SUBSET Nat]
          /\ bookBehind' \subseteq Orders /\ BookShowsRested'
      BY <1>0, <2>2, <2>6, <2>7 DEF ViewFits, BookShowsRested, Shows
    <2>9. /\ shown' \in Seq(Trades) /\ price' \in Trades \cup {NoTrade}
          /\ tapeOf' \in Symbols \cup {None}
          /\ tapeOf' = selected => shown' \in Seq(OfSymbol(selected))
          /\ shown' # <<>> => price' = Head(shown')
      <3>1. CASE UNCHANGED <<shown, tapeOf, price>>
        BY <1>0, <3>1 DEF ViewFits
      <3>2. CASE /\ shown' = r.trades /\ tapeOf' = r.symbol
                 /\ price' = IF r.trades = <<>> THEN price ELSE Head(r.trades)
        <4>1. r.trades # <<>> => Head(r.trades) \in Trades
          BY <2>6
        <4>2. price \in Trades \cup {NoTrade}
          BY <1>0 DEF ViewFits
        <4> QED BY <2>6, <3>2, <4>1, <4>2
      <3> QED BY <2>2, <3>1, <3>2
    <2>10. ViewFits'
      BY <1>a, <2>1, <2>8, <2>9 DEF ViewFits
    <2> QED BY <2>4, <2>5, <2>10 DEF MarketInv
  <1> QED BY <1>1, <1>2, <1>3 DEF Load

LEMMA MarketNext == MarketInv /\ [Next]_vars => MarketInv'
  <1> SUFFICES ASSUME MarketInv, [Next]_vars PROVE MarketInv'
    OBVIOUS
  <1>1. CASE UNCHANGED vars
    <2>1. UNCHANGED <<left, world, selected, socket, loads, placing, view, slipped>>
      BY <1>1 DEF vars
    <2>2. WorldFits'
      BY <2>1 DEF MarketInv, WorldFits, world, socket, Mine
    <2>3. ViewFits' /\ LoadsFit'
      BY <2>1, ViewUntouched, LoadsUntouched DEF MarketInv, ViewFits, world
    <2> QED BY <2>2, <2>3 DEF MarketInv
  <1> QED BY <1>1, ExchangeKeepsInv, RelayKeepsInv, PageKeepsInv, LoadKeepsInv DEF Next

LEMMA MarketAlways == Spec => []MarketInv
  BY MarketInit, MarketNext, PTL DEF Spec

-----------------------------------------------------------------------------
(* The variables keep their types, and the relay its count.                *)
THEOREM MarketTypeCorrect == Spec => []MarketTypeOK
  <1>1. MarketInv => MarketTypeOK
    <2> SUFFICES ASSUME MarketInv PROVE MarketTypeOK
      OBVIOUS
    <2>1. loads \in [Loads -> LoadRecord]
      BY DEF MarketInv, LoadsFit, LoadFits
    <2>2. wire \in Seq(Trades)
      BY OfSymbolIsTrade DEF MarketInv, WorldFits
    <2> QED BY <2>1, <2>2 DEF MarketInv, WorldFits, ViewFits, MarketTypeOK
  <1> QED BY <1>1, MarketAlways, PTL

(* Once the selected symbol's own answer is on the page, no other symbol's *)
(* trade is, and the price is the newest trade's.                          *)
THEOREM PageShowsTheSelection == Spec => []ViewOfSelection
  <1>1. MarketInv => ViewOfSelection
    <2> SUFFICES ASSUME MarketInv PROVE ViewOfSelection
      OBVIOUS
    <2>1. /\ tapeOf = selected => shown \in Seq(OfSymbol(selected))
          /\ shown # <<>> => price = Head(shown)
      BY DEF MarketInv, ViewFits
    <2>2. ASSUME shown \in Seq(OfSymbol(selected)), NEW i \in DOMAIN shown
          PROVE  shown[i].symbol = selected
      <3>1. shown[i] \in OfSymbol(selected)
        BY <2>2
      <3> QED BY <3>1 DEF OfSymbol
    <2> QED BY <2>1, <2>2 DEF ViewOfSelection
  <1> QED BY <1>1, MarketAlways, PTL

(* For any depth of the reading: the book on show has of each order what   *)
(* it had while the book was read, but for the orders whose index reading  *)
(* was full before it came to them.                                        *)
THEOREM BookIsOneThatWas == Spec => []BookShowsRested
  <1>1. MarketInv => BookShowsRested
    BY DEF MarketInv, ViewFits
  <1> QED BY <1>1, MarketAlways, PTL

-----------------------------------------------------------------------------
(* The tape.  A trade is announced once and on its way once, so it is      *)
(* shown at most twice: read, and live.  What a load that has read the     *)
(* tape will not show of it is still coming, or has slipped by.            *)

Distinct(q) == \A i, j \in DOMAIN q : q[i] = q[j] => i = j

Live(s) == ToSet(announced[s]) \cup ToSet(wire) \cup slipped
Explained(s, q) == ToSet(tape[s]) \subseteq ToSet(q) \cup Live(s)
Numbered(q) == \A i \in DOMAIN q : q[i].number <= Len(tape[q[i].symbol])
Coming(t) == t \in ToSet(wire) \/ t \in ToSet(announced[t.symbol])

FlightInv ==
    /\ \A s \in Symbols :
          /\ \A i \in DOMAIN tape[s] : tape[s][i].number = Len(tape[s]) + 1 - i
          /\ Distinct(announced[s])
          /\ \A t \in ToSet(announced[s]) : t.number <= Len(tape[s])
    /\ Distinct(wire)
    /\ \A t \in ToSet(wire) : t.number <= Len(tape[selected]) /\ t \notin ToSet(announced[selected])

LoadSound(r) ==
    r.symbol # None =>
        /\ Distinct(r.trades) /\ Numbered(r.trades)
        /\ r.tapeRead = "ok" /\ Len(r.trades) < TapeLimit => Explained(r.symbol, r.trades)

LoadsSound == \A l \in Loads : LoadSound(loads[l])

Twice(q) ==
    /\ \A i, j, k \in DOMAIN q : q[i] = q[j] /\ q[j] = q[k] => i = j \/ j = k \/ i = k
    /\ \A i, j \in DOMAIN q : q[i] = q[j] /\ Coming(q[i]) => i = j

ShownSound ==
    /\ Numbered(shown) /\ Twice(shown)
    /\ tapeOf = selected /\ Len(shown) < TapeLimit => Explained(selected, shown)

TapeInv == FlightInv /\ LoadsSound /\ ShownSound

LEMMA ToSetTail ==
    ASSUME NEW S, NEW q \in Seq(S), q # <<>>
    PROVE  /\ Tail(q) \in Seq(S) /\ Head(q) \in ToSet(q)
           /\ ToSet(q) = ToSet(Tail(q)) \cup {Head(q)}
           /\ Distinct(q) => Distinct(Tail(q)) /\ Head(q) \notin ToSet(Tail(q))
  <1>1. /\ Len(q) \in Nat /\ Len(q) >= 1 /\ Head(q) = q[1] /\ DOMAIN q = 1 .. Len(q)
        /\ Tail(q) \in Seq(S) /\ DOMAIN Tail(q) = 1 .. Len(q) - 1
        /\ \A i \in 1 .. Len(q) - 1 : Tail(q)[i] = q[i + 1]
    OBVIOUS
  <1>2. \A i \in 1 .. Len(q) : i = 1 \/ (i - 1 \in 1 .. Len(q) - 1 /\ q[i] = Tail(q)[i - 1])
    BY <1>1
  <1>3. \A i \in 1 .. Len(q) - 1 : i + 1 \in 1 .. Len(q) /\ i + 1 # 1
    BY <1>1
  <1>4. ToSet(q) = ToSet(Tail(q)) \cup {Head(q)}
    <2>1. ASSUME NEW t \in ToSet(q) PROVE t \in ToSet(Tail(q)) \cup {Head(q)}
      <3>1. PICK i \in 1 .. Len(q) : t = q[i]
        BY <1>1 DEF ToSet
      <3>2. i # 1 => i - 1 \in DOMAIN Tail(q) /\ t = Tail(q)[i - 1]
        BY <1>1, <1>2, <3>1
      <3>3. i # 1 => t \in ToSet(Tail(q))
        BY <3>2 DEF ToSet
      <3> QED BY <1>1, <3>1, <3>3
    <2>2. \A t \in ToSet(Tail(q)) : t \in ToSet(q)
      BY <1>1, <1>3 DEF ToSet
    <2>3. Head(q) \in ToSet(q)
      BY <1>1 DEF ToSet
    <2> QED BY <2>1, <2>2, <2>3
  <1>5. ASSUME Distinct(q) PROVE Distinct(Tail(q)) /\ Head(q) \notin ToSet(Tail(q))
    <2>1. Distinct(Tail(q))
      <3> SUFFICES ASSUME NEW i \in 1 .. Len(q) - 1, NEW j \in 1 .. Len(q) - 1,
                          Tail(q)[i] = Tail(q)[j]
                   PROVE  i = j
        BY <1>1 DEF Distinct
      <3>1. i + 1 \in DOMAIN q /\ j + 1 \in DOMAIN q /\ q[i + 1] = q[j + 1]
        BY <1>1, <1>3
      <3>2. i + 1 = j + 1
        BY <1>5, <3>1 DEF Distinct
      <3> QED BY <3>2
    <2>2. ASSUME NEW i \in 1 .. Len(q) - 1, Tail(q)[i] = q[1] PROVE FALSE
      <3>1. i + 1 \in DOMAIN q /\ 1 \in DOMAIN q /\ q[i + 1] = q[1]
        BY <1>1, <1>3, <2>2
      <3>2. i + 1 = 1
        BY <1>5, <3>1 DEF Distinct
      <3> QED BY <3>2
    <2> QED BY <1>1, <2>1, <2>2 DEF ToSet
  <1> QED BY <1>1, <1>4, <1>5

LEMMA ToSetAppend ==
    ASSUME NEW S, NEW q \in Seq(S), NEW t \in S
    PROVE  /\ ToSet(Append(q, t)) = ToSet(q) \cup {t}
           /\ Distinct(q) /\ t \notin ToSet(q) => Distinct(Append(q, t))
  <1>1. /\ Len(q) \in Nat /\ DOMAIN q = 1 .. Len(q)
        /\ DOMAIN Append(q, t) = 1 .. Len(q) + 1
        /\ \A i \in 1 .. Len(q) : Append(q, t)[i] = q[i]
        /\ Append(q, t)[Len(q) + 1] = t
    OBVIOUS
  <1>2. \A i \in 1 .. Len(q) + 1 : i \in 1 .. Len(q) \/ i = Len(q) + 1
    BY <1>1
  <1>3. ToSet(Append(q, t)) = ToSet(q) \cup {t}
    <2>1. \A x \in ToSet(Append(q, t)) : x \in ToSet(q) \cup {t}
      BY <1>1, <1>2 DEF ToSet
    <2>2. \A x \in ToSet(q) : x \in ToSet(Append(q, t))
      BY <1>1 DEF ToSet
    <2>3. t \in ToSet(Append(q, t))
      BY <1>1 DEF ToSet
    <2> QED BY <2>1, <2>2, <2>3
  <1>4. ASSUME Distinct(q), t \notin ToSet(q) PROVE Distinct(Append(q, t))
    <2>1. \A i \in 1 .. Len(q) : q[i] # t
      BY <1>1, <1>4 DEF ToSet
    <2> QED BY <1>1, <1>2, <1>4, <2>1 DEF Distinct
  <1> QED BY <1>3, <1>4

IsCons(c, t, q) ==
    /\ Len(c) = Len(q) + 1 /\ c[1] = t
    /\ \A i \in DOMAIN c : i = 1 \/ (i - 1 \in DOMAIN q /\ c[i] = q[i - 1])
    /\ ToSet(c) = ToSet(q) \cup {t}

LEMMA ToSetCons ==
    ASSUME NEW S, NEW q \in Seq(S), NEW t \in S
    PROVE  <<t>> \o q \in Seq(S) /\ IsCons(<<t>> \o q, t, q)
  <1> PICK c : c = <<t>> \o q
    OBVIOUS
  <1>1. /\ c \in Seq(S) /\ Len(c) = Len(q) + 1 /\ c[1] = t /\ Len(q) \in Nat
        /\ DOMAIN q = 1 .. Len(q) /\ DOMAIN c = 1 .. Len(q) + 1
        /\ \A i \in 1 .. Len(q) : c[i + 1] = q[i]
    OBVIOUS
  <1>2. \A i \in DOMAIN c : i = 1 \/ (i - 1 \in DOMAIN q /\ c[i] = q[i - 1])
    BY <1>1
  <1>3. ToSet(c) = ToSet(q) \cup {t}
    <2>1. \A x \in ToSet(c) : x \in ToSet(q) \cup {t}
      BY <1>1, <1>2 DEF ToSet
    <2>2. \A x \in ToSet(q) : x \in ToSet(c)
      <3>1. \A i \in 1 .. Len(q) : i + 1 \in DOMAIN c
        BY <1>1
      <3> QED BY <1>1, <3>1 DEF ToSet
    <2>3. t \in ToSet(c)
      BY <1>1 DEF ToSet
    <2> QED BY <2>1, <2>2, <2>3
  <1> QED BY <1>1, <1>2, <1>3 DEF IsCons

LEMMA PrefixOf ==
    ASSUME NEW S, NEW q \in Seq(S), NEW n \in Nat, n <= Len(q)
    PROVE  /\ Len(SubSeq(q, 1, n)) = n
           /\ \A i \in DOMAIN SubSeq(q, 1, n) : i \in DOMAIN q /\ SubSeq(q, 1, n)[i] = q[i]
           /\ n = Len(q) => SubSeq(q, 1, n) = q
  <1> PICK m \in Nat : m = Len(q)
    OBVIOUS
  <1>1. /\ Len(SubSeq(q, 1, n)) = n /\ DOMAIN SubSeq(q, 1, n) = 1 .. n
        /\ \A i \in 1 .. n : SubSeq(q, 1, n)[i] = q[i]
    OBVIOUS
  <1>2. n <= m /\ DOMAIN q = 1 .. m
    OBVIOUS
  <1>3. \A i \in 1 .. n : i \in 1 .. m
    BY <1>2
  <1>4. SubSeq(q, 1, m) = q
    OBVIOUS
  <1> QED BY <1>1, <1>2, <1>3, <1>4

(* What of q is kept as p: all, if there is room to spare.                 *)
IsStart(p, q) ==
    /\ \A i \in DOMAIN p : i \in DOMAIN q /\ p[i] = q[i]
    /\ Len(p) < TapeLimit => p = q /\ Len(q) < TapeLimit

LEMMA NewestPrefix ==
    ASSUME NEW S, NEW q \in Seq(S), NEW p, p = Newest(q)
    PROVE  /\ IsStart(p, q)
           /\ Distinct(q) => Distinct(p)
           /\ Numbered(q) => Numbered(p)
           /\ Twice(q) => Twice(p)
  <1>1. \E n \in Nat : n <= Len(q) /\ (n < TapeLimit => n = Len(q)) /\ p = SubSeq(q, 1, n)
    <2>1. Len(q) \in Nat /\ TapeLimit \in Nat
      BY MarketAssumption
    <2>2. CASE Len(q) < TapeLimit
      BY <2>1, <2>2 DEF Newest
    <2>3. CASE ~(Len(q) < TapeLimit)
      BY <2>1, <2>3 DEF Newest
    <2> QED BY <2>2, <2>3
  <1>2. PICK n \in Nat : n <= Len(q) /\ (n < TapeLimit => n = Len(q)) /\ p = SubSeq(q, 1, n)
    BY <1>1
  <1>3. Len(p) = n /\ (n = Len(q) => p = q)
    BY <1>2, PrefixOf
  <1>4. \A i \in DOMAIN p : i \in DOMAIN q /\ p[i] = q[i]
    BY <1>2, PrefixOf
  <1>6. Len(p) < TapeLimit => p = q /\ Len(q) < TapeLimit
    BY <1>2, <1>3
  <1>7. Distinct(q) => Distinct(p)
    BY <1>4 DEF Distinct
  <1>8. Numbered(q) => Numbered(p)
    BY <1>4 DEF Numbered
  <1>9. Twice(q) => Twice(p)
    BY <1>4 DEF Twice
  <1> QED BY <1>4, <1>6, <1>7, <1>8, <1>9 DEF IsStart

(* What every step does: trades are added and announced, and what comes is *)
(* never lost from sight.                                                  *)
Onward ==
    \A s \in Symbols :
        /\ Len(tape[s]) <= Len(tape'[s])
        /\ ToSet(tape'[s]) \subseteq ToSet(tape[s]) \cup Live(s)'
        /\ Live(s) \subseteq Live(s)'

(* A load is as it was, fails, ends or starts.                             *)
Follows(new, old) ==
    \/ new.symbol = None
    \/ new.symbol \in Symbols /\ new.trades = <<>> /\ new.tapeRead = "no"
    \/ /\ new.symbol = old.symbol /\ new.trades = old.trades
       /\ new.tapeRead \in {old.tapeRead, "failed"}

LEMMA TapeLengths == WorldFits => \A s \in Symbols : Len(tape[s]) \in Nat
  BY DEF WorldFits

LEMMA TapeLengthsNext == WorldFits' => \A s \in Symbols : Len(tape'[s]) \in Nat
  BY DEF WorldFits

LEMMA NumberedOnward ==
    ASSUME WorldFits, WorldFits', Onward, NEW q \in Seq(Trades), Numbered(q)
    PROVE  Numbered(q)'
  <1> SUFFICES ASSUME NEW i \in DOMAIN q PROVE q[i].number <= Len(tape'[q[i].symbol])
    BY DEF Numbered
  <1>1. q[i] \in Trades
    OBVIOUS
  <1>2. q[i].number \in Nat /\ q[i].symbol \in Symbols /\ q[i].number <= Len(tape[q[i].symbol])
    BY <1>1 DEF Trades, Numbered
  <1> QED BY <1>2, TapeLengths, TapeLengthsNext DEF Onward

LEMMA ExplainedOnward ==
    ASSUME Onward, NEW s \in Symbols, NEW q, Explained(s, q)
    PROVE  Explained(s, q)'
  BY DEF Onward, Explained

LEMMA LoadsOnward ==
    ASSUME WorldFits, LoadsFit, LoadsSound, WorldFits', Onward,
           \A l \in Loads : Follows(loads'[l], loads[l])
    PROVE  LoadsSound'
  <1> SUFFICES ASSUME NEW l \in Loads PROVE LoadSound(loads[l])'
    BY DEF LoadsSound
  <1> PICK r : r = loads[l]
    OBVIOUS
  <1> PICK n : n = loads'[l]
    OBVIOUS
  <1>1. r \in LoadRecord /\ r.trades \in Seq(Trades) /\ r.symbol \in Symbols \cup {None}
        /\ LoadSound(r) /\ Follows(n, r)
    BY DEF LoadsFit, LoadFits, LoadsSound, LoadRecord
  <1>2. CASE n.symbol = None
    BY <1>2 DEF LoadSound
  <1>3. CASE n.symbol # None /\ n.trades = <<>> /\ n.tapeRead = "no"
    BY <1>3 DEF LoadSound, Distinct, Numbered
  <1>4. CASE /\ n.symbol # None /\ n.symbol = r.symbol /\ n.trades = r.trades
             /\ n.tapeRead \in {r.tapeRead, "failed"}
    <2>1. Distinct(r.trades) /\ Numbered(r.trades) /\ r.symbol \in Symbols
      BY <1>1, <1>4 DEF LoadSound
    <2>2. Numbered(r.trades)'
      BY <1>1, <2>1, NumberedOnward
    <2> PICK s, q : s = r.symbol /\ q = r.trades
      OBVIOUS
    <2>3. ASSUME n.tapeRead = "ok", Len(n.trades) < TapeLimit PROVE Explained(s, q)'
      <3>1. Explained(s, q) /\ s \in Symbols
        BY <1>1, <1>4, <2>1, <2>3 DEF LoadSound
      <3> QED BY <3>1, ExplainedOnward
    <2>4. n.symbol = s /\ n.trades = q
      BY <1>4
    <2>5. Distinct(q) /\ Numbered(q)'
      BY <2>1, <2>2
    <2> QED BY <2>3, <2>4, <2>5 DEF LoadSound
  <1> QED BY <1>1, <1>2, <1>3, <1>4 DEF Follows

LEMMA ShownOnward ==
    ASSUME WorldFits, ViewFits, ShownSound, WorldFits', Onward, shown' = shown,
           tapeOf' = selected' => tapeOf = selected /\ selected' = selected,
           \A t \in ToSet(shown) : Coming(t)' => Coming(t)
    PROVE  ShownSound'
  <1>1. shown \in Seq(Trades) /\ selected \in Symbols
    BY DEF ViewFits, WorldFits
  <1>2. Numbered(shown)'
    <2> PICK q : q = shown
      OBVIOUS
    <2>1. Numbered(q)'
      BY <1>1, NumberedOnward DEF ShownSound
    <2> QED BY <2>1
  <1>3. Twice(shown)'
    <2>1. \A i \in DOMAIN shown : Coming(shown[i])' => Coming(shown[i])
      <3> SUFFICES ASSUME NEW i \in DOMAIN shown, Coming(shown[i])' PROVE Coming(shown[i])
        OBVIOUS
      <3> PICK t : t = shown[i]
        OBVIOUS
      <3>1. t = shown'[i] /\ t \in ToSet(shown)
        BY DEF ToSet
      <3>2. Coming(t)'
        BY <3>1 DEF Coming
      <3> QED BY <3>1, <3>2
    <2>2. Twice(shown)
      BY DEF ShownSound
    <2> QED BY <2>1, <2>2 DEF Twice, Coming
  <1>4. ASSUME tapeOf' = selected', Len(shown') < TapeLimit PROVE Explained(selected, shown)'
    <2> PICK s, q : s = selected /\ q = shown
      OBVIOUS
    <2>1. Explained(s, q)
      BY <1>4 DEF ShownSound
    <2>2. Explained(s, q)'
      BY <1>1, <2>1, ExplainedOnward
    <2>3. s = selected' /\ q = shown'
      BY <1>4
    <2> QED BY <2>2, <2>3 DEF Explained, Live
  <1> QED BY <1>2, <1>3, <1>4 DEF ShownSound

LEMMA FlightTypes ==
    ASSUME WorldFits
    PROVE  /\ \A s \in Symbols :
                 /\ tape[s] \in Seq(Trades) /\ announced[s] \in Seq(Trades)
                 /\ \A t \in ToSet(announced[s]) :
                       t \in Trades /\ t.symbol = s /\ t.number \in Nat
           /\ wire \in Seq(Trades) /\ selected \in Symbols
           /\ \A t \in ToSet(wire) : t \in Trades /\ t.symbol = selected /\ t.number \in Nat
  <1>1. \A s \in Symbols : tape[s] \in Seq(Trades) /\ announced[s] \in Seq(OfSymbol(s))
    BY DEF WorldFits
  <1>2. wire \in Seq(OfSymbol(selected)) /\ selected \in Symbols
    BY DEF WorldFits
  <1>3. ASSUME NEW s \in Symbols, NEW q \in Seq(OfSymbol(s)), NEW t \in ToSet(q)
        PROVE  t \in Trades /\ t.symbol = s /\ t.number \in Nat
    <2>1. t \in OfSymbol(s)
      BY <1>3, SetOfSeq
    <2> QED BY <2>1, OfSymbolIsTrade DEF OfSymbol
  <1> QED BY <1>1, <1>2, <1>3, OfSymbolIsTrade

LEMMA ShownTypes ==
    ASSUME ViewFits, ShownSound, NEW t \in ToSet(shown)
    PROVE  t \in Trades /\ t.number <= Len(tape[t.symbol])
  BY DEF ViewFits, ShownSound, Numbered, ToSet

LEMMA SameLoads ==
    ASSUME LoadsFit, loads' = loads
    PROVE  \A l \in Loads : Follows(loads'[l], loads[l])
  BY DEF Follows

(* One load is another, or none.                                           *)
LEMMA OneLoadFollows ==
    ASSUME LoadsFit, NEW l \in Loads, NEW new, loads' = [loads EXCEPT ![l] = new],
           Follows(new, loads[l])
    PROVE  \A k \in Loads : Follows(loads'[k], loads[k])
  <1> SUFFICES ASSUME NEW k \in Loads PROVE Follows(loads'[k], loads[k])
    OBVIOUS
  <1>1. CASE k = l
    <2>1. loads'[k] = new
      BY <1>1 DEF LoadsFit
    <2> QED BY <1>1, <2>1
  <1>2. CASE k # l
    <2>1. loads'[k] = loads[k]
      BY <1>2 DEF LoadsFit
    <2> QED BY <2>1 DEF Follows
  <1> QED BY <1>1, <1>2

LEMMA StartFollows ==
    ASSUME LoadsFit, NEW s \in Symbols, StartLoad(s)
    PROVE  \A k \in Loads : Follows(loads'[k], loads[k])
  <1> PICK l \in Loads : loads' = [loads EXCEPT ![l] = Started(s)]
    BY DEF StartLoad
  <1> PICK new : new = Started(s)
    OBVIOUS
  <1>1. new.symbol = s /\ new.trades = <<>> /\ new.tapeRead = "no"
    BY DEF Started
  <1>2. Follows(new, loads[l])
    BY <1>1 DEF Follows
  <1> QED BY <1>2, OneLoadFollows

(* What is announced or on the wire only moves: nothing new is traded.     *)
LEMMA TradeKeepsTape ==
    ASSUME MarketInv, MarketInv', TapeInv, NEW s \in Symbols, Trade(s)
    PROVE  TapeInv'
  <1>0. WorldFits /\ LoadsFit /\ ViewFits /\ WorldFits' /\ FlightInv /\ LoadsSound /\ ShownSound
    BY DEF MarketInv, TapeInv
  <1> PICK n : n = Len(tape[s])
    OBVIOUS
  <1> PICK t : t = [symbol |-> s, number |-> n + 1]
    OBVIOUS
  <1> PICK old, q : old = tape[s] /\ q = announced[s]
    OBVIOUS
  <1>1. /\ tape' = [tape EXCEPT ![s] = <<t>> \o old]
        /\ announced' = [announced EXCEPT ![s] = Append(q, t)]
        /\ UNCHANGED <<selected, wire, loads, shown, tapeOf, slipped>>
    BY DEF Trade, socket, view
  <1>2. /\ old \in Seq(Trades) /\ q \in Seq(Trades) /\ n \in Nat /\ n = Len(old)
        /\ t \in Trades /\ t.symbol = s /\ t.number = n + 1
        /\ selected \in Symbols
    <2>1. old \in Seq(Trades) /\ q \in Seq(Trades) /\ selected \in Symbols
      BY <1>0, FlightTypes
    <2>2. n \in Nat /\ n = Len(old)
      BY <2>1
    <2>3. t \in Trades /\ t.symbol = s /\ t.number = n + 1
      BY <2>2 DEF Trades
    <2> QED BY <2>1, <2>2, <2>3
  <1>3. /\ tape'[s] = <<t>> \o old /\ announced'[s] = Append(q, t)
        /\ \A x \in Symbols : x # s => tape'[x] = tape[x] /\ announced'[x] = announced[x]
    BY <1>0, <1>1 DEF WorldFits
  <1> PICK c : c = <<t>> \o old
    OBVIOUS
  <1>4. /\ Len(c) = n + 1 /\ c[1] = t /\ ToSet(c) = ToSet(old) \cup {t}
        /\ \A i \in DOMAIN c : i = 1 \/ (i - 1 \in DOMAIN old /\ c[i] = old[i - 1])
        /\ \A i \in DOMAIN c : i \in Nat
    <2>1. c \in Seq(Trades) /\ IsCons(c, t, old)
      BY <1>2, ToSetCons
    <2>2. \A i \in DOMAIN c : i \in Nat
      BY <2>1
    <2> QED BY <1>2, <2>1, <2>2 DEF IsCons
  <1>5. ToSet(announced'[s]) = ToSet(q) \cup {t}
    BY <1>2, <1>3, ToSetAppend
  <1>6. \A x \in Symbols : ToSet(announced[x]) \subseteq ToSet(announced'[x])
    BY <1>3, <1>5
  <1>7. Onward
    <2> SUFFICES ASSUME NEW x \in Symbols
                 PROVE  /\ Len(tape[x]) <= Len(tape'[x])
                        /\ ToSet(tape'[x]) \subseteq ToSet(tape[x]) \cup Live(x)'
                        /\ Live(x) \subseteq Live(x)'
      BY DEF Onward
    <2>1. Live(x) \subseteq Live(x)'
      BY <1>1, <1>6 DEF Live
    <2>2. CASE x = s
      <3>1. t \in Live(x)'
        BY <1>5, <2>2 DEF Live
      <3>2. Len(tape[x]) = n /\ Len(tape'[x]) = n + 1
        BY <1>2, <1>3, <1>4, <2>2
      <3>3. ToSet(tape'[x]) = ToSet(tape[x]) \cup {t}
        BY <1>3, <1>4, <2>2
      <3> QED BY <1>2, <2>1, <3>1, <3>2, <3>3
    <2>3. CASE x # s
      <3>1. Len(tape[x]) \in Nat
        BY <1>0, TapeLengths
      <3> QED BY <1>3, <2>1, <2>3, <3>1
    <2> QED BY <2>2, <2>3
  <1>8. \A x : x \in ToSet(q) => x.number \in Nat /\ x.number <= n /\ x # t
    BY <1>0, <1>2, FlightTypes DEF FlightInv
  <1>9. FlightInv'
    <2>1. ASSUME NEW i \in DOMAIN c PROVE c[i].number = Len(c) + 1 - i
      <3>1. CASE i = 1
        BY <1>2, <1>4, <3>1
      <3>2. CASE i # 1
        <4>1. i - 1 \in DOMAIN old /\ c[i] = old[i - 1] /\ i \in Nat
          BY <1>4, <3>2
        <4>2. old[i - 1].number = n + 1 - (i - 1)
          BY <1>0, <1>2, <4>1 DEF FlightInv
        <4> QED BY <1>2, <1>4, <4>1, <4>2
      <3> QED BY <3>1, <3>2
    <2>2. Distinct(announced'[s])
      <3>1. Distinct(q)
        BY <1>0 DEF FlightInv
      <3> QED BY <1>2, <1>3, <1>8, <3>1, ToSetAppend
    <2>3. \A x \in ToSet(announced'[s]) : x.number <= Len(c)
      BY <1>2, <1>4, <1>5, <1>8
    <2>4. ASSUME NEW x \in Symbols
          PROVE  /\ \A i \in DOMAIN tape'[x] : tape'[x][i].number = Len(tape'[x]) + 1 - i
                 /\ Distinct(announced'[x])
                 /\ \A z \in ToSet(announced'[x]) : z.number <= Len(tape'[x])
      <3>1. CASE x = s
        BY <1>3, <2>1, <2>2, <2>3, <3>1
      <3>2. CASE x # s
        BY <1>0, <1>3, <3>2 DEF FlightInv
      <3> QED BY <3>1, <3>2
    <2>5. ASSUME NEW x \in ToSet(wire)
          PROVE  x.number <= Len(tape'[selected]) /\ x \notin ToSet(announced'[selected])
      <3>1. x.number <= Len(tape[selected]) /\ x \notin ToSet(announced[selected])
            /\ x.number \in Nat
        BY <1>0, FlightTypes DEF FlightInv
      <3>2. CASE selected = s
        <4>1. Len(tape[selected]) = n /\ Len(tape'[selected]) = n + 1
          BY <1>2, <1>3, <1>4, <3>2
        <4>2. x # t
          BY <1>2, <3>1, <4>1
        <4>3. ToSet(announced'[selected]) = ToSet(announced[selected]) \cup {t}
          BY <1>5, <3>2
        <4> QED BY <1>2, <3>1, <4>1, <4>2, <4>3
      <3>3. CASE selected # s
        BY <1>2, <1>3, <3>1, <3>3
      <3> QED BY <3>2, <3>3
    <2>6. Distinct(wire) /\ wire' = wire /\ selected' = selected
      BY <1>0, <1>1 DEF FlightInv
    <2> QED BY <2>4, <2>5, <2>6 DEF FlightInv
  <1>10. LoadsSound'
    BY <1>0, <1>1, <1>7, SameLoads, LoadsOnward
  <1>11. ASSUME NEW x \in ToSet(shown), Coming(x)' PROVE Coming(x)
    <2>1. x \in Trades /\ x.number <= Len(tape[x.symbol])
      BY <1>0, ShownTypes
    <2>2. x # t
      BY <1>2, <2>1
    <2>3. x.symbol \in Symbols
      BY <2>1 DEF Trades
    <2>4. x \in ToSet(announced'[x.symbol]) => x \in ToSet(announced[x.symbol])
      BY <1>3, <1>5, <2>2, <2>3
    <2> QED BY <1>1, <1>11, <2>4 DEF Coming
  <1>12. ShownSound'
    BY <1>0, <1>1, <1>7, <1>11, ShownOnward
  <1> QED BY <1>9, <1>10, <1>12 DEF TapeInv

(* What is announced or on the wire is handled, or slips by.               *)
LEMMA HandledKeepsFlight ==
    ASSUME WorldFits, FlightInv, tape' = tape,
           \A x \in Symbols : ToSet(announced'[x]) \subseteq ToSet(announced[x])
                              /\ Distinct(announced'[x]),
           Distinct(wire'), selected' \in Symbols,
           \A t \in ToSet(wire') : t.number <= Len(tape[selected'])
                                   /\ t \notin ToSet(announced'[selected'])
    PROVE  FlightInv'
  BY DEF FlightInv

LEMMA MovedOnward ==
    ASSUME WorldFits, tape' = tape, \A x \in Symbols : Live(x) \subseteq Live(x)'
    PROVE  Onward
  BY TapeLengths DEF Onward

(* The first announcement of s is taken: by the page, or by no one.        *)
LEMMA AnnouncementTaken ==
    ASSUME MarketInv, MarketInv', TapeInv, NEW s \in Symbols, NEW t, t = Head(announced[s]),
           announced[s] # <<>>, announced' = [announced EXCEPT ![s] = Tail(@)],
           \/ wire' = Append(wire, t) /\ s = selected /\ slipped' = slipped
           \/ wire' = wire /\ slipped' = slipped \cup {t},
           UNCHANGED <<tape, selected, loads, shown, tapeOf>>
    PROVE  TapeInv'
  <1>0. WorldFits /\ LoadsFit /\ ViewFits /\ WorldFits' /\ FlightInv /\ LoadsSound /\ ShownSound
    BY DEF MarketInv, TapeInv
  <1> PICK q : q = announced[s]
    OBVIOUS
  <1>1. /\ announced'[s] = Tail(q)
        /\ \A x \in Symbols : x # s => announced'[x] = announced[x]
    BY <1>0 DEF WorldFits
  <1>2. q \in Seq(Trades) /\ Distinct(q) /\ wire \in Seq(Trades) /\ selected \in Symbols
    BY <1>0, FlightTypes DEF FlightInv
  <1>3. /\ t \in ToSet(q) /\ ToSet(q) = ToSet(Tail(q)) \cup {t}
        /\ Distinct(Tail(q)) /\ t \notin ToSet(Tail(q))
    BY <1>2, ToSetTail
  <1>4. t \in Trades /\ t.symbol = s /\ t.number <= Len(tape[s])
    BY <1>0, <1>3, FlightTypes DEF FlightInv
  <1>5. \/ ToSet(wire') = ToSet(wire) \cup {t} /\ s = selected /\ slipped' = slipped
        \/ wire' = wire /\ slipped' = slipped \cup {t}
    <2>1. ToSet(Append(wire, t)) = ToSet(wire) \cup {t}
      BY <1>2, <1>4, ToSetAppend
    <2> QED BY <2>1
  <1>6. Distinct(wire')
    <2>1. Distinct(wire)
      BY <1>0 DEF FlightInv
    <2>2. CASE wire' = Append(wire, t) /\ s = selected
      <3>1. t \notin ToSet(wire)
        BY <1>0, <1>3, <2>2 DEF FlightInv
      <3> QED BY <1>2, <1>4, <2>1, <2>2, <3>1, ToSetAppend
    <2> QED BY <2>1, <2>2
  <1>7. ASSUME NEW x \in Symbols
        PROVE  /\ ToSet(announced'[x]) \subseteq ToSet(announced[x]) /\ Distinct(announced'[x])
               /\ Live(x) \subseteq Live(x)'
    <2>1. CASE x = s
      BY <1>1, <1>3, <1>5, <2>1 DEF Live
    <2>2. CASE x # s
      BY <1>0, <1>1, <1>5, <2>2 DEF Live, FlightInv
    <2> QED BY <2>1, <2>2
  <1>8. ASSUME NEW x \in ToSet(wire')
        PROVE  x.number <= Len(tape[selected]) /\ x \notin ToSet(announced'[selected])
    <2>1. CASE x \in ToSet(wire)
      BY <1>0, <1>2, <1>7, <2>1 DEF FlightInv
    <2>2. CASE x \notin ToSet(wire)
      BY <1>1, <1>3, <1>4, <1>5, <1>8, <2>2
    <2> QED BY <2>1, <2>2
  <1>9. FlightInv'
    BY <1>0, <1>2, <1>6, <1>7, <1>8, HandledKeepsFlight
  <1>10. Onward
    BY <1>0, <1>7, MovedOnward
  <1>11. ASSUME NEW x \in ToSet(shown), Coming(x)' PROVE Coming(x)
    <2>1. x.symbol \in Symbols
      BY <1>0, ShownTypes DEF Trades
    <2>2. x \in ToSet(announced'[x.symbol]) => x \in ToSet(announced[x.symbol])
      BY <1>7, <2>1
    <2>3. t \in ToSet(announced[t.symbol])
      BY <1>3, <1>4
    <2> QED BY <1>5, <1>11, <2>2, <2>3 DEF Coming
  <1>12. LoadsSound'
    BY <1>0, <1>10, SameLoads, LoadsOnward
  <1>13. ShownSound'
    BY <1>0, <1>10, <1>11, ShownOnward
  <1> QED BY <1>9, <1>12, <1>13 DEF TapeInv

(* The wire is cut: the connection breaks, or the selection changes.       *)
LEMMA WireCut ==
    ASSUME MarketInv, MarketInv', TapeInv, wire' = <<>>, slipped' = slipped \cup ToSet(wire),
           UNCHANGED <<tape, announced, shown>>, selected' \in Symbols,
           tapeOf' = selected' => tapeOf = selected /\ selected' = selected,
           \A l \in Loads : Follows(loads'[l], loads[l])
    PROVE  TapeInv'
  <1>0. WorldFits /\ LoadsFit /\ ViewFits /\ WorldFits' /\ FlightInv /\ LoadsSound /\ ShownSound
    BY DEF MarketInv, TapeInv
  <1>1. ToSet(wire') = {} /\ Distinct(wire')
    BY DEF ToSet, Distinct
  <1>2. \A x \in Symbols : Live(x) \subseteq Live(x)'
    BY DEF Live
  <1>3. FlightInv'
    BY <1>0, <1>1, HandledKeepsFlight DEF FlightInv
  <1>4. Onward
    BY <1>0, <1>2, MovedOnward
  <1>5. \A x \in ToSet(shown) : Coming(x)' => Coming(x)
    BY <1>1 DEF Coming
  <1>6. LoadsSound'
    BY <1>0, <1>4, LoadsOnward
  <1>7. ShownSound'
    BY <1>0, <1>4, <1>5, ShownOnward
  <1> QED BY <1>3, <1>6, <1>7 DEF TapeInv

(* Nothing of the tape moves.                                              *)
LEMMA TapeStill ==
    ASSUME MarketInv, MarketInv', TapeInv,
           UNCHANGED <<tape, announced, wire, slipped, selected, shown, tapeOf>>,
           \A l \in Loads : Follows(loads'[l], loads[l])
    PROVE  TapeInv'
  <1>0. WorldFits /\ LoadsFit /\ ViewFits /\ WorldFits' /\ FlightInv /\ LoadsSound /\ ShownSound
    BY DEF MarketInv, TapeInv
  <1>1. \A x \in Symbols : Live(x) \subseteq Live(x)'
    BY DEF Live
  <1>2. FlightInv'
    BY <1>0 DEF FlightInv
  <1>3. Onward
    BY <1>0, <1>1, MovedOnward
  <1>4. \A x \in ToSet(shown) : Coming(x)' => Coming(x)
    BY DEF Coming
  <1>5. LoadsSound'
    BY <1>0, <1>3, LoadsOnward
  <1>6. ShownSound'
    BY <1>0, <1>3, <1>4, ShownOnward
  <1> QED BY <1>2, <1>5, <1>6 DEF TapeInv

LEMMA DeliverKeepsTape ==
    ASSUME MarketInv, MarketInv', TapeInv, Deliver
    PROVE  TapeInv'
  <1>0. WorldFits /\ LoadsFit /\ ViewFits /\ WorldFits' /\ FlightInv /\ LoadsSound /\ ShownSound
    BY DEF MarketInv, TapeInv
  <1> PICK t : t = Head(wire)
    OBVIOUS
  <1> PICK q : q = shown
    OBVIOUS
  <1> PICK c : c = <<t>> \o q
    OBVIOUS
  <1> PICK p : p = Newest(c)
    OBVIOUS
  <1>1. /\ wire # <<>> /\ wire' = Tail(wire) /\ shown' = p
        /\ slipped' = IF UnderWay THEN slipped \cup {t} ELSE slipped
        /\ UNCHANGED <<tape, announced, selected, loads, tapeOf>>
    BY DEF Deliver, Prepended, world
  <1>2. wire \in Seq(Trades) /\ selected \in Symbols /\ q \in Seq(Trades) /\ Distinct(wire)
    BY <1>0, FlightTypes DEF ViewFits, FlightInv
  <1>3. /\ t \in ToSet(wire) /\ ToSet(wire) = ToSet(wire') \cup {t}
        /\ Distinct(wire') /\ t \notin ToSet(wire')
    BY <1>1, <1>2, ToSetTail
  <1>4. /\ t \in Trades /\ t.symbol = selected /\ t.number <= Len(tape[selected])
        /\ t \notin ToSet(announced[selected])
    BY <1>0, <1>3, FlightTypes DEF FlightInv
  <1>5. c \in Seq(Trades) /\ IsCons(c, t, q)
    BY <1>2, <1>4, ToSetCons
  <1>6. \A i \in DOMAIN c : i \in Nat
    BY <1>5
  <1>7. /\ \A i \in DOMAIN p : i \in DOMAIN c /\ p[i] = c[i]
        /\ Len(p) < TapeLimit => p = c /\ Len(c) < TapeLimit
    <2>1. IsStart(p, c)
      BY <1>5, NewestPrefix
    <2> QED BY <2>1 DEF IsStart
  <1>8. Coming(t) /\ ~Coming(t)' /\ \A x : Coming(x)' => Coming(x)
    BY <1>1, <1>3, <1>4 DEF Coming
  <1>9. FlightInv'
    <2>1. \A x \in Symbols : ToSet(announced'[x]) \subseteq ToSet(announced[x])
                             /\ Distinct(announced'[x])
      BY <1>0, <1>1 DEF FlightInv
    <2>2. \A x \in ToSet(wire') : x.number <= Len(tape[selected'])
                                  /\ x \notin ToSet(announced'[selected'])
      BY <1>0, <1>1, <1>3 DEF FlightInv
    <2> QED BY <1>0, <1>1, <1>2, <1>3, <2>1, <2>2, HandledKeepsFlight
  <1>10. LoadsSound'
    <2>1. CASE UnderWay
      <3>1. \A x \in Symbols : Live(x) \subseteq Live(x)'
        BY <1>1, <1>3, <2>1 DEF Live
      <3>2. Onward
        BY <1>0, <1>1, <3>1, MovedOnward
      <3> QED BY <1>0, <1>1, <3>2, SameLoads, LoadsOnward
    <2>2. CASE ~UnderWay
      BY <1>1, <2>2 DEF UnderWay, Idle, LoadsSound, LoadSound
    <2> QED BY <2>1, <2>2
  <1>11. Numbered(shown)'
    <2>1. ASSUME NEW i \in DOMAIN c PROVE c[i].number <= Len(tape[c[i].symbol])
      <3>1. CASE i = 1
        BY <1>4, <1>5, <3>1 DEF IsCons
      <3>2. CASE i # 1
        BY <1>0, <1>5, <3>2 DEF IsCons, ShownSound, Numbered
      <3> QED BY <3>1, <3>2
    <2>2. \A i \in DOMAIN p : p[i].number <= Len(tape[p[i].symbol])
      BY <1>7, <2>1
    <2> QED BY <1>1, <2>2 DEF Numbered
  <1>12. Twice(shown)'
    <2>1. \A i \in DOMAIN c : (i = 1 /\ c[i] = t) \/ (i - 1 \in DOMAIN q /\ c[i] = q[i - 1])
      BY <1>5 DEF IsCons
    <2>2. /\ \A i, j, k \in DOMAIN q : q[i] = q[j] /\ q[j] = q[k] => i = j \/ j = k \/ i = k
          /\ \A i, j \in DOMAIN q : q[i] = q[j] /\ Coming(q[i]) => i = j
      BY <1>0 DEF ShownSound, Twice
    <2>3. ASSUME NEW i \in DOMAIN c, NEW j \in DOMAIN c, i # 1, j # 1, c[i] = c[j], c[i] = t
          PROVE  i = j
      <3>1. i - 1 = j - 1
        BY <1>8, <2>1, <2>2, <2>3
      <3> QED BY <1>6, <3>1
    <2>4. ASSUME NEW i \in DOMAIN c, NEW j \in DOMAIN c, NEW k \in DOMAIN c,
                 c[i] = c[j], c[j] = c[k]
          PROVE  i = j \/ j = k \/ i = k
      <3>1. CASE i = 1 \/ j = 1 \/ k = 1
        <4>1. c[i] = t /\ c[j] = t /\ c[k] = t
          BY <1>5, <2>4, <3>1 DEF IsCons
        <4> QED BY <2>3, <3>1, <4>1
      <3>2. CASE i # 1 /\ j # 1 /\ k # 1
        <4>1. i - 1 = j - 1 \/ j - 1 = k - 1 \/ i - 1 = k - 1
          BY <2>1, <2>2, <2>4, <3>2
        <4> QED BY <1>6, <4>1
      <3> QED BY <3>1, <3>2
    <2>5. ASSUME NEW i \in DOMAIN c, NEW j \in DOMAIN c, c[i] = c[j], NEW x, x = c[i], Coming(x)'
          PROVE  i = j
      <3>1. x # t /\ Coming(x)
        BY <1>8, <2>5
      <3>2. i # 1 /\ j # 1
        BY <1>5, <2>5, <3>1 DEF IsCons
      <3>3. i - 1 = j - 1
        BY <2>1, <2>2, <2>5, <3>1, <3>2
      <3> QED BY <1>6, <3>3
    <2>6. ASSUME NEW i \in DOMAIN p, NEW j \in DOMAIN p, p[i] = p[j], Coming(p[i])'
          PROVE  i = j
      <3> PICK x : x = p[i]
        OBVIOUS
      <3>1. Coming(x)'
        BY <2>6 DEF Coming
      <3>2. i \in DOMAIN c /\ j \in DOMAIN c /\ c[i] = c[j] /\ x = c[i]
        BY <1>7, <2>6
      <3> QED BY <2>5, <3>1, <3>2
    <2>7. \A i, j, k \in DOMAIN p : p[i] = p[j] /\ p[j] = p[k] => i = j \/ j = k \/ i = k
      <3> SUFFICES ASSUME NEW i \in DOMAIN p, NEW j \in DOMAIN p, NEW k \in DOMAIN p,
                          p[i] = p[j], p[j] = p[k]
                   PROVE  i = j \/ j = k \/ i = k
        OBVIOUS
      <3>2. /\ i \in DOMAIN c /\ j \in DOMAIN c /\ k \in DOMAIN c
            /\ c[i] = c[j] /\ c[j] = c[k]
        BY <1>7
      <3> QED BY <2>4, <3>2
    <2>8. Twice(p)'
      BY <2>6, <2>7 DEF Twice
    <2> QED BY <1>1, <2>8 DEF Twice, Coming
  <1>13. ASSUME tapeOf' = selected', Len(shown') < TapeLimit PROVE Explained(selected, shown)'
    <2>1. p = c /\ Len(c) < TapeLimit /\ Len(c) = Len(q) + 1
      BY <1>1, <1>5, <1>7, <1>13 DEF IsCons
    <2>2. Len(q) < TapeLimit
      <3>1. Len(q) \in Nat /\ TapeLimit \in Nat
        BY <1>2, MarketAssumption
      <3> QED BY <2>1, <3>1
    <2>3. ToSet(tape[selected]) \subseteq ToSet(q) \cup Live(selected)
      BY <1>0, <1>1, <1>13, <2>2 DEF ShownSound, Explained
    <2>4. ToSet(p) = ToSet(q) \cup {t}
      BY <1>5, <2>1 DEF IsCons
    <2>5. ToSet(tape'[selected']) \subseteq
             ToSet(p) \cup ToSet(announced'[selected']) \cup ToSet(wire') \cup slipped'
      BY <1>1, <1>3, <2>3, <2>4 DEF Live
    <2> QED BY <1>1, <2>5 DEF Explained, Live
  <1>14. ShownSound'
    BY <1>11, <1>12, <1>13 DEF ShownSound
  <1> QED BY <1>9, <1>10, <1>14 DEF TapeInv

(* The tape, read whole or in part, explains itself.                       *)
LEMMA TapeReadSound ==
    ASSUME WorldFits, FlightInv, NEW s \in Symbols, NEW p, p = Newest(tape[s])
    PROVE  Distinct(p) /\ Numbered(p) /\ (Len(p) < TapeLimit => Explained(s, p))
  <1> PICK q : q = tape[s]
    OBVIOUS
  <1>1. q \in Seq(Trades) /\ q \in Seq(OfSymbol(s))
    BY FlightTypes DEF WorldFits
  <1>2. \A i \in DOMAIN q : q[i].number = Len(q) + 1 - i
    BY DEF FlightInv
  <1>3. \A i \in DOMAIN q : i \in Nat /\ i >= 1 /\ q[i] \in OfSymbol(s) /\ Len(q) \in Nat
    BY <1>1
  <1>4. Distinct(q)
    <2> SUFFICES ASSUME NEW i \in DOMAIN q, NEW j \in DOMAIN q, q[i] = q[j] PROVE i = j
      BY DEF Distinct
    <2>1. Len(q) + 1 - i = Len(q) + 1 - j
      BY <1>2
    <2> QED BY <1>3, <2>1
  <1>5. Numbered(q)
    <2> SUFFICES ASSUME NEW i \in DOMAIN q PROVE q[i].number <= Len(tape[q[i].symbol])
      BY DEF Numbered
    <2>1. q[i].symbol = s /\ q[i].number = Len(q) + 1 - i
      BY <1>2, <1>3 DEF OfSymbol
    <2>2. Len(q) + 1 - i <= Len(q)
      BY <1>3
    <2> QED BY <2>1, <2>2
  <1>6. /\ Distinct(p) /\ Numbered(p)
        /\ Len(p) < TapeLimit => p = q
    <2>1. IsStart(p, q) /\ Distinct(p) /\ Numbered(p)
      BY <1>1, <1>4, <1>5, NewestPrefix
    <2> QED BY <2>1 DEF IsStart
  <1> QED BY <1>6 DEF Explained

LEMMA ReadKeepsTape ==
    ASSUME MarketInv, MarketInv', TapeInv, NEW l \in Loads, Read(l)
    PROVE  TapeInv'
  <1>0. WorldFits /\ LoadsFit /\ ViewFits /\ WorldFits' /\ FlightInv /\ LoadsSound /\ ShownSound
    BY DEF MarketInv, TapeInv
  <1>1. UNCHANGED <<tape, announced, wire, slipped, selected, shown, tapeOf>> /\ ~Idle(l)
    BY DEF Read, world, socket, view
  <1> PICK r : r = loads[l]
    OBVIOUS
  <1>2. r \in LoadRecord /\ r.symbol \in Symbols
    BY <1>0, <1>1 DEF LoadsFit, LoadFits, LoadRecord, Idle
  <1>3. CASE ReadTape(l)
    <2> PICK s, p : s = r.symbol /\ p = Newest(tape[s])
      OBVIOUS
    <2> PICK new : new = [r EXCEPT !.tapeRead = "ok", !.trades = p]
      OBVIOUS
    <2>1. loads' = [loads EXCEPT ![l] = new]
      BY <1>3 DEF ReadTape
    <2>2. new.symbol = s /\ new.trades = p
      BY <1>2 DEF LoadRecord
    <2>3. Distinct(p) /\ Numbered(p) /\ (Len(p) < TapeLimit => Explained(s, p))
      BY <1>0, <1>2, TapeReadSound
    <2>4. LoadSound(new)
      BY <2>2, <2>3 DEF LoadSound
    <2>5. \A k \in Loads : LoadSound(loads'[k])
      BY <1>0, <2>1, <2>4 DEF LoadsSound, LoadsFit
    <2>6. LoadsSound'
      BY <1>1, <2>5 DEF LoadsSound, LoadSound, Numbered, Explained, Live
    <2>7. FlightInv' /\ ShownSound'
      BY <1>0, <1>1 DEF FlightInv, ShownSound, Numbered, Twice, Coming, Explained, Live
    <2> QED BY <2>6, <2>7 DEF TapeInv
  <1>4. CASE ~ReadTape(l)
    <2>1. \E new : /\ loads' = [loads EXCEPT ![l] = new]
                   /\ new.symbol = r.symbol /\ new.trades = r.trades
                   /\ new.tapeRead \in {r.tapeRead, "failed"}
      <3>0. ASSUME NEW side, NEW next, NEW new, new = Indexed(r, side, next)
            PROVE  /\ new.symbol = r.symbol /\ new.trades = r.trades
                   /\ new.tapeRead = r.tapeRead
        BY <1>2, <3>0 DEF Indexed, LoadRecord
      <3>1. CASE ReadIndex(l)
        <4>1. \E side, next : loads' = [loads EXCEPT ![l] = Indexed(r, side, next)]
          BY <3>1, Zenon DEF ReadIndex
        <4> PICK side, next : loads' = [loads EXCEPT ![l] = Indexed(r, side, next)]
          BY <4>1
        <4> PICK new : new = Indexed(r, side, next)
          OBVIOUS
        <4>2. loads' = [loads EXCEPT ![l] = new]
          OBVIOUS
        <4>3. new.symbol = r.symbol /\ new.trades = r.trades /\ new.tapeRead = r.tapeRead
          BY <3>0
        <4> QED BY <4>2, <4>3
      <3>2. ASSUME NEW o \in Orders, ReadEntry(l, o)
            PROVE  loads' = [loads EXCEPT ![l] = WithEntry(r, o)]
        BY <3>2, Zenon DEF ReadEntry
      <3>3. \A o \in Orders : /\ WithEntry(r, o).symbol = r.symbol
                              /\ WithEntry(r, o).trades = r.trades
                              /\ WithEntry(r, o).tapeRead = r.tapeRead
        BY <1>2 DEF WithEntry, LoadRecord
      <3>4. CASE \E o \in Orders : ReadEntry(l, o)
        BY <3>2, <3>3, <3>4
      <3>5. CASE FailRead(l)
        BY <1>2, <3>5 DEF FailRead, LoadRecord
      <3> QED BY <1>4, <3>1, <3>4, <3>5 DEF Read
    <2>2. \A k \in Loads : Follows(loads'[k], loads[k])
      BY <1>0, <2>1, OneLoadFollows DEF Follows
    <2> QED BY <1>1, <2>2, TapeStill
  <1> QED BY <1>3, <1>4

LEMMA ApplyKeepsTape ==
    ASSUME MarketInv, MarketInv', TapeInv, NEW l \in Loads, Apply(l)
    PROVE  TapeInv'
  <1>0. WorldFits /\ LoadsFit /\ ViewFits /\ WorldFits' /\ FlightInv /\ LoadsSound /\ ShownSound
    BY DEF MarketInv, TapeInv
  <1> PICK r : r = loads[l]
    OBVIOUS
  <1> PICK none : none = NoLoad
    OBVIOUS
  <1>1. /\ UNCHANGED <<tape, announced, wire, slipped, selected>>
        /\ loads' = [loads EXCEPT ![l] = none] /\ none.symbol = None /\ r.symbol # None
        /\ \/ r.tapeRead = "ok" /\ shown' = r.trades /\ tapeOf' = r.symbol
           \/ UNCHANGED <<shown, tapeOf>>
    BY DEF Apply, world, socket, Answered, Idle, NoLoad
  <1>2. \A k \in Loads : Follows(loads'[k], loads[k])
    BY <1>0, <1>1, OneLoadFollows DEF Follows
  <1>3. CASE UNCHANGED <<shown, tapeOf>>
    BY <1>1, <1>2, <1>3, TapeStill
  <1>4. CASE r.tapeRead = "ok" /\ shown' = r.trades /\ tapeOf' = r.symbol
    <2>1. FlightInv'
      BY <1>0, <1>1 DEF FlightInv
    <2>2. \A x \in Symbols : Live(x) \subseteq Live(x)'
      BY <1>1 DEF Live
    <2>3. LoadsSound'
      BY <1>0, <1>1, <1>2, <2>2, MovedOnward, LoadsOnward
    <2> PICK q : q = r.trades
      OBVIOUS
    <2>4. /\ Distinct(q) /\ Numbered(q)
          /\ Len(q) < TapeLimit => Explained(r.symbol, q)
      BY <1>0, <1>1, <1>4 DEF LoadsSound, LoadSound
    <2>5. Twice(q)'
      BY <2>4 DEF Twice, Distinct
    <2>6. shown' = q
      BY <1>4
    <2>7. Numbered(shown)' /\ Twice(shown)'
      BY <1>1, <2>4, <2>5, <2>6 DEF Numbered, Twice, Coming
    <2>8. ASSUME tapeOf' = selected', Len(shown') < TapeLimit PROVE Explained(selected, shown)'
      <3>1. Explained(r.symbol, q) /\ r.symbol = selected'
        BY <1>4, <2>4, <2>6, <2>8
      <3> QED BY <1>1, <2>6, <3>1 DEF Explained, Live
    <2> QED BY <2>1, <2>3, <2>7, <2>8 DEF TapeInv, ShownSound
  <1> QED BY <1>1, <1>3, <1>4

LEMMA TapeNext == MarketInv /\ MarketInv' /\ TapeInv /\ [Next]_vars => TapeInv'
  <1> SUFFICES ASSUME MarketInv, MarketInv', TapeInv, [Next]_vars PROVE TapeInv'
    OBVIOUS
  <1>0. LoadsFit /\ WorldFits /\ WorldFits'
    BY DEF MarketInv
  <1>1. ASSUME NEW s \in Symbols, Trade(s) PROVE TapeInv'
    BY <1>1, TradeKeepsTape
  <1>2. ASSUME NEW s \in Symbols, LoseAnnouncement(s) PROVE TapeInv'
    BY <1>2, AnnouncementTaken DEF LoseAnnouncement, socket, view
  <1>3. ASSUME NEW s \in Symbols, NEW o \in Orders, ChangeBook(s, o) PROVE TapeInv'
    <2>1. PICK n : loads' = [l \in Loads |->
                       IF loads[l].symbol = s THEN Seen(loads[l], o, n) ELSE loads[l]]
      BY <1>3 DEF ChangeBook
    <2>2. ASSUME NEW l \in Loads PROVE Follows(loads'[l], loads[l])
      <3>1. loads[l] \in LoadRecord
        BY <1>0 DEF LoadsFit, LoadFits
      <3>2. /\ Seen(loads[l], o, n).symbol = loads[l].symbol
            /\ Seen(loads[l], o, n).trades = loads[l].trades
            /\ Seen(loads[l], o, n).tapeRead = loads[l].tapeRead
        BY <3>1 DEF Seen, LoadRecord
      <3>3. loads'[l] = Seen(loads[l], o, n) \/ loads'[l] = loads[l]
        BY <2>1
      <3> QED BY <3>2, <3>3 DEF Follows
    <2>3. UNCHANGED <<tape, announced, wire, slipped, selected, shown, tapeOf>>
      BY <1>3 DEF ChangeBook, socket, view
    <2> QED BY <2>2, <2>3, TapeStill
  <1>4. ASSUME NEW s \in Symbols, Relay(s) PROVE TapeInv'
    BY <1>4, AnnouncementTaken DEF Relay, view
  <1>5. CASE LoseConnection
    <2>1. /\ wire' = <<>> /\ slipped' = slipped \cup ToSet(wire)
          /\ UNCHANGED <<tape, announced, shown, selected, tapeOf, loads>>
      BY <1>5 DEF LoseConnection, world, view
    <2>2. selected' \in Symbols
      BY <1>0 DEF WorldFits
    <2> QED BY <1>0, <2>1, <2>2, SameLoads, WireCut
  <1>6. ASSUME NEW s \in Symbols, Select(s) PROVE TapeInv'
    <2>1. /\ wire' = <<>> /\ slipped' = slipped \cup ToSet(wire)
          /\ UNCHANGED <<tape, announced, shown>> /\ selected' = s /\ tapeOf' = None
          /\ StartLoad(s)
      BY <1>6 DEF Select, Silenced, world
    <2>2. tapeOf' # selected'
      BY <2>1, MarketAssumption
    <2> QED BY <1>0, <2>1, <2>2, StartFollows, WireCut
  <1>7. CASE OrderAnswered
    <2>1. /\ UNCHANGED <<tape, announced, wire, slipped, selected, shown, tapeOf>>
          /\ placing \in Symbols /\ (StartLoad(placing) \/ loads' = loads)
      BY <1>0, <1>7 DEF OrderAnswered, world, socket, view, WorldFits
    <2>2. \A l \in Loads : Follows(loads'[l], loads[l])
      BY <1>0, <2>1, SameLoads, StartFollows
    <2> QED BY <2>1, <2>2, TapeStill
  <1>8. CASE Connect \/ SeeClose \/ PlaceOrder \/ UNCHANGED vars
    <2>1. UNCHANGED <<tape, announced, wire, slipped, selected, shown, tapeOf, loads>>
      BY <1>8 DEF Connect, SeeClose, PlaceOrder, vars, world, socket, view
    <2> QED BY <1>0, <2>1, SameLoads, TapeStill
  <1>9. CASE Deliver
    BY <1>9, DeliverKeepsTape
  <1>10. ASSUME NEW l \in Loads, Load(l) PROVE TapeInv'
    <2>1. CASE Abandon(l)
      <3> PICK none : none = NoLoad
        OBVIOUS
      <3>1. /\ UNCHANGED <<tape, announced, wire, slipped, selected, shown, tapeOf>>
            /\ loads' = [loads EXCEPT ![l] = none] /\ none.symbol = None
        BY <2>1 DEF Abandon, world, socket, view, NoLoad
      <3>2. \A k \in Loads : Follows(loads'[k], loads[k])
        BY <1>0, <3>1, OneLoadFollows DEF Follows
      <3> QED BY <3>1, <3>2, TapeStill
    <2> QED BY <1>10, <2>1, ReadKeepsTape, ApplyKeepsTape DEF Load
  <1> QED BY <1>1, <1>2, <1>3, <1>4, <1>5, <1>6, <1>7, <1>8, <1>9, <1>10
          DEF Next, Exchange, RelayStep, Page

(* Of the selected symbol no trade is missing from a page with room for it *)
(* but one still coming, or one that came while the page was not ready for *)
(* it; and no trade is shown more than twice.                              *)
THEOREM LiveTapeExplained == Spec => []TapeExplained
  <1>1. Init => TapeInv
    <2> SUFFICES ASSUME Init PROVE TapeInv
      OBVIOUS
    <2>1. /\ \A s \in Symbols : tape[s] = <<>> /\ announced[s] = <<>>
          /\ wire = <<>> /\ shown = <<>> /\ tapeOf = None /\ selected \in Symbols
      BY MarketAssumption DEF Init
    <2>2. ToSet(<<>>) = {} /\ DOMAIN <<>> = {}
      BY DEF ToSet
    <2>3. FlightInv
      BY <2>1, <2>2 DEF FlightInv, Distinct
    <2>4. ASSUME NEW l \in Loads PROVE LoadSound(loads[l])
      <3>1. loads[l] = Started(FirstSymbol) \/ loads[l] = NoLoad
        BY DEF Init
      <3>2. /\ Started(FirstSymbol).trades = <<>> /\ Started(FirstSymbol).tapeRead = "no"
            /\ NoLoad.symbol = None
        BY DEF Started, NoLoad
      <3> QED BY <2>2, <3>1, <3>2 DEF LoadSound, Distinct, Numbered
    <2>5. ShownSound
      BY <2>1, <2>2, MarketAssumption DEF ShownSound, Numbered, Twice
    <2> QED BY <2>3, <2>4, <2>5 DEF TapeInv, LoadsSound
  <1>2. TapeInv => TapeExplained
    BY DEF TapeInv, ShownSound, Explained, Live, Twice, TapeExplained
  <1>3. Spec => []MarketInv
    BY MarketAlways
  <1> QED BY <1>1, <1>2, <1>3, TapeNext, PTL DEF Spec
=============================================================================
