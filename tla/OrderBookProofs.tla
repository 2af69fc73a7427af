-------------------------- MODULE OrderBookProofs --------------------------
(***************************************************************************)
(* Proofs about the order book of the client: types for any threads;       *)
(* distinct products when directories come first; and, with the one thread *)
(* a handler is made for, distinct ids and a table that mirrors the        *)
(* exchange.                                                               *)
(***************************************************************************)
EXTENDS OrderBook, FiniteSetTheorems, TLAPS

(* One thread takes every message.                                         *)
OneThread == \E t : Threads = {t}

(* The prices of cash books have at most two decimals.                     *)
Exact == \A b \in Cash : Decimals[b] <= 2

----------------------------------------------------------------------------
(* Messages and numbers.                                                   *)

OrderTypes == {"A", "U", "D", "E", "C"}

LEMMA MessageFields ==
  ASSUME NEW m \in Messages
  PROVE  /\ m.key \in Keys
         /\ m.type \in {"A", "U", "D", "E", "C", "P", "R", "L", "O", "Z"}
         /\ m.type \in {"A", "U"} => m.price \in Nat
         /\ m.type \in {"A", "U", "E", "C"} => m.qty \in 1 .. SizeMod - 1
  BY NumberAssumption DEF Messages

LEMMA KeyBook == ASSUME NEW m \in Messages PROVE m.key.book \in Books
  BY MessageFields, KeyAssumption

LEMMA NothingIsNoMessage == Nothing \notin Messages
  BY DEF Nothing, Messages

LEMMA Modulo ==
  ASSUME NEW a \in 0 .. SizeMod - 1
  PROVE  a % SizeMod = a
  BY NumberAssumption

LEMMA PriceNat ==
  ASSUME NEW m \in Messages, m.type \in {"A", "U"}
  PROVE  MDPrice(m) \in Nat
<1>1. Multiplier(m.key.book) \in {0, 1, 10, 100}
  BY DEF Multiplier
<1>2. QED
  BY <1>1, MessageFields DEF MDPrice

(* What the exchange has of an order stays a price and a count.            *)
Counts == [price : Nat, left : 0 .. SizeMod - 1]

LEMMA HasCounts ==
  ASSUME exch \in [Keys -> Counts], NEW m \in Messages, Says(m)
  PROVE  Has(m) \in Counts
<1>1. exch[m.key] \in Counts
  BY MessageFields
<1>2. CASE m.type \in {"A", "U"}
  BY <1>2, MessageFields DEF Has, Counts
<1>3. CASE m.type \in {"E", "C"}
  BY <1>1, <1>3, MessageFields, NumberAssumption DEF Has, Counts, Gone, Says
<1>4. CASE m.type = "D"
  BY <1>4, NumberAssumption DEF Has, Counts, Gone
<1>5. CASE m.type \in {"R", "L", "O", "P", "Z"}
  BY <1>1, <1>5 DEF Has
<1>6. QED
  BY <1>2, <1>3, <1>4, <1>5, MessageFields

(* The number of entries of the symbol table.                              *)
LEMMA EntryCount ==
  ASSUME NEW S \in SUBSET Books
  PROVE  IsFiniteSet(S) /\ Cardinality(S) \in Products
<1>1. IsFiniteSet(S) /\ Cardinality(S) <= Cardinality(Books)
  BY BookAssumption, FS_Subset
<1>2. Cardinality(S) \in Nat /\ Cardinality(Books) \in Nat
  BY <1>1, BookAssumption, FS_CardinalityType
<1>3. QED
  BY <1>1, <1>2 DEF Products

LEMMA Remainder ==
  ASSUME NEW a \in Int
  PROVE  a % SizeMod \in 0 .. SizeMod - 1
  BY NumberAssumption

----------------------------------------------------------------------------
(* Types, for any number of threads.                                       *)

Ready(t) == pc[t] \in {"new", "book"} =>
              msg[t].type \in OrderTypes /\ order_id[t] \in Nat

TInv ==
  /\ TypeOK
  /\ exch \in [Keys -> Counts] /\ was \in [Threads -> Counts]
  /\ \A t \in Threads : Ready(t)

LEMMA TInvInit == Init => TInv
<1> SUFFICES ASSUME Init PROVE TInv
  OBVIOUS
<1>1. Gone \in Counts
  BY NumberAssumption DEF Gone, Counts
<1>2. mode \in Modes /\ feed \in Feeds
  BY ModeAssumption DEF Init
<1>3. 0 \in Products
  BY EntryCount, FS_EmptySet DEF Products
<1>4. TypeOK
  BY <1>1, <1>2, <1>3, NumberAssumption DEF Init, TypeOK, Counts, Orders
<1>5. QED
  BY <1>1, <1>4 DEF Init, TInv, Ready

LEMMA TInvTake ==
  ASSUME TInv, NEW t \in Threads, NEW m \in Messages, Take(t, m)
  PROVE  TInv'
<1> USE DEF TInv, TypeOK, Ready
<1>1. exch' \in [Keys -> Counts]
  BY HasCounts, MessageFields DEF Take
<1>2. symbols' \subseteq Books
  BY KeyBook DEF Take, Symbols
<1>3. product' \in [Books -> Products]
  BY <1>2, EntryCount DEF Take, Directory, get_product_id
<1>4. Fate(m) \in {"idle", "new", "book", "send"}
  BY DEF Fate
<1>5. Fate(m) \in {"new", "book"} => m.type \in OrderTypes
  BY MessageFields DEF Fate, OrderTypes
<1>6. pc' = [pc EXCEPT ![t] = Fate(m)]
  BY DEF Take
<1>7. /\ msg' \in [Threads -> Messages \cup {Nothing}] /\ was' \in [Threads -> Counts]
      /\ \A s \in Threads : s # t => msg'[s] = msg[s]
      /\ Fate(m) # "idle" => msg'[t] = m
      /\ Fate(m) = "idle" => msg'[t] = msg[t]
  <2>1. m.key \in Keys
    BY MessageFields
  <2>2. CASE Fate(m) = "idle"
    BY <2>2 DEF Take
  <2>3. CASE Fate(m) # "idle"
    <3>1. msg' = [msg EXCEPT ![t] = m] /\ was' = [was EXCEPT ![t] = exch[m.key]]
      BY <2>3 DEF Take
    <3>2. /\ exch[m.key] \in Counts /\ was \in [Threads -> Counts]
          /\ msg \in [Threads -> Messages \cup {Nothing}]
      BY <2>1
    <3> HIDE DEF TypeOK, Ready
    <3>3. QED
      BY <2>3, <3>1, <3>2
  <2>4. QED
    BY <2>2, <2>3
<1>8. Known(m.key) \subseteq Nat
  BY DEF Known, NoId
<1>9. /\ order_id' \in [Threads -> Nat \cup {NoId}]
      /\ \A s \in Threads : s # t => order_id'[s] = order_id[s]
      /\ Fate(m) \in {"new", "book"} => order_id'[t] \in Nat
  BY <1>8 DEF Take
<1>10. msg[t] = Nothing
  BY DEF Take
<1>11. \A s \in Threads : pc'[s] # "idle" <=> msg'[s] # Nothing
  BY <1>4, <1>6, <1>7, <1>10, NothingIsNoMessage
<1>12. \A s \in Threads : Ready(s)'
  BY <1>5, <1>6, <1>7, <1>9
<1>13. was' \in [Threads -> [price : Nat, left : Nat]] /\ exch' \in [Keys -> [price : Nat, left : Nat]]
  BY <1>1, <1>7 DEF Counts
<1>14. /\ mode' = mode /\ feed' = feed /\ ids' = ids /\ m_order_id' = m_order_id /\ book' = book
       /\ inside_changed' = inside_changed /\ order_found' = order_found
  BY DEF Take, idVars
<1>15. pc' \in [Threads -> {"idle", "new", "book", "send"}]
  BY <1>4, <1>6
<1>16. QED
  BY <1>1, <1>2, <1>3, <1>7, <1>9, <1>11, <1>12, <1>13, <1>14, <1>15

LEMMA TInvNewId ==
  ASSUME TInv, NEW t \in Threads, NewId(t)
  PROVE  TInv'
  BY MessageFields DEF TInv, TypeOK, Ready, NewId, symbolVars, recordVars, OrderTypes

(* What a thread knows when it leaves the table; an order comes or goes.   *)
LEMMA TInvLocals ==
  ASSUME TInv, NEW t \in Threads, NEW f \in BOOLEAN, NEW p \in Products,
         pc[t] = "book", Locals(t, f, p), book' \subseteq Orders
  PROVE  TInv'
  BY DEF TInv, TypeOK, Ready, Locals, symbolVars, idVars

LEMMA InsideProducts ==
  ASSUME NEW o \in Orders, NEW B
  PROVE  IfInside(B, o.product) \in Products /\ IfTop(o) \in Products
<1>1. 0 \in Products
  BY EntryCount, FS_EmptySet DEF Products
<1>2. QED
  BY <1>1 DEF IfInside, IfTop, Orders

LEMMA TInvAdd ==
  ASSUME TInv, NEW t \in Threads, Add(t)
  PROVE  TInv'
<1> DEFINE m == msg[t]
           o == [id |-> order_id[t], product |-> product[m.key.book], side |-> m.key.side,
                 price |-> MDPrice(m), size |-> m.qty % SizeMod]
<1>1. m \in Messages /\ m.type = "A" /\ order_id[t] \in Nat
  BY DEF TInv, TypeOK, Ready, Add, OrderTypes
<1>2. m.qty \in 1 .. SizeMod - 1 /\ m.key \in Keys
  BY <1>1, MessageFields
<1>3. m.qty % SizeMod \in 1 .. SizeMod - 1
  BY <1>2, Modulo
<1>4. o \in Orders
  BY <1>1, <1>2, <1>3, PriceNat, KeyAssumption DEF Orders, TInv, TypeOK
<1>5. book' = book \cup {o} /\ Locals(t, TRUE, IfInside(book', o.product))
  BY DEF Add
<1> HIDE DEF o, m
<1>6. QED
  BY <1>4, <1>5, InsideProducts, TInvLocals DEF Add, TInv, TypeOK

LEMMA TInvTable ==
  ASSUME TInv, NEW t \in Threads, NotFound(t) \/ Delete(t) \/ Replace(t) \/ Execute(t)
  PROVE  TInv'
<1>1. CASE NotFound(t)
  <2>1. 0 \in Products
    BY EntryCount, FS_EmptySet DEF Products
  <2>2. QED
    BY <1>1, <2>1, TInvLocals DEF NotFound, TInv, TypeOK
<1>2. CASE Delete(t)
  <2>1. PICK o \in unlocked_find_order(t) : book' = book \ {o} /\ Locals(t, TRUE, IfTop(o))
    BY <1>2 DEF Delete
  <2>2. o \in Orders
    BY DEF unlocked_find_order, TInv, TypeOK
  <2>3. QED
    BY <1>2, <2>1, <2>2, InsideProducts, TInvLocals DEF Delete, TInv, TypeOK
<1>3. CASE Replace(t)
  <2> DEFINE n(o) == [o EXCEPT !.price = MDPrice(msg[t]), !.size = msg[t].qty % SizeMod]
  <2>1. PICK o \in unlocked_find_order(t) :
          book' = (book \ {o}) \cup {n(o)} /\ Locals(t, TRUE, IfInside(book', o.product))
    BY <1>3 DEF Replace
  <2>2. o \in Orders
    BY DEF unlocked_find_order, TInv, TypeOK
  <2>3. msg[t] \in Messages /\ msg[t].type = "U"
    BY <1>3 DEF Replace, TInv, TypeOK
  <2>4. msg[t].qty % SizeMod \in 1 .. SizeMod - 1
    BY <2>3, MessageFields, Modulo
  <2>5. n(o) \in Orders
    BY <2>2, <2>3, <2>4, PriceNat DEF Orders
  <2> HIDE DEF n
  <2>6. QED
    BY <1>3, <2>1, <2>2, <2>5, InsideProducts, TInvLocals DEF Replace, TInv, TypeOK
<1>4. CASE Execute(t)
  <2>1. PICK o \in unlocked_find_order(t) :
          book' = Reduced(o, msg[t]) /\ Locals(t, TRUE, IfTop(o))
    BY <1>4 DEF Execute
  <2>2. o \in Orders /\ o.size \in Int
    BY DEF unlocked_find_order, TInv, TypeOK, Orders
  <2>3. msg[t] \in Messages /\ msg[t].qty \in 1 .. SizeMod - 1
    <3>1. pc[t] = "book" /\ msg[t].type \in {"E", "C"}
      BY <1>4 DEF Execute
    <3>2. msg[t] \in Messages
      BY <3>1 DEF TInv, TypeOK
    <3>3. QED
      BY <3>1, <3>2, MessageFields
  <2>4. new_size(o, msg[t]) \in 0 .. SizeMod - 1
    BY <2>2, <2>3, NumberAssumption, Remainder DEF new_size
  <2>5. new_size(o, msg[t]) > 0 => [o EXCEPT !.size = new_size(o, msg[t])] \in Orders
    BY <2>2, <2>4, NumberAssumption DEF Orders
  <2>6. book' \subseteq Orders
    BY <2>1, <2>5 DEF Reduced, TInv, TypeOK
  <2>7. QED
    BY <1>4, <2>1, <2>2, <2>6, InsideProducts, TInvLocals DEF Execute
<1>5. QED
  BY <1>1, <1>2, <1>3, <1>4

LEMMA TInvSend ==
  ASSUME TInv, NEW t \in Threads, Send(t)
  PROVE  TInv'
<1>1. Gone \in Counts
  BY NumberAssumption DEF Gone, Counts
<1>2. 0 \in Products
  BY EntryCount, FS_EmptySet DEF Products
<1>3. QED
  BY <1>1, <1>2 DEF TInv, TypeOK, Ready, Send, symbolVars, idVars, Counts

LEMMA TInvClear ==
  ASSUME TInv, StartStop \/ Reset
  PROVE  TInv'
  BY DEF TInv, TypeOK, Ready, StartStop, Reset, symbolVars, idVars, localVars

LEMMA TInvNext == TInv /\ [Next]_vars => TInv'
<1> SUFFICES ASSUME TInv, [Next]_vars PROVE TInv'
  OBVIOUS
<1>1. CASE StartStop \/ Reset
  BY <1>1, TInvClear
<1>2. ASSUME NEW t \in Threads, Step(t) PROVE TInv'
  BY <1>2, TInvTake, TInvNewId, TInvAdd, TInvTable, TInvSend DEF Step
<1>3. CASE UNCHANGED vars
  BY <1>3 DEF TInv, TypeOK, Ready, vars, symbolVars, idVars, localVars
<1>4. QED
  BY <1>1, <1>2, <1>3 DEF Next

(* The type invariant of the order book, with any number of threads.       *)
THEOREM Types == Spec => []TypeOK
<1>1. TInv => TypeOK
  BY DEF TInv
<1>2. QED
  BY <1>1, TInvInit, TInvNext, PTL DEF Spec

----------------------------------------------------------------------------
(* Products, when a book's directory comes before its other messages.      *)

PInv ==
  /\ \A b \in Books : product[b] # 0 =>
                        b \in symbols /\ product[b] <= Cardinality(symbols)
  /\ \A b \in Cash : b \in symbols => product[b] # 0
  /\ ProductsDistinct

LEMMA PInvTake ==
  ASSUME DirectoryFirst = TRUE, TInv, PInv, NEW t \in Threads, NEW m \in Messages, Take(t, m)
  PROVE  PInv'
<1> DEFINE b == m.key.book
<1>1. b \in Books /\ symbols \subseteq Books /\ product \in [Books -> Products]
  BY KeyBook DEF TInv, TypeOK
<1>2. symbols' = symbols \cup {b}
  BY DEF Take, Symbols
<1>3. CASE m.type = "R" /\ b \in Cash /\ product[b] = 0
  <2>1. b \notin symbols
    BY <1>3 DEF PInv
  <2>2. product' = [product EXCEPT ![b] = Cardinality(symbols')]
    BY <1>2, <1>3 DEF Take, Directory, get_product_id, Symbols
  <2>3. /\ Cardinality(symbols') = Cardinality(symbols) + 1
        /\ Cardinality(symbols) \in Nat /\ Cardinality(symbols') \in Nat
    BY <1>1, <1>2, <2>1, EntryCount, FS_AddElement, FS_CardinalityType
  <2>4. \A c \in Books : product[c] \in Nat
    BY <1>1 DEF Products
  <2>5. \A c \in Books : c # b => product'[c] = product[c] /\ product'[b] = Cardinality(symbols')
    BY <1>1, <2>2
  <2>6. product'[b] = Cardinality(symbols')
    BY <1>1, <2>2
  <2>7. QED
    BY <1>1, <1>2, <2>3, <2>4, <2>5, <2>6, BookAssumption DEF PInv, ProductsDistinct
<1>4. CASE ~(m.type = "R" /\ b \in Cash /\ product[b] = 0)
  <2>1. product' = product
    BY <1>4 DEF Take, Directory
  <2>2. b \in Cash /\ product[b] = 0 => symbols' = symbols
    BY <1>2, <1>4 DEF Take, Says
  <2>3. \A c \in Books : product[c] \in Nat
    BY <1>1 DEF Products
  <2>4. Cardinality(symbols) \in Nat /\ Cardinality(symbols') \in Nat
        /\ Cardinality(symbols) <= Cardinality(symbols')
    <3>1. IsFiniteSet(symbols) /\ Cardinality(symbols) \in Nat
      BY <1>1, EntryCount, FS_CardinalityType
    <3>2. CASE b \in symbols
      <4>1. symbols' = symbols
        BY <1>2, <3>2
      <4>2. QED
        BY <3>1, <4>1
    <3>3. CASE b \notin symbols
      <4>1. Cardinality(symbols \cup {b}) = Cardinality(symbols) + 1
        BY <3>1, <3>3, FS_AddElement
      <4>2. QED
        BY <1>2, <3>1, <4>1
    <3>4. QED
      BY <3>2, <3>3
  <2>5. QED
    BY <1>1, <1>2, <2>1, <2>2, <2>3, <2>4, BookAssumption DEF PInv, ProductsDistinct
<1>5. QED
  BY <1>3, <1>4

LEMMA PInvNext == DirectoryFirst = TRUE /\ TInv /\ PInv /\ [Next]_vars => PInv'
<1> SUFFICES ASSUME DirectoryFirst = TRUE, TInv, PInv, [Next]_vars PROVE PInv'
  OBVIOUS
<1>1. ASSUME NEW t \in Threads, NEW m \in Messages, Take(t, m) PROVE PInv'
  BY <1>1, PInvTake
<1>2. CASE UNCHANGED symbolVars
  BY <1>2 DEF PInv, ProductsDistinct, symbolVars
<1>3. ASSUME NEW t \in Threads,
             NewId(t) \/ NotFound(t) \/ Add(t) \/ Delete(t) \/ Replace(t) \/ Execute(t) \/ Send(t)
      PROVE  UNCHANGED symbolVars
  BY <1>3 DEF NewId, NotFound, Add, Delete, Replace, Execute, Send, Locals
<1>4. StartStop \/ Reset => UNCHANGED symbolVars
  BY DEF StartStop, Reset
<1>5. UNCHANGED vars => UNCHANGED symbolVars
  BY DEF vars
<1>6. QED
  BY <1>1, <1>2, <1>3, <1>4, <1>5 DEF Next, Step

(* No two books share a product, whatever number of threads the books have *)
(* been dealt to, as long as the first message of a book is its directory. *)
THEOREM DistinctProducts ==
  ASSUME DirectoryFirst = TRUE
  PROVE  Spec => []ProductsDistinct
<1>1. Init => PInv
  BY FS_EmptySet DEF Init, PInv, ProductsDistinct
<1>2. PInv => ProductsDistinct
  BY DEF PInv
<1>3. TInv /\ PInv /\ [Next]_vars => TInv' /\ PInv'
  BY PInvNext, TInvNext
<1>4. Init => TInv /\ PInv
  BY <1>1, TInvInit
<1>5. QED
  BY <1>2, <1>3, <1>4, PTL DEF Spec

----------------------------------------------------------------------------
(* One thread: ids and the table.                                          *)

(* What the message in work has made of its order at the exchange.         *)
Working(t) == LET m == msg[t]
                  k == msg[t].key
              IN
  pc[t] \in {"new", "book"} =>
    /\ product[k.book] # 0
    /\ m.type \in {"A", "U"} => exch[k] = [price |-> m.price, left |-> m.qty]
    /\ m.type = "A" => was[t] = Gone
    /\ m.type \in {"E", "C"} =>
         /\ exch[k].left = was[t].left - m.qty /\ m.qty <= was[t].left
         /\ exch[k].left > 0 => exch[k].price = was[t].price
    /\ pc[t] = "new" => ids[k] = NoId /\ order_id[t] = m_order_id + 1
    /\ pc[t] = "book" => ids[k] = order_id[t]

(* An order of the table, the exchange's order it stands for.              *)
Owed(k, t) == IF AtTable(t, k) THEN was[t] ELSE exch[k]
StandsFor(o, k, t) ==
  /\ ids[k] = o.id
  /\ product[k.book] # 0 /\ o.product = product[k.book] /\ o.side = k.side
  /\ Owed(k, t).left = o.size
  /\ Owed(k, t).price * 100 = o.price * Unit(k.book)

MInv ==
  /\ \A k \in Keys : ids[k] <= m_order_id
  /\ IdsDistinct
  /\ \A b \in Books : product[b] # 0 => b \in Cash
  /\ \A t \in Threads : Working(t)
  /\ \A t \in Threads : \A o \in book : \E k \in Keys : StandsFor(o, k, t)

LEMMA MInvInit == Init => MInv
  BY NumberAssumption DEF Init, MInv, IdsDistinct, Working, NoId

LEMMA MInvTake ==
  ASSUME TInv, MInv, NEW t \in Threads, Threads = {t}, NEW m \in Messages, Take(t, m)
  PROVE  MInv'
<1> DEFINE k == m.key
<1>1. /\ k \in Keys /\ k.book \in Books /\ pc[t] = "idle"
      /\ exch \in [Keys -> Counts] /\ product \in [Books -> Products]
      /\ ids \in [Keys -> Nat \cup {NoId}] /\ pc \in [Threads -> {"idle", "new", "book", "send"}]
      /\ msg \in [Threads -> Messages \cup {Nothing}] /\ order_id \in [Threads -> Nat \cup {NoId}]
      /\ was \in [Threads -> Counts]
  BY KeyBook, MessageFields DEF TInv, TypeOK, Take
<1>2. exch' = [exch EXCEPT ![k] = Has(m)] /\ book' = book /\ ids' = ids /\ m_order_id' = m_order_id
  BY DEF Take, idVars
<1>3. \A b \in Books : /\ (product[b] # 0 => product'[b] = product[b])
                      /\ (product'[b] # 0 => product[b] # 0 \/ b \in Cash)
  BY <1>1 DEF Take, Directory
<1>4. pc'[t] = Fate(m)
  BY <1>1 DEF Take
<1>5. Fate(m) # "idle" => msg'[t] = m /\ was'[t] = exch[k]
  BY <1>1 DEF Take
<1>6. Fate(m) \in {"new", "book"} =>
        m.type \in OrderTypes /\ product[k.book] # 0
  BY MessageFields DEF Fate, OrderTypes
<1>7. Fate(m) \in {"idle", "send"} => product[k.book] = 0 \/ Has(m) = exch[k]
  <2>1. m.type \in {"R", "L", "O", "P", "Z"} => Has(m) = exch[k]
    BY DEF Has
  <2>2. QED
    BY <2>1 DEF Fate
<1>8. \A o \in book : \E j \in Keys : StandsFor(o, j, t)'
  <2> SUFFICES ASSUME NEW o \in book PROVE \E j \in Keys : StandsFor(o, j, t)'
    OBVIOUS
  <2>1. PICK j \in Keys : StandsFor(o, j, t)
    BY DEF MInv
  <2>2. product[j.book] # 0 /\ j.book \in Books
    BY <2>1, KeyAssumption DEF StandsFor
  <2>3. product'[j.book] = product[j.book]
    BY <1>3, <2>2, Zenon
  <2>4. Owed(j, t) = exch[j]
    BY <1>1 DEF Owed, AtTable
  <2>5. Owed(j, t)' = exch[j]
    <3>1. CASE Fate(m) \in {"new", "book"}
      BY <1>1, <1>2, <1>4, <1>5, <3>1 DEF Owed, AtTable
    <3>2. CASE Fate(m) \in {"idle", "send"}
      BY <1>1, <1>2, <1>4, <1>7, <2>2, <3>2 DEF Owed, AtTable
    <3>3. QED
      BY <3>1, <3>2 DEF Fate
  <2>6. StandsFor(o, j, t)'
    BY <1>2, <2>1, <2>3, <2>4, <2>5 DEF StandsFor
  <2>7. QED
    BY <2>6
<1>9. Working(t)'
  <2> SUFFICES ASSUME Fate(m) \in {"new", "book"} PROVE Working(t)'
    BY <1>4 DEF Working
  <2>1. msg'[t] = m /\ was'[t] = exch[k] /\ product'[k.book] # 0 /\ exch'[k] = Has(m)
    <3>1. product[k.book] # 0 /\ k.book \in Books
      BY <1>1, <1>6
    <3>2. product'[k.book] # 0
      BY <1>3, <3>1, Zenon
    <3>3. QED
      BY <1>1, <1>2, <1>5, <3>2
  <2>2. m.type \in {"A", "U"} => Has(m) = [price |-> m.price, left |-> m.qty]
    BY DEF Has
  <2>3. m.type = "A" => exch[k] = Gone
    BY DEF Take, Says
  <2>4. m.type \in {"E", "C"} =>
          /\ Has(m).left = exch[k].left - m.qty /\ m.qty <= exch[k].left
          /\ Has(m).left > 0 => Has(m).price = exch[k].price
    <3> SUFFICES ASSUME m.type \in {"E", "C"} PROVE <2>4!2
      OBVIOUS
    <3>1. m.qty <= exch[k].left /\ m.qty \in Nat /\ exch[k] \in Counts
      BY <1>1, MessageFields, NumberAssumption DEF Take, Says
    <3>2. CASE m.qty < exch[k].left
      BY <3>1, <3>2 DEF Has, Counts
    <3>3. CASE m.qty = exch[k].left
      BY <3>1, <3>3 DEF Has, Gone, Counts
    <3>4. QED
      BY <3>1, <3>2, <3>3 DEF Counts
  <2>5. Fate(m) = "new" => ids'[k] = NoId /\ order_id'[t] = m_order_id' + 1
    BY <1>1, <1>2 DEF Take, Fate, Known, SameKey
  <2>6. Fate(m) = "book" => ids'[k] = order_id'[t]
    BY <1>1, <1>2 DEF Take, Known, SameKey
  <2>7. QED
    BY <1>4, <2>1, <2>2, <2>3, <2>4, <2>5, <2>6 DEF Working
<1>10. \A b \in Books : product'[b] # 0 => b \in Cash
  BY <1>3, Zenon DEF MInv
<1>11. \A s \in Threads : s = t
  OBVIOUS
<1>12. (\A s \in Threads : Working(s)') /\ book' = book
  BY <1>2, <1>9, <1>11
<1>13. \A s \in Threads : \A o \in book' : \E j \in Keys : StandsFor(o, j, s)'
  BY <1>2, <1>8, <1>11
<1>14. QED
  BY <1>2, <1>10, <1>12, <1>13 DEF MInv, IdsDistinct

LEMMA MInvNewId ==
  ASSUME TInv, MInv, NEW t \in Threads, Threads = {t}, NewId(t)
  PROVE  MInv'
<1> DEFINE k == msg[t].key
<1>1. /\ pc[t] = "new" /\ pc' = [pc EXCEPT ![t] = "book"]
      /\ ids' = [ids EXCEPT ![k] = order_id[t]] /\ m_order_id' = order_id[t]
      /\ book' = book /\ exch' = exch /\ product' = product /\ msg' = msg
      /\ order_id' = order_id /\ was' = was
  BY DEF NewId, symbolVars
<1>2. /\ ids \in [Keys -> Nat \cup {NoId}] /\ m_order_id \in Nat /\ book \subseteq Orders
      /\ pc \in [Threads -> {"idle", "new", "book", "send"}] /\ msg[t] \in Messages
  BY <1>1 DEF TInv, TypeOK
<1>3. k \in Keys
  BY <1>2, MessageFields
<1>4. ids[k] = NoId /\ order_id[t] = m_order_id + 1
  BY <1>1 DEF MInv, Working
<1>5. \A j \in Keys : ids[j] <= m_order_id
  BY DEF MInv
<1>6. \A j \in Keys : ids'[j] <= m_order_id'
  <2> SUFFICES ASSUME NEW j \in Keys PROVE ids'[j] <= m_order_id'
    OBVIOUS
  <2>1. ids[j] <= m_order_id /\ ids[j] \in Int
    BY <1>2, <1>5 DEF NoId
  <2>2. ids'[j] = IF j = k THEN order_id[t] ELSE ids[j]
    BY <1>1, <1>2
  <2>3. QED
    BY <1>1, <1>2, <1>4, <2>1, <2>2
<1>7. IdsDistinct'
  BY <1>1, <1>2, <1>3, <1>4, <1>5 DEF MInv, IdsDistinct, NoId
<1>8. Working(t)'
  BY <1>1, <1>2, <1>3 DEF MInv, Working
<1>9. \A o \in book : \E j \in Keys : StandsFor(o, j, t)'
  <2> SUFFICES ASSUME NEW o \in book PROVE \E j \in Keys : StandsFor(o, j, t)'
    OBVIOUS
  <2>1. PICK j \in Keys : StandsFor(o, j, t)
    BY DEF MInv
  <2>2. j # k
    BY <1>2, <1>4, <2>1 DEF StandsFor, NoId, Orders
  <2>3. ids'[j] = ids[j]
    BY <1>1, <1>2, <2>2
  <2>4. Owed(j, t)' = Owed(j, t)
    BY <1>1, <1>2 DEF Owed, AtTable
  <2>5. StandsFor(o, j, t)'
    BY <1>1, <2>1, <2>3, <2>4 DEF StandsFor
  <2>6. QED
    BY <2>5
<1>10. \A s \in Threads : s = t
  OBVIOUS
<1>11. \A b \in Books : product'[b] # 0 => b \in Cash
  BY <1>1 DEF MInv
<1>12. \A s \in Threads : Working(s)'
  BY <1>8, <1>10
<1>13. \A s \in Threads : \A o \in book' : \E j \in Keys : StandsFor(o, j, s)'
  BY <1>1, <1>9, <1>10
<1>14. QED
  BY <1>6, <1>7, <1>11, <1>12, <1>13 DEF MInv

(* Hundredths of a price, where a book has at most two decimals.           *)
LEMMA Hundredths ==
  ASSUME Exact, NEW b \in Cash, NEW x \in Nat
  PROVE  /\ Unit(b) \in {1, 10, 100}
         /\ (x * Multiplier(b)) * Unit(b) = x * 100
<1>1. Decimals[b] \in Nat /\ Decimals[b] <= 2
  BY BookAssumption DEF Exact
<1>2. CASE Decimals[b] = 0
  BY <1>2 DEF Unit, Multiplier
<1>3. CASE Decimals[b] = 1
  BY <1>3 DEF Unit, Multiplier
<1>4. CASE Decimals[b] = 2
  BY <1>4 DEF Unit, Multiplier
<1>5. QED
  BY <1>1, <1>2, <1>3, <1>4

(* The order of the table that has the id a thread brings to it.           *)
LEMMA Mine ==
  ASSUME TInv, MInv, NEW t \in Threads, pc[t] = "book",
         NEW o \in book, o.id = order_id[t]
  PROVE  /\ msg[t].key \in Keys /\ o \in Orders /\ StandsFor(o, msg[t].key, t)
         /\ Owed(msg[t].key, t) = was[t]
<1> DEFINE k == msg[t].key
<1>1. msg[t] \in Messages /\ o \in Orders
  BY DEF TInv, TypeOK
<1>2. k \in Keys
  BY <1>1, MessageFields
<1>3. PICK j \in Keys : StandsFor(o, j, t)
  BY DEF MInv
<1>4. ids[j] = o.id /\ ids[k] = order_id[t] /\ o.id # NoId
  <2>1. Working(t)
    BY DEF MInv
  <2>2. o.id \in Nat
    BY <1>1 DEF Orders
  <2>3. QED
    BY <1>3, <2>1, <2>2 DEF StandsFor, Working, NoId
<1>5. j = k
  BY <1>2, <1>4 DEF MInv, IdsDistinct
<1>6. QED
  BY <1>1, <1>2, <1>3, <1>5 DEF Owed, AtTable

(* It is the only one.                                                     *)
LEMMA OnlyMine ==
  ASSUME TInv, MInv, Exact, NEW t \in Threads, pc[t] = "book",
         NEW o \in book, o.id = order_id[t], NEW q \in book, q.id = order_id[t]
  PROVE  q = o
<1> DEFINE k == msg[t].key
<1>1. /\ StandsFor(o, k, t) /\ StandsFor(q, k, t) /\ k \in Keys
      /\ o \in Orders /\ q \in Orders
  BY Mine
<1>2. k.book \in Cash
  BY <1>1, KeyAssumption DEF MInv, StandsFor
<1>3. Unit(k.book) \in {1, 10, 100}
  BY <1>2, Hundredths
<1>4. o.price * Unit(k.book) = q.price * Unit(k.book)
  BY <1>1 DEF StandsFor
<1>5. o.price = q.price
  BY <1>1, <1>3, <1>4 DEF Orders
<1>6. /\ o.id = q.id /\ o.product = q.product /\ o.side = q.side /\ o.size = q.size
  BY <1>1 DEF StandsFor
<1>7. QED
  BY <1>1, <1>5, <1>6 DEF Orders

(* What any operation on the table has to keep: the orders of other ids as *)
(* they were, and what the exchange has now for the id of the message.     *)
Brought(o, t) == LET k == msg[t].key IN
  /\ o.id = order_id[t] /\ o.product = product[k.book] /\ o.side = k.side
  /\ o.size = exch[k].left /\ o.price * Unit(k.book) = exch[k].price * 100

LEMMA MInvTable ==
  ASSUME TInv, MInv, NEW t \in Threads, Threads = {t}, pc[t] = "book",
         NEW f, NEW p, Locals(t, f, p),
         \A o \in book' : (o \in book /\ o.id # order_id[t]) \/ Brought(o, t)
  PROVE  MInv'
<1> DEFINE k == msg[t].key
<1>1. /\ pc' = [pc EXCEPT ![t] = "send"] /\ exch' = exch /\ product' = product /\ ids' = ids
      /\ m_order_id' = m_order_id /\ msg' = msg /\ order_id' = order_id /\ was' = was
  BY DEF Locals, symbolVars, idVars
<1>2. /\ pc \in [Threads -> {"idle", "new", "book", "send"}] /\ msg[t] \in Messages
      /\ \A s \in Threads : s = t
  BY DEF TInv, TypeOK
<1>3. k \in Keys
  BY <1>2, MessageFields
<1>4. pc'[t] = "send"
  BY <1>1, <1>2
<1>5. Working(t)
  BY DEF MInv
<1>6. \A o \in book' : \E j \in Keys : StandsFor(o, j, t)'
  <2> SUFFICES ASSUME NEW o \in book' PROVE \E j \in Keys : StandsFor(o, j, t)'
    OBVIOUS
  <2>1. CASE o \in book /\ o.id # order_id[t]
    <3>1. PICK j \in Keys : StandsFor(o, j, t)
      BY <2>1 DEF MInv
    <3>2. j # k
      BY <1>5, <2>1, <3>1 DEF StandsFor, Working
    <3>3. Owed(j, t) = exch[j]
      BY <3>2 DEF Owed, AtTable
    <3>4. Owed(j, t)' = exch[j]
      BY <1>1, <1>4 DEF Owed, AtTable
    <3>5. StandsFor(o, j, t)'
      BY <1>1, <3>1, <3>3, <3>4 DEF StandsFor
    <3>6. QED
      BY <3>5
  <2>2. CASE Brought(o, t)
    <3>1. PICK j \in Keys : j = k
      BY <1>3
    <3>2. Owed(j, t)' = exch[j]
      BY <1>1, <1>4 DEF Owed, AtTable
    <3>3. product[j.book] # 0 /\ ids[j] = order_id[t]
      BY <1>5, <3>1 DEF Working
    <3>4. StandsFor(o, j, t)'
      BY <1>1, <2>2, <3>1, <3>2, <3>3 DEF StandsFor, Brought
    <3>5. QED
      BY <3>4
  <2>3. QED
    BY <2>1, <2>2
<1>7. Working(t)'
  BY <1>4 DEF Working
<1>8. (\A s \in Threads : Working(s)') /\
      (\A s \in Threads : \A o \in book' : \E j \in Keys : StandsFor(o, j, s)')
  BY <1>2, <1>6, <1>7
<1>9. QED
  BY <1>1, <1>8 DEF MInv, IdsDistinct

LEMMA MInvNotFound ==
  ASSUME TInv, MInv, NEW t \in Threads, Threads = {t}, NotFound(t)
  PROVE  MInv'
<1>1. pc[t] = "book" /\ Locals(t, FALSE, 0) /\ book' = book
  BY DEF NotFound
<1>2. \A o \in book : o.id # order_id[t]
  BY DEF NotFound, unlocked_find_order
<1>3. QED
  BY <1>1, <1>2, MInvTable

LEMMA MInvAdd ==
  ASSUME TInv, MInv, Exact, NEW t \in Threads, Threads = {t}, Add(t)
  PROVE  MInv'
<1> DEFINE m == msg[t]
           n == [id |-> order_id[t], product |-> product[m.key.book], side |-> m.key.side,
                 price |-> MDPrice(m), size |-> m.qty % SizeMod]
<1>1. pc[t] = "book" /\ m.type = "A" /\ book' = book \cup {n}
      /\ Locals(t, TRUE, IfInside(book', n.product))
  BY DEF Add
<1>2. m \in Messages /\ Working(t)
  BY <1>1 DEF TInv, TypeOK, MInv
<1>3. m.key \in Keys /\ m.price \in Nat /\ m.qty \in 1 .. SizeMod - 1
  BY <1>1, <1>2, MessageFields
<1>4. exch[m.key] = [price |-> m.price, left |-> m.qty] /\ was[t] = Gone
      /\ product[m.key.book] # 0
  BY <1>1, <1>2 DEF Working
<1>5. m.key.book \in Cash
  BY <1>3, <1>4, KeyAssumption DEF MInv
<1>6. MDPrice(m) * Unit(m.key.book) = m.price * 100
  BY <1>3, <1>5, Hundredths DEF MDPrice
<1>7. m.qty % SizeMod = m.qty
  BY <1>3, Modulo
<1>8. Brought(n, t)
  BY <1>4, <1>6, <1>7 DEF Brought
<1>9. ASSUME NEW o \in book, o.id = order_id[t] PROVE FALSE
  <2>1. StandsFor(o, m.key, t) /\ Owed(m.key, t) = was[t] /\ o \in Orders
    BY <1>1, <1>9, Mine
  <2>2. o.size = 0 /\ o.size \in 1 .. SizeMod - 1
    BY <1>4, <2>1 DEF StandsFor, Gone, Orders
  <2>3. QED
    BY <2>2, NumberAssumption
<1>10. \A o \in book' : (o \in book /\ o.id # order_id[t]) \/ Brought(o, t)
  <2> HIDE DEF n
  <2>1. QED
    BY <1>1, <1>8, <1>9
<1> HIDE DEF n, m
<1>11. QED
  BY <1>1, <1>10, MInvTable

LEMMA MInvDelete ==
  ASSUME TInv, MInv, Exact, NEW t \in Threads, Threads = {t}, Delete(t)
  PROVE  MInv'
<1>1. PICK o \in unlocked_find_order(t) :
        book' = book \ {o} /\ Locals(t, TRUE, IfTop(o)) /\ pc[t] = "book"
  BY DEF Delete
<1>2. o \in book /\ o.id = order_id[t]
  BY DEF unlocked_find_order
<1>3. \A q \in book' : q \in book /\ q.id # order_id[t]
  BY <1>1, <1>2, OnlyMine
<1>4. QED
  BY <1>1, <1>3, MInvTable

LEMMA MInvReplace ==
  ASSUME TInv, MInv, Exact, NEW t \in Threads, Threads = {t}, Replace(t)
  PROVE  MInv'
<1> DEFINE m == msg[t]
           n(o) == [o EXCEPT !.price = MDPrice(m), !.size = m.qty % SizeMod]
<1>1. PICK o \in unlocked_find_order(t) :
        /\ book' = (book \ {o}) \cup {n(o)} /\ pc[t] = "book" /\ m.type = "U"
        /\ Locals(t, TRUE, IfInside(book', o.product))
  BY DEF Replace
<1>2. o \in book /\ o.id = order_id[t]
  BY DEF unlocked_find_order
<1>3. m \in Messages /\ Working(t)
  BY <1>1 DEF TInv, TypeOK, MInv
<1>4. m.key \in Keys /\ m.price \in Nat /\ m.qty \in 1 .. SizeMod - 1
  BY <1>1, <1>3, MessageFields
<1>5. exch[m.key] = [price |-> m.price, left |-> m.qty] /\ product[m.key.book] # 0
  BY <1>1, <1>3 DEF Working
<1>6. m.key.book \in Cash
  BY <1>4, <1>5, KeyAssumption DEF MInv
<1>7. MDPrice(m) * Unit(m.key.book) = m.price * 100
  BY <1>4, <1>6, Hundredths DEF MDPrice
<1>8. m.qty % SizeMod = m.qty
  BY <1>4, Modulo
<1>9. StandsFor(o, m.key, t) /\ o \in Orders
  BY <1>1, <1>2, Mine
<1>10. Brought(n(o), t)
  <2>1. n(o).id = o.id /\ n(o).product = o.product /\ n(o).side = o.side
        /\ n(o).price = MDPrice(m) /\ n(o).size = m.qty
    BY <1>8, <1>9 DEF Orders
  <2> HIDE DEF n
  <2>2. QED
    BY <1>2, <1>5, <1>7, <1>9, <2>1 DEF Brought, StandsFor
<1>11. \A q \in book' : (q \in book /\ q.id # order_id[t]) \/ Brought(q, t)
  <2> HIDE DEF n
  <2>1. \A q \in book \ {o} : q.id # order_id[t]
    BY <1>1, <1>2, OnlyMine
  <2>2. QED
    BY <1>1, <1>10, <2>1
<1> HIDE DEF n, m
<1>12. QED
  BY <1>1, <1>11, MInvTable

LEMMA MInvExecute ==
  ASSUME TInv, MInv, Exact, NEW t \in Threads, Threads = {t}, Execute(t)
  PROVE  MInv'
<1> DEFINE m == msg[t]
           n(o) == [o EXCEPT !.size = new_size(o, m)]
<1>1. PICK o \in unlocked_find_order(t) :
        /\ book' = Reduced(o, m) /\ pc[t] = "book" /\ m.type \in {"E", "C"}
        /\ Locals(t, TRUE, IfTop(o))
  BY DEF Execute
<1>2. o \in book /\ o.id = order_id[t]
  BY DEF unlocked_find_order
<1>3. m \in Messages /\ Working(t)
  BY <1>1 DEF TInv, TypeOK, MInv
<1>4. m.key \in Keys /\ m.qty \in 1 .. SizeMod - 1
  BY <1>1, <1>3, MessageFields
<1>5. /\ exch[m.key].left = was[t].left - m.qty /\ m.qty <= was[t].left
      /\ exch[m.key].left > 0 => exch[m.key].price = was[t].price
  BY <1>1, <1>3 DEF Working
<1>6. StandsFor(o, m.key, t) /\ Owed(m.key, t) = was[t] /\ o \in Orders
  BY <1>1, <1>2, Mine
<1>7. was[t].left = o.size /\ o.size \in 1 .. SizeMod - 1
  BY <1>6 DEF StandsFor, Orders
<1>8. o.size - m.qty \in 0 .. SizeMod - 1 /\ exch[m.key].left = o.size - m.qty
  BY <1>4, <1>5, <1>7, NumberAssumption
<1>9. new_size(o, m) = exch[m.key].left
  BY <1>8, Modulo DEF new_size
<1>10. ASSUME new_size(o, m) > 0 PROVE Brought(n(o), t)
  <2>1. n(o).id = o.id /\ n(o).product = o.product /\ n(o).side = o.side
        /\ n(o).price = o.price /\ n(o).size = exch[m.key].left
    BY <1>6, <1>9 DEF Orders
  <2>2. exch[m.key].price = was[t].price
    BY <1>5, <1>9, <1>10
  <2> HIDE DEF n
  <2>3. QED
    BY <1>2, <1>6, <2>1, <2>2 DEF Brought, StandsFor
<1>11. \A q \in book' : (q \in book /\ q.id # order_id[t]) \/ Brought(q, t)
  <2>1. book' = (book \ {o}) \cup (IF new_size(o, m) > 0 THEN {n(o)} ELSE {})
    BY <1>1 DEF Reduced
  <2> HIDE DEF n
  <2>2. \A q \in book \ {o} : q.id # order_id[t]
    BY <1>1, <1>2, OnlyMine
  <2>3. QED
    BY <1>10, <2>1, <2>2
<1> HIDE DEF m
<1>12. QED
  BY <1>1, <1>11, MInvTable

LEMMA MInvSend ==
  ASSUME TInv, MInv, NEW t \in Threads, Threads = {t}, Send(t)
  PROVE  MInv'
<1>1. /\ pc[t] = "send" /\ pc' = [pc EXCEPT ![t] = "idle"] /\ book' = book /\ exch' = exch
      /\ product' = product /\ ids' = ids /\ m_order_id' = m_order_id
  BY DEF Send, symbolVars, idVars
<1>2. pc'[t] = "idle" /\ \A s \in Threads : s = t
  BY <1>1 DEF TInv, TypeOK
<1>3. Working(t)'
  BY <1>2 DEF Working
<1>4. \A o \in book : \E j \in Keys : StandsFor(o, j, t)'
  <2> SUFFICES ASSUME NEW o \in book PROVE \E j \in Keys : StandsFor(o, j, t)'
    OBVIOUS
  <2>1. PICK j \in Keys : StandsFor(o, j, t)
    BY DEF MInv
  <2>2. Owed(j, t) = exch[j] /\ Owed(j, t)' = exch[j]
    BY <1>1, <1>2 DEF Owed, AtTable
  <2>3. StandsFor(o, j, t)'
    BY <1>1, <2>1, <2>2 DEF StandsFor
  <2>4. QED
    BY <2>3
<1>5. (\A s \in Threads : Working(s)') /\
      (\A s \in Threads : \A o \in book' : \E j \in Keys : StandsFor(o, j, s)')
  BY <1>1, <1>2, <1>3, <1>4
<1>6. QED
  BY <1>1, <1>5 DEF MInv, IdsDistinct

LEMMA MInvClear ==
  ASSUME MInv, StartStop \/ Reset
  PROVE  MInv'
<1>1. /\ book' = {} /\ exch' = exch /\ product' = product /\ ids' = ids
      /\ m_order_id' = m_order_id /\ pc' = pc /\ msg' = msg /\ order_id' = order_id
      /\ was' = was
  BY DEF StartStop, Reset, symbolVars, idVars, localVars
<1>2. QED
  BY <1>1 DEF MInv, IdsDistinct, Working

LEMMA MInvNext == OneThread /\ Exact /\ TInv /\ MInv /\ [Next]_vars => MInv'
<1> SUFFICES ASSUME OneThread, Exact, TInv, MInv, [Next]_vars PROVE MInv'
  OBVIOUS
<1>1. CASE StartStop \/ Reset
  BY <1>1, MInvClear
<1>2. ASSUME NEW t \in Threads, Step(t) PROVE MInv'
  <2>1. Threads = {t}
    BY DEF OneThread
  <2>2. QED
    BY <1>2, <2>1, MInvTake, MInvNewId, MInvNotFound, MInvAdd, MInvDelete, MInvReplace,
       MInvExecute, MInvSend DEF Step
<1>3. CASE UNCHANGED vars
  BY <1>3 DEF MInv, IdsDistinct, Working, StandsFor, Owed, AtTable, vars, symbolVars, idVars,
              localVars
<1>4. QED
  BY <1>1, <1>2, <1>3 DEF Next

(* With the one thread the handler's unlocked members are made for, no two *)
(* orders of the exchange are given one id.                                *)
THEOREM DistinctIds ==
  ASSUME OneThread, Exact
  PROVE  Spec => []IdsDistinct
<1>1. MInv => IdsDistinct
  BY DEF MInv
<1>2. TInv /\ MInv /\ [Next]_vars => TInv' /\ MInv'
  BY MInvNext, TInvNext
<1>3. Init => TInv /\ MInv
  BY MInvInit, TInvInit
<1>4. QED
  BY <1>1, <1>2, <1>3, PTL DEF Spec

(* And every order of the table mirrors one of the exchange, as long as    *)
(* prices have at most two decimals.                                       *)
THEOREM TableMirrors ==
  ASSUME OneThread, Exact
  PROVE  Spec => []Mirror
<1>1. ASSUME MInv PROVE Mirror
  <2> SUFFICES ASSUME NEW o \in book PROVE \E k \in Keys : Mirrors(o, k)
    BY DEF Mirror
  <2>1. PICK t : Threads = {t}
    BY DEF OneThread
  <2>2. PICK k \in Keys : StandsFor(o, k, t)
    BY <1>1, <2>1 DEF MInv
  <2>3. Owed(k, t) \in Due(k)
    BY <2>1 DEF Owed, Due
  <2>4. Mirrors(o, k)
    BY <2>2, <2>3 DEF StandsFor, Mirrors
  <2>5. QED
    BY <2>4
<1>2. TInv /\ MInv /\ [Next]_vars => TInv' /\ MInv'
  BY MInvNext, TInvNext
<1>3. Init => TInv /\ MInv
  BY MInvInit, TInvInit
<1>4. MInv => Mirror
  BY <1>1
<1>5. QED
  BY <1>2, <1>3, <1>4, PTL DEF Spec
=============================================================================
