---------------------------- MODULE MCOrderBook ----------------------------
(* Instances of OrderBook: two cash books and an option, and orders that   *)
(* share an id on the two sides of a book and in two books.                *)
EXTENDS OrderBook, TLC

Key(i, b, s) == [order |-> i, book |-> b, side |-> s]
Bid == Key(1, "abc", "B")
MCKeys == { Bid, Key(2, "abc", "B"), Key(1, "abc", "S"), Key(1, "xyz", "B"), Key(1, "opt", "B") }
Live == [builder |-> FALSE, level2 |-> FALSE, trades |-> FALSE, old |-> FALSE]
Old == [builder |-> TRUE, level2 |-> TRUE, trades |-> FALSE, old |-> TRUE]
New == [builder |-> TRUE, level2 |-> TRUE, trades |-> TRUE, old |-> FALSE]
AllModes == { Live, Old, New, [New EXCEPT !.level2 = FALSE] }

Pair(k, prices, modes) == [orders |-> {Bid, k}, prices |-> prices, modes |-> modes]
Pairs == { Pair(Key(2, "abc", "B"), {1, 2}, {Live}),
           Pair(Key(2, "abc", "B"), {2}, {Old}),
           Pair(Key(1, "abc", "S"), {1}, AllModes),
           Pair(Key(1, "xyz", "B"), {2}, {Live}),
           Pair(Key(1, "opt", "B"), {1}, AllModes) }

MCDecimals == "abc" :> 2 @@ "xyz" :> 0 @@ "opt" :> 2
OneThread == [b \in Books |-> "main"]
\* With it, and {"main", "start"} for Threads, IdsDistinct and TradeOfTheOrder
\* fail: the handler is shared and only its table has a lock.
TwoThreads == [b \in Books |-> IF b = "xyz" THEN "start" ELSE "main"]
=============================================================================
