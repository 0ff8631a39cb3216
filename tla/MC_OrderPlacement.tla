------------------------- MODULE MC_OrderPlacement -------------------------
(* Small instances of OrderPlacement for TLC.  The product bag comes in red,   *)
(* which an edit replaces by blue; cap has no variant.                         *)
EXTENDS OrderPlacement, TLC

CONSTANTS bag, cap, red, blue, buyer, key1, place1, place2, place3, cancel1, cancel2,
    edit1, edit2, remove1

MCProductOf == [x \in Variant |-> bag]
Line(product, variant, n) == [product |-> product, variant |-> variant, n |-> n]
CartOf(key, account, points, lines) ==
    [key |-> key, account |-> account, points |-> points, lines |-> lines]

\* A customer and his retry, against another order of the same account that asks
\* for the same things in the other order.
MCCart ==
    [r \in Placing |->
        IF r = place3
          THEN CartOf(None, buyer, 1, <<Line(cap, None, 1), Line(bag, red, 1)>>)
          ELSE CartOf(key1, buyer, 2, <<Line(bag, red, 1), Line(cap, None, 1)>>)]
\* One cart has a line twice.
MCTwiceCart ==
    [r \in Placing |->
        IF r = place1 THEN CartOf(None, buyer, 1, <<Line(bag, red, 1), Line(bag, red, 1)>>)
                      ELSE CartOf(None, buyer, 1, <<Line(bag, red, 1), Line(cap, None, 1)>>)]
MCTarget == [c \in Cancelling |-> place1]
\* One edit replaces the variants, the other sends a stock only.
MCEdit ==
    [u \in Updating |->
        IF u = edit1
          THEN [product |-> bag, stock |-> None, rewrite |-> TRUE, variants |-> {blue}]
          ELSE [product |-> bag, stock |-> 1, rewrite |-> FALSE, variants |-> {}]]
MCRemoved == [x \in Removing |-> bag]
MCOpening == [row \in Row |-> IF row = buyer THEN 4 ELSE IF row = red THEN 2 ELSE 3]
MCTightOpening == [row \in Row |-> IF row = red THEN 2 ELSE 3]
=============================================================================
