--------------------------- MODULE MCMarketSource ---------------------------
(***************************************************************************)
(* Two regions and two months.  The second region is the one that varies:  *)
(* months of two pages, of exactly two full pages and of more rows than    *)
(* the pages take; unreadable, cancelled, too large and unknown rows; two  *)
(* complexes, and one lease far off the others.                            *)
(***************************************************************************)
EXTENDS MarketSource

CONSTANTS near, far, june, july, north, south

Lease(rented, paid, complex) ==
    [named |-> TRUE, deposit |-> rented, rent |-> paid, area |-> 59, date |-> 1, complex |-> complex]

Sale(price, complex) ==
    [named |-> TRUE, cancelled |-> FALSE, amount |-> price, area |-> 60, date |-> 1, complex |-> complex]

Unreadable(row) == [row EXCEPT !.date = Blank]
TooLarge(row) == [row EXCEPT !.area = 86]
Unnamed(row) == [row EXCEPT !.named = FALSE]
Cancelled(sale) == [sale EXCEPT !.cancelled = TRUE]

JuneLeases ==
    LET first == <<Lease(300, 0, north), Lease(240, Blank, south), Lease(100, 1, north)>> IN
    {first, Append(first, Lease(280, 0, north)),
     first \o <<Unreadable(Lease(10, 0, north)), Lease(20, 0, north)>>}

JulyLeases ==
    {<<Lease(60, 2, south)>>, <<TooLarge(Lease(900, 0, south)), Lease(90, 1, south)>>,
     <<Unnamed(Lease(60, 2, south))>>}

JuneSales == {<<Sale(400, north), Cancelled(Sale(9000, north)), Sale(300, south)>>, <<Sale(400, north)>>, <<>>}
JulySales == {<<Sale(0, south)>>, <<Unnamed(Sale(300, south))>>}

\* the market of a region: by month
Months(ofJune, ofJuly) == [ym \in {june, july} |-> IF ym = june THEN ofJune ELSE ofJuly]

Both(ofNear, ofFar) == [code \in {near, far} |-> IF code = near THEN ofNear ELSE ofFar]

QuietLeases == Months(<<Lease(200, 0, north), Lease(50, 1, north)>>, <<>>)
NoSales == Months(<<>>, <<>>)

MCMarkets ==
    {[rent |-> Both(Months(l1, l2), QuietLeases), trade |-> Both(Months(t1, t2), NoSales),
      counting |-> c] :
        l1 \in JuneLeases, l2 \in JulyLeases, t1 \in JuneSales, t2 \in JulySales,
        c \in {{"rent", "trade"}, {"trade"}}}

MCRegions == <<far, near>>
MCWindow == <<june, july>>
MCOutlierRatio == [s \in Statistics |-> 3]
=============================================================================
