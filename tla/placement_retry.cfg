\* A customer, his retry and another order of his, with cancellations.
SPECIFICATION Spec
CONSTANTS
    bag = bag
    cap = cap
    red = red
    blue = blue
    buyer = buyer
    key1 = key1
    place1 = place1
    place2 = place2
    place3 = place3
    cancel1 = cancel1
    cancel2 = cancel2
    edit1 = edit1
    edit2 = edit2
    remove1 = remove1
    None = None
    Product = {bag, cap}
    Account = {buyer}
    Variant = {red}
    Placing = {place1, place2, place3}
    Cancelling = {cancel1, cancel2}
    Updating = {}
    Removing = {}
    Key = {key1}
    ProductOf <- MCProductOf
    Cart <- MCCart
    Target <- MCTarget
    Edit <- MCEdit
    Removed <- MCRemoved
    Opening <- MCOpening
INVARIANTS
    NeverNegative
    StockMatchesOrders
    KeysHonoured
\* Once its calls are answered an instance stops.
CHECK_DEADLOCK FALSE
