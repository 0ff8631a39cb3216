\* Two orders and a cancellation while the seller edits the product twice or
\* removes it.
SPECIFICATION Spec
CONSTANTS
    bag = bag
    cap = cap
    red = red
    blue = blue
    buyer = buyer
    key1 = key1
    place1 = place1
    place2 = place2
    place3 = place3
    cancel1 = cancel1
    cancel2 = cancel2
    edit1 = edit1
    edit2 = edit2
    remove1 = remove1
    None = None
    Product = {bag, cap}
    Account = {buyer}
    Variant = {red, blue}
    Placing = {place1, place2}
    Cancelling = {cancel1}
    Updating = {edit1, edit2}
    Removing = {remove1}
    Key = {key1}
    ProductOf <- MCProductOf
    Cart <- MCTwiceCart
    Target <- MCTarget
    Edit <- MCEdit
    Removed <- MCRemoved
    Opening <- MCTightOpening
INVARIANTS
    OnlyCrossingCallsStick
PROPERTIES
    ImplementsLedger
\* Once its calls are answered an instance stops.
CHECK_DEADLOCK FALSE
