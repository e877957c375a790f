SPECIFICATION HandlersSpec
CONSTANTS
    f1 = f1  f2 = f2  f3 = f3
    c1 = c1  c2 = c2
    Stock = Stock
    NoContent = NoContent
    Null = Null
    Fonts <- MCFonts
    SearchContents <- MCContents
INVARIANTS ContextGivenBack NothingFromBefore
