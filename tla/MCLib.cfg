SPECIFICATION Spec
CONSTANTS
    Sizes <- CodeSizes
    WordBits = 11
    Last = 5
    Bytes = {53, 200}
    Numbers <- SmallNumbers
    Page = 16
INVARIANTS
    MemoryRight
    StringsRight
    ArithmeticRight
