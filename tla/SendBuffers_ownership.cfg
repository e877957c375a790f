SPECIFICATION Spec
CONSTANTS
    t1 = t1  t2 = t2
    o1 = o1  o2 = o2  o3 = o3
    b1 = b1  b2 = b2  b3 = b3
    m1 = m1  m2 = m2
    Null = Null  Raw = Raw  Free = Free
    Threads <- MCThreads
    Objects <- MCObjects
    Blocks <- MCBlocks
    Messages <- MCMessages
    MaxPosts <- MCMaxPosts
SYMMETRY Symmetry
INVARIANT OneOwner
PROPERTY QueueOfValues
