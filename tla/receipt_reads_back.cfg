\* Whatever is assembled can be read back: three kinds of workspace refute it.
SPECIFICATION ReceiptSpec
CONSTANT Nil = Nil
CHECK_DEADLOCK FALSE
INVARIANT AssembledReceiptsReadBack
