----------------------------- MODULE MCToolchain -----------------------------
(***************************************************************************)
(* Small instances of the parts of the compiler's toolchain: the transfer  *)
(* of a workspace authority, the bundler adapters, the classifier's        *)
(* transaction, the classification with its receipt, the semantic analysis *)
(* of an owner, and the lowering of a source.  They share no state while   *)
(* they run, so a behaviour follows one of them and the others rest in one *)
(* initial state.                                                          *)
(***************************************************************************)
EXTENDS AuthorityTransfer, BundlerAdapters, ClassifierTransaction,
        CheckReceipt, SemanticBatch, SourceLowering

CONSTANTS cat1, cat2,     \* catalogs
          x1, x2, y1, y2  \* two processes or builds; two calls or modules

Xs == {x1, x2}
Ys == {y1, y2}
CatalogsInOrder == <<cat1, cat2>>
Interchangeable == Permutations(Xs) \cup Permutations(Ys)

VARIABLE part  \* the part a behaviour follows

transferred == <<sender, receiver>>
received == <<classifier, receipting>>

ToolchainInit ==
  /\ part \in {"transfer", "bundler", "transaction", "receipt", "batch",
               "lowering"}
  /\ TransferInit /\ (part = "transfer" \/ bundle = None)
  /\ BundlerInit
  /\ part = "bundler" \/ (adapter = "vite" /\ disk.pointer = NoBuild)
  /\ TransactionInit /\ (part = "transaction" \/ ~barrier)
  /\ ReceiptInit
  /\ BatchInit
  /\ LoweringInit

ToolchainNext ==
  /\ UNCHANGED part
  /\ \/ /\ part = "transfer" /\ TransferNext
        /\ UNCHANGED <<bundler, classified, received, batched, lowered>>
     \/ /\ part = "bundler" /\ BundlerNext
        /\ UNCHANGED <<transferred, classified, received, batched, lowered>>
     \/ /\ part = "transaction" /\ TransactionNext
        /\ UNCHANGED <<transferred, bundler, received, batched, lowered>>
     \/ /\ part = "receipt" /\ ReceiptNext
        /\ UNCHANGED <<transferred, bundler, classified, batched, lowered>>
     \/ /\ part = "batch" /\ BatchNext
        /\ UNCHANGED <<transferred, bundler, classified, received, lowered>>
     \/ /\ part = "lowering" /\ LoweringNext
        /\ UNCHANGED <<transferred, bundler, classified, received, batched>>

ToolchainSpec ==
  ToolchainInit
  /\ [][ToolchainNext]_<<part, transferred, bundler, classified, received,
                        batched, lowered>>

=============================================================================
