----------------------------- MODULE MCBatchJobs -----------------------------
(***************************************************************************)
(* Small instances of BatchJobs: one submitted job of one or two payments, *)
(* up to two more for its retries, one or two workers.                     *)
(***************************************************************************)
EXTENDS BatchJobs, TLC

CONSTANTS p1, p2, j1, j2, j3, w1, w2

OnePayment == j1 :> <<p1>>
TwoPayments == j1 :> <<p1, p2>>
SecondUnparseable == {<<j1, p2>>}
AnyRetry == Permutations({j2, j3})
AnyWorker == Permutations({w1, w2})
=============================================================================
