----------------------------- MODULE LogBatches -----------------------------
(***************************************************************************)
(* How a range of blocks is cut into requests for logs that an RPC node    *)
(* will answer (rpcMaxBlockRange): the same loop is in                     *)
(* modules/web3/events.ts, modules/actions/pool/v2/sync-changed-pools.ts   *)
(* and modules/controllers/cow-amm-controller.ts.                          *)
(***************************************************************************)
EXTENDS Integers

\* Math.ceil((last - first) / range)
NumBatches(first, last, range) == (last - first + range - 1) \div range

\* Mutant of BatchFrom: no batch begins where another ends, nor does the first one.
BatchFromAfter(first, range, i) == first + 1 + i * range

\* The first block of batch i, and the last one.
BatchFrom(first, range, i) == first + (IF i > 0 THEN 1 ELSE 0) + i * range

BatchTo(first, last, range, i) ==
    IF first + (i + 1) * range < last THEN first + (i + 1) * range ELSE last

Batch(first, last, range, i) == BatchFrom(first, range, i) .. BatchTo(first, last, range, i)

\* The blocks whose logs are read.
Scanned(first, last, range) ==
    UNION {Batch(first, last, range, i) : i \in 0 .. NumBatches(first, last, range) - 1}

=============================================================================
