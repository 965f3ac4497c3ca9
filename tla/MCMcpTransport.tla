--------------------------- MODULE MCMcpTransport ---------------------------
(* A small instance of McpTransport for TLC.                               *)
EXTENDS McpTransport

CONSTANTS r1, r2

TwoRequests == {r1, r2}

I(m, n) == [method |-> m, null |-> n]
Single(i) == [batch |-> FALSE, items |-> <<i>>]
Batch(i, j) == [batch |-> TRUE, items |-> <<i, j>>]

(* Messages of every method, and batches that mix requests, notifications  *)
(* and items that do not parse.                                            *)
MixedBodies ==
    {Single(I("list", FALSE)), Single(I("initialized", TRUE)), Single(I("call", TRUE)),
     Batch(I("call", FALSE), I("list", FALSE)), Batch(I("list", FALSE), I("quick", TRUE)),
     Batch(I("quick", TRUE), I("bad", TRUE))}
=============================================================================
