--------------------------- MODULE MCExpertStream ---------------------------
(* Ways to start the process: the pool alone with two threads, the pool with *)
(* one thread beside the pilot, io_uring and serial loads beside it, each    *)
(* with a cache that evicts and with one that has room.                      *)
EXTENDS ExpertStream

CONSTANTS w1, w2, e1, e2

Pipe(threads, hints) ==
    [backend |-> "threads", threads |-> threads, hints |-> hints, ecap |-> 1]

MCSetups ==
    {Pipe({w1, w2}, 0), Pipe({w1}, 1)}
      \cup [backend : {"uring", "serial"}, threads : {{}}, hints : {1}, ecap : {1, 2}]

\* One expert of the layer that is predicted is pinned.
MCPinned == {<<0, e2>>, <<2, e1>>}
=============================================================================
