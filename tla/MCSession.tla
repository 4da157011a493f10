----------------------------- MODULE MCSession -----------------------------
(***************************************************************************)
(* Session for TLC.  Operations o1 and o2 are on the first connection, o3  *)
(* on the second, with the request ID of o1.                               *)
(***************************************************************************)
EXTENDS Session, TLC

CONSTANTS o1, o2, o3

Configs == [wire : {"json", "cbor"}, compressor : {"", "gzip"},
            secret : {"", "s", "t"}, credit : BOOLEAN]

MCConns  == {1, 2}
MCConnOf == (o1 :> 1) @@ (o2 :> 1) @@ (o3 :> 2)
MCIdOf   == (o1 :> 2) @@ (o2 :> 4) @@ (o3 :> 2)

Plain(credit) == [wire |-> "json", compressor |-> "", secret |-> "", credit |-> credit]

Load(conns, ops, kinds, events) ==
  [conns |-> conns, ops |-> ops, kinds |-> kinds, events |-> events,
   clients |-> {Plain(TRUE)}, servers |-> {Plain(TRUE)}]

\* All pairs of configurations, and no operation.
Agreement == [Load({1}, {}, {}, {"refuse", "close"}) EXCEPT !.clients = Clients, !.servers = Servers]

\* One stream, and what may happen to it.
OneStream == {Load({1}, {o1}, Stream, ev) :
                ev \in {{"cancel", "close"}, {"deadline", "loss"}, {"busy", "silence"}}}

\* One call or notification, or two at a time.
Calls == {Load({1}, {o1}, Kinds \ Stream, {"cancel", "close", "loss"}),
          Load({1}, {o1, o2}, Kinds \ Stream, {"cancel", "busy"})}

\* Two streams, one more than MaxStreams.
TwoStreams == Load({1}, {o1, o2}, {"server"}, {})

\* Two connections, to releases with and without credit, each with a stream
\* or a call.
Replacement ==
  [Load({1, 2}, {o1, o3}, {"server", "call"}, {"silence"})
     EXCEPT !.servers = {Plain(TRUE), Plain(FALSE)}]

\* Two connections with a stream each, which the caller may cancel.
MCStaleLoads == {Load({1, 2}, {o1, o3}, {"server"}, {"silence", "cancel"})}

MCLoads == {Agreement, TwoStreams, Replacement} \cup OneStream \cup Calls
=============================================================================
