----------------------------- MODULE MCExecutor -----------------------------
(* Small pipelines for the executor.  FanOut: m1 is routed to two          *)
(* destinations, m2 fails in a stage.  Twin: two messages with one payload *)
(* after the stages and one default destination.                           *)
EXTENDS Executor, TLC

CONSTANTS m1, m2, d1, d2, p1, p2

FanOutRoute == (m1 :> <<d1, d2>>) @@ (m2 :> <<d1>>)
FanOutPayload == (m1 :> p1) @@ (m2 :> p2)

TwinRoute == (m1 :> <<d1>>) @@ (m2 :> <<d1>>)
TwinPayload == (m1 :> p1) @@ (m2 :> p1)
=============================================================================
