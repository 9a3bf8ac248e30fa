-------------------------- MODULE MCTrackingDispatch --------------------------
(* Instances of TrackingDispatch for TLC. *)
EXTENDS TrackingDispatchProps, TLC
CONSTANTS e1, e2, e3, g1, s1
OneGrain == e1 :> g1 @@ e2 :> g1 @@ e3 :> g1
OneShard == e1 :> s1 @@ e2 :> s1 @@ e3 :> s1
InOrder == <<e1, e2, e3>>
\* Kafka with REST behind it; gRPC with a fallback that is off; a primary that is off.
SomeChannels ==
  {[primary |-> "KAFKA", fallback |-> "REST", enabled |-> {"KAFKA", "REST"}],
   [primary |-> "GRPC", fallback |-> "REST", enabled |-> {"GRPC"}],
   [primary |-> "GRPC", fallback |-> "KAFKA", enabled |-> {"KAFKA"}]}
\* For the findings: one readable entry.
OneEntry == <<e1>>
=============================================================================
