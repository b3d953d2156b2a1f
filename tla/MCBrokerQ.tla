----------------------------- MODULE MCBrokerQ ------------------------------
(***************************************************************************)
(* A small broker: a source thread (a sensor, a UART) publishes to the     *)
(* broker queue, the broker thread reads it and copies to a subsystem's    *)
(* queue, and the subsystem publishes back to the broker.                  *)
(***************************************************************************)
EXTENDS BrokerQ

CONSTANTS source, broker, subsystem, brokerQueue, subsystemQueue

MCThreads == {source, broker, subsystem}
MCQueues == {brokerQueue, subsystemQueue}
MCReader == [q \in MCQueues |-> IF q = brokerQueue THEN broker ELSE subsystem]
MCTargets == [t \in MCThreads |->
                IF t = broker THEN {subsystemQueue} ELSE {brokerQueue}]

\* The broker queue alone, for liveness: the broker thread also publishes to
\* its own queue, as Notify does from a handler that it runs.
LiveThreads == {source, broker}
LiveQueues == {brokerQueue}
LiveReader == [q \in LiveQueues |-> broker]
LiveTargets == [t \in LiveThreads |-> LiveQueues]
=============================================================================
