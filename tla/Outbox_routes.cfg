\* The three routes race for one message; requests, handlers and inserts fail,
\* the server restarts, the connection flaps, the app is terminated, the local
\* data is cleared.
CONSTANTS
  first = first
  Msgs = {first}
  MaxFaults = 1
  MaxKills = 1
  MaxWipes = 1
SPECIFICATION Spec
INVARIANTS
  TickIsTrue FailedIsQueued
PROPERTIES
  RemovedIsReceived DrainedByReconnecting
CHECK_DEADLOCK FALSE
