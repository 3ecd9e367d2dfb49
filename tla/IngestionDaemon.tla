--------------------------- MODULE IngestionDaemon ---------------------------
(* The daemon as its venue meets it: the live feed of runLiveIngestion and   *)
(* the REST client of the connector, whose callers (warm-up of every symbol, *)
(* flow poll, backfill) share one event loop with the feed's handlers.       *)
EXTENDS VenueRest, LiveIngestion

daemonVars == <<restVars, liveVars>>

DaemonInit == RestInit /\ LiveInit
DaemonNext ==
  \/ RestNext /\ UNCHANGED liveVars
  \/ LiveNext /\ UNCHANGED restVars

DaemonSpec == DaemonInit /\ [][DaemonNext]_daemonVars

\* The venue meets one well-behaved client: requests of all callers together keep its
\* rate, and the feed holds one connection or one reconnect timer.
VenueSeesOneClient == VenueRateRespected /\ OneConnection

=============================================================================
