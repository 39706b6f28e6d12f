--------------------------- MODULE MCLiveSettings ---------------------------
(* Five keys: two of one section, of which one is parsed; one that only a    *)
(* start checks; of the last section one that the page applies as it is and  *)
(* a start trims, and one that no page applies and whose two defaults        *)
(* differ.  The command line may set one of the live keys, and may put the   *)
(* frontend's data elsewhere.                                                *)
EXTENDS LiveSettings, TLC

MCSection == "poll_interval" :> "bluetooth" @@ "devices" :> "bluetooth"
             @@ "sensor_stale_cycles" :> "runtime"
             @@ "discovery_prefix" :> "mqtt" @@ "port" :> "mqtt"
MCKeys == DOMAIN MCSection
MCDefaults == [k \in MCKeys |-> "default"]
MCUnset == [MCDefaults EXCEPT !["port"] = "other"]
MCTrimmed == [v \in Values |-> IF v = "other" THEN "default" ELSE v]
MCOptions == {<<>>, "poll_interval" :> "other"}
MCArchives == {<<>>, "discovery_prefix" :> "other" @@ "devices" :> "other"}
Interchangeable == Permutations(Threads)
=============================================================================
