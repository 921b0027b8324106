---------------------------- MODULE MCAirQuality ----------------------------
(***************************************************************************)
(* AirQuality in halves, with readings on both sides of every limit.       *)
(***************************************************************************)
EXTENDS AirQuality

MCReadings == {-1, 0} \cup {2 * l + d : l \in {50, 100, 150, 200, 300},
                                        d \in {-1, 0, 1, 2}}

=============================================================================
