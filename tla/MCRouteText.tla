----------------------------- MODULE MCRouteText -----------------------------
(***************************************************************************)
(* A route over the Pacific, with way points on either side of the date     *)
(* line.                                                                    *)
(***************************************************************************)
EXTENDS RouteText, TLC

MCAirportAt == ("RJAA" :> 140) @@ ("PHNL" :> -158)
MCNavAidsAt == ("MARCS" :> <<178>>) @@ ("NIPPI" :> <<-179>>)
MCLatLonAt == ("22N175E" :> 175)

MCRoutes == UNION {[1..n -> {"MARCS", "NIPPI", "22N175E"}] : n \in 0..2}
=============================================================================
