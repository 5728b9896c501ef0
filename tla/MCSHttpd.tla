------------------------------ MODULE MCSHttpd ------------------------------
(* The instances of SHttpd that TLC checks; the bounds are in the cfg. *)
EXTENDS SHttpd

CONSTANTS c1, c2

TwoConns == {c1, c2}

(* One client with any text, one with whole requests, or two silent ones. *)
AnyWholeOrMute ==
    {(c1 :> "any" @@ c2 :> "none"), (c1 :> "whole" @@ c2 :> "none"),
     (c1 :> "mute" @@ c2 :> "mute")}

(* A request with a query string that is kept alive, and one without. *)
TwoSegments == {<<"ask", "keep">>, <<"get", "field">>}
=============================================================================
