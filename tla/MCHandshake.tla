----------------------------- MODULE MCHandshake -----------------------------
(***************************************************************************)
(* The versions at and between the limits that Handshake tells apart, and    *)
(* lists of authentication types in either order.                           *)
(***************************************************************************)
EXTENDS Handshake

MCVersions == {<<3, 3>>, <<3, 5>>, <<3, 7>>, <<3, 8>>, <<3, 9>>, <<3, 889>>,
               <<4, 1>>}
MCOffers == {<<"none">>, <<"vnc", "none">>, <<"other", "none", "vnc">>,
             <<"ard", "vnc">>, <<"other", "ard">>}
=============================================================================
