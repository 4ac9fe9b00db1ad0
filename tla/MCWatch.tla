------------------------------- MODULE MCWatch -------------------------------
(* Watch with scrapers that find some of the same embeds and streams.        *)
EXTENDS Watch, TLC
CONSTANTS e1, e2, u1, u2

SomeLists == {<<>>, <<e1>>, <<e2, e1>>}
SomeUrls  == {<<>>, <<u1>>, <<u2, u1>>}
=============================================================================
