------------------------------ MODULE MCFleet ------------------------------
(* Four builds, one file, a library in two versions or none *)
EXTENDS Fleet

CONSTANTS a, b, c, d, sh, ssl, one, two, x, y, z

MCLabels == <<a, b, c, d>>

MCFinds ==
    {[file |-> sh],
     [component |-> ssl, version |-> one, artifact |-> x],
     [component |-> ssl, version |-> two, artifact |-> y],
     [component |-> ssl, version |-> Unknown, artifact |-> z]}
=============================================================================
