---------------------------- MODULE MCServiceLoop ----------------------------
(***************************************************************************)
(* A small instance of ServiceLoop: one usable config, one that left       *)
(* managed mode and normalizes to the first, one managed config that has   *)
(* no proxy address yet and is at odds with the stored credentials, and    *)
(* the torn file, which does not parse.                                    *)
(***************************************************************************)
EXTENDS ServiceLoop

CONSTANTS usable, left, bootstrap, k1

MCConfig    == {usable, left, bootstrap, Torn}
MCParses    == {usable, left, bootstrap}
MCRemnant   == {left}
MCDemoted   == [c \in {left} |-> usable]
MCAddressed == {usable, left}
MCCreds     == {k1}
MCAccepts   == {<<usable, k1>>}

=============================================================================
