------------------------------ MODULE MCFleet -------------------------------
(* An instance of Fleet for TLC. *)
EXTENDS Fleet

\* The VIN or the plate of the other carrier's asset, with one that is new.
MCTyped == {<<2, 3>>, <<3, 2>>}

\* Who takes part, with which kinds of assets, and how much happens.
Cast(who, kinds, max) == [who |-> who, kinds |-> kinds, ops |-> max]
MCCasts ==
    {Cast({"Other"}, {"truck"}, 3), Cast({"Other"}, {"trailer"}, 2),
     Cast({"Owner"}, {"trailer"}, 3), Cast({"Owner"}, {"truck", "driver", "user"}, 4),
     Cast({"Dispatcher"}, {"trailer", "truck"}, 4), Cast({"Dispatcher", "Other"}, {"driver"}, 3)}
=============================================================================
