---------------------------- MODULE MCRequestRun ----------------------------
(* A request of three items, one that mixes a certified item with two others,
   and a file of two small requests; e is a source-marked presence item. *)
EXTENDS RequestRun

MCFiles == {<< <<"a", "b", "c">> >>, << <<"c", "d", "e">> >>, << <<"a">>, <<"b">> >>}
MCSays == [a |-> {"COMPLIANT", "UNDETERMINED"}, b |-> {"NOT_APPLICABLE"}, c |-> {"VIOLATION"},
           d |-> {"COMPLIANT"}, e |-> {"VIOLATION"}]
MCTargets == [a |-> {}, b |-> {"a"}, c |-> {"b", "e"}, d |-> {}, e |-> {"a"}]
=============================================================================
