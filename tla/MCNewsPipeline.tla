-------------------------- MODULE MCNewsPipeline --------------------------
(* An instance of NewsPipeline for TLC: an article in two feeds, one that is
   too long for its column, two answers, one of which names a sector twice. *)
EXTENDS NewsPipeline

CONSTANTS u1, u2, big, IT, bio

MCSourceOrder == <<"hankyung", "mk">>
MCFeed == [hankyung |-> {u1}, mk |-> {u1, u2, big}]
MCOutputs == {[sentiment |-> "positive", sector_tags |-> <<IT>>],
              [sentiment |-> "negative", sector_tags |-> <<IT, bio, IT>>]}
=============================================================================
