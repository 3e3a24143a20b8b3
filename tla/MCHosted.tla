------------------------------ MODULE MCHosted ------------------------------
(* Instances of Hosted for TLC: a request of two packets, then one of one.   *)
EXTENDS Hosted

TwoThenOne == <<2, 1>>

\* States are the same whose counters differ from each other alike: the code
\* only ever takes their differences, and start sets them anew with the
\* coprocessor's.  Nobody reads a response but for AnswersMatch, and of the
\* failures all that is asked is whether there may be more and were any.
Ahead(length) == (length - link.rxCount) % LengthSpan
View ==
  <<pc, lanes, batch, sent, tries,
    IF failures < MaxFailures THEN failures ELSE MaxFailures,
    [rpc EXCEPT !.response = 0],
    [link EXCEPT !.tokens = Available(@), !.txCount = 0, !.rxCount = 0],
    [rx EXCEPT !.tokens = IF pc["rx"] = "store" THEN Available(@) ELSE 0,
               !.length = IF pc["rx"] \in {"store", "fetch"} THEN Ahead(@) ELSE 0],
    [cp EXCEPT !.tokens = Available(@),
               !.length = IF pc["start"] = "connect" THEN 0 ELSE Ahead(@)]>>
=============================================================================
