---- MODULE MCSession ----
EXTENDS Session

MCLowercase(c) == IF c = "A" THEN "a" ELSE c

MCLetter == {"a", "A", "b", "1", "m", "s"}

(* In milliseconds *)
MCMeaning == (<<"1", "s">> :> 1000) @@ (<<"1", "m">> :> 60000)

MCWritten == (1000 :> <<"1", "s">>) @@ (60000 :> <<"1", "m">>)

MCEarlierFilters ==
  {[maxUpdate |-> NoDuration, keywords |-> {<<"a">>, <<"b">>}],
   [maxUpdate |-> 60000, keywords |-> {<<"b">>}]}
====
