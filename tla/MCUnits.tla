---- MODULE MCUnits ----
EXTENDS Units
MCLowercase(c) == IF c = "A" THEN "a" ELSE c
MCUpper(c) == IF c = "a" THEN "A" ELSE c
MCStarts == {0, 9500, 98500, 999000, 1000000, 1949000, 9999500, 99899500, 99999000, 999999000, 1049999000, 1999999500}
====
