------------------------------ MODULE MCHttpDate ------------------------------
(* Headers for the run of HttpDate: the days around the ends of months,    *)
(* years, centuries and of the supported range, in each format.            *)
EXTENDS HttpDate

On(format, year, month, day) ==
    [format |-> format, gmt |-> format # "asctime", long |-> FALSE,
     year |-> year, month |-> month, day |-> day,
     hour |-> 8, min |-> 49, sec |-> 37]

At(d, hour, min, sec) == [d EXCEPT !.hour = hour, !.min = min, !.sec = sec]

Epoch == On("asctime", 1970, 1, 1)
Eve   == On("imf", 2100, 2, 28)

MCDates ==
    {On("imf", yr, mo, da) :
        yr \in {1969, 1972, 1999, 2000, 2100, 2101}, mo \in {2, 3, 12},
        da \in {0, 28, 29, 31}}
    \cup {On("rfc850", yr, 1, 31) : yr \in {0, 69, 70, 99, 170, 1994}}
    \cup {At(Epoch, 0, 0, 0), At(Eve, 23, 59, 59), At(Eve, 23, 59, 60),
          At(Eve, 24, 0, 0), At(Eve, 23, 60, 0), At(Eve, 23, 59, 61),
          At(On("asctime", 2100, 3, 1), 0, 0, 0), On("rfc850", 3500, 1, 1),
          On("imf", 2000, 0, 1), On("other", 2000, 1, 1),
          [Epoch EXCEPT !.long = TRUE], [Epoch EXCEPT !.day = 0],
          [Eve EXCEPT !.gmt = FALSE]}
=============================================================================
