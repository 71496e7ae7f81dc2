---------------------------- MODULE SensorPayload ----------------------------
(***************************************************************************)
(* What a temperature goes through between the sensor of a node and the    *)
(* hub: get_latest_sensor_value_char prints it with "%s%d.%d" from sign,   *)
(* whole part and two decimals as integers, and the hub reads the text     *)
(* with atof.  Temperatures are in thousandths of a degree.                *)
(***************************************************************************)
EXTENDS Integers

Magnitude(t) == IF t < 0 THEN -t ELSE t

\* A slip: the sign is that of the whole part.
PrintedWholeSign(t) == [negative |-> t <= -1000,
                        whole    |-> Magnitude(t) \div 1000,
                        decimals |-> (Magnitude(t) % 1000) \div 10]

\* The text, as the three values it is printed from.  PRIq_arg cuts the value
\* after the second decimal, and "%d" prints 5 hundredths as ".5".
Printed(t) == [negative |-> t < 0,
               whole    |-> Magnitude(t) \div 1000,
               decimals |-> (Magnitude(t) % 1000) \div 10]

\* The values are fetched from sensor_last_value one by one, or once if the
\* compiler keeps them, and the sensor thread may run in between: each of the
\* three may be of the sample before or after.
PrintedTexts(before, after) ==
    {[negative |-> Printed(x).negative, whole |-> Printed(y).whole,
      decimals |-> Printed(z).decimals] : x, y, z \in {before, after}}

\* atof: the digits after the point count from the left.
ReadBack(text) ==
    LET thousandths == IF text.decimals < 10 THEN 100 * text.decimals
                       ELSE 10 * text.decimals
        magnitude   == 1000 * text.whole + thousandths
    IN  IF text.negative THEN -magnitude ELSE magnitude
=============================================================================
