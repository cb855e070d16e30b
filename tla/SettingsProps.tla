----------------------------- MODULE SettingsProps -----------------------------
(***************************************************************************)
(* What the limits of the table guarantee to the code that uses the words. *)
(***************************************************************************)
EXTENDS Settings

Running == device # Off

\* calculate_table_NTC writes termo_table[0..number-1] and calc_temperature
\* divides it into steps: whatever flash held at power-on and whatever a master
\* has written since, the array of 166 entries is not overrun, and the table
\* rises.  Those are the assumptions module Thermistor makes.
TableFits ==
    Running => /\ device.ntc.number \in 0..SIZE_NTC_TABLE
               /\ device.ntc.step > 0

\* zb_set_network_ed_role gets the mask of exactly one channel of the 2.4 GHz
\* band; with an empty mask the device would search for ever.
ChannelUsable ==
    Running => \E c \in 11..26 : device.mask = {c}

\* After a power failure all sensors start at once; those of one installation,
\* whose panel and point lie inside the columns of the table and below
\* MAX_SENSOR_IN_ROUTER, begin to join at least five seconds apart.
Installed == (0..255) \X (0..(MAX_SENSOR_IN_ROUTER - 1))
StartsApart ==
    Running /\ device.delay > 0 /\ device.at \in Installed =>
        \A panel \in Value, point \in 0..(MAX_SENSOR_IN_ROUTER - 1) :
            LET other == Delay(device.wait, panel, point)
            IN  <<panel, point>> \in Installed \ {device.at} =>
                   \/ other >= device.delay + TIME_BETWEEN_NEXT_CONNECTION
                   \/ device.delay >= other + TIME_BETWEEN_NEXT_CONNECTION

\* A controller takes a value with the pattern 0x7xxx of a label as no
\* temperature when it is one of the three labels, and divides the rest by 100.
\* With every setting, each temperature up to 327 degrees that the table can
\* give reads back as itself and never as a label, even those that wrap around
\* the 16 bits; and a label stays a label.
Label == {28673, 28674, 28676}
PublishedReadsBack ==
    Running =>
        /\ \A k \in 0..device.ntc.number :
              LET t == device.ntc.start + k * device.ntc.step
              IN  /\ t <= 327 => Published(t) = 100 * t
                  /\ uint16(Published(t)) \notin Label
        /\ \A l \in Label : Published(l) = l
================================================================================
