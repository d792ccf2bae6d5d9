---------------------------- MODULE MCTfpMessage ----------------------------
EXTENDS TfpMessage

\* A location is 400 metres long, in the model 8 units of 50 metres.
MCShape == <<0, 5, 8>>

Row(length, los) == [length |-> length, los |-> los]

\* The page throws at the last but one of these: its first row uses up
\* the shape.  The last is of a popup that was opened again, whose rows may
\* be longer than the location.
MCRows ==
    {<<Row(8, a)>> : a \in {1, 3}}
    \union {<<Row(3, a), Row(5, b)>> : a, b \in {1, 3}}
    \union {<<Row(2, a), Row(1, b), Row(5, c)>> : a, b, c \in {1, 3}}
    \union {<<Row(5, 1), Row(1, 3), Row(2, 1)>>, <<Row(8, 1), Row(8, 3)>>}
=============================================================================
