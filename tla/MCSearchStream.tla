--------------------------- MODULE MCSearchStream ---------------------------
EXTENDS SearchStream

Once == <<{10}>>
Downward == <<{50}, {30}, {10}>>
EitherWay == <<{30}, {10, 50}>>
=============================================================================
