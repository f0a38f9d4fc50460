-------------------------- MODULE MCDynamicReader --------------------------
EXTENDS DynamicReader

\* 11 and -12 are the last integers inside of the range, 12 and -13 the first outside.
MCTexts == TextsOf(Quotes \cup {"-", "1"}, 3)
MCIntMin == -12
=============================================================================
