--------------------------- MODULE MCApmEventQueue ---------------------------
EXTENDS ApmEventQueue
\* Two distinct events are enough to tell orders apart; four slots let the
\* ring wrap around and overflow.
MCMaxEvents == 4
=============================================================================
