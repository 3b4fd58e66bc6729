------------------------------- MODULE MC_Rio -------------------------------
\* Buffered reads of short streams through a two-byte buffer.
EXTENDS Rio

\* lines longer and shorter than the buffer and the caller's sizes, an empty
\* line, a last line without its end
Lines == { <<"x", "y", Nl, Nl, "z">>, <<"x", "y", "z", "w", Nl>>, << >> }
=============================================================================
