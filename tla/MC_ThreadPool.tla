--------------------------- MODULE MC_ThreadPool ----------------------------
\* The thread pool with a few workers and callers.
EXTENDS ThreadPool
=============================================================================
