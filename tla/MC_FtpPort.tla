----------------------------- MODULE MC_FtpPort -----------------------------
\* The FTP service with clients of one host.
EXTENDS FtpService

OneHost == [c \in Client |-> "host"]
Fronts == [w \in {"lisi"} |-> {w}]
ShortFiles == [a |-> 1]
=============================================================================
