------------------------------ MODULE MCProcess ------------------------------
EXTENDS Process

\* Requests that meet each other, and records that meet the shutdown.
Meetings ==
    {{"change", "sync"}, {"login", "logout"}, {"setup", "interval"},
     {"queue", "scheduler", "main"}, {"queue", "http", "main"}}
==============================================================================
