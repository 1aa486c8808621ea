-------------------------- MODULE MCClientSession ---------------------------
\* TLC instance of ClientSession: one server, any number of requests.
EXTENDS ClientSession
=============================================================================
