---------------------------- MODULE MCWebServer -----------------------------
\* TLC instance of WebServer: the two workers main() asks for and two
\* connections at a time.
EXTENDS WebServer
=============================================================================
