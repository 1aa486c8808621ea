--------------------------- MODULE MCMessageQueue ---------------------------
\* TLC instance of MessageQueue: two workers and the io thread of the face
\* detection service, any of which may call any operation of the queue.
EXTENDS MessageQueue
=============================================================================
