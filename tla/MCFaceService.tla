--------------------------- MODULE MCFaceService ----------------------------
\* TLC instance of FaceService: the two workers main() asks for.
EXTENDS FaceService
=============================================================================
