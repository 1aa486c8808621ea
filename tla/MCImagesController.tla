------------------------- MODULE MCImagesController -------------------------
\* TLC instance of ImagesController.
EXTENDS ImagesController
=============================================================================
