-------------------------------- MODULE MCGui --------------------------------
\* A small instance of the desktop application.
EXTENDS Gui
=============================================================================
