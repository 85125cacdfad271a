--------------------------- MODULE MCGuiCapture ---------------------------
(* Two sources of three packets, a history of two that scrolls, a frame    *)
(* budget below the queue's capacity.                                      *)
EXTENDS GuiCapture
===========================================================================
