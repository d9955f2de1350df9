------------------------------ MODULE MCHotReload ------------------------------
\* Instances of HotReload: one connection (USB) or two (USB and wifi).
EXTENDS HotReload
CONSTANTS usb, wifi
================================================================================
