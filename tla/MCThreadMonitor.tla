-------------------------- MODULE MCThreadMonitor --------------------------
EXTENDS ThreadMonitor

Two == <<"blinker", "usb_host">>

=============================================================================
